------------------------------- MODULE MCSheet -------------------------------
(***************************************************************************)
(* The two views of the synchronization for TLC: the steps of a run and    *)
(* what falls between them (SheetSync), and the decisions over many days   *)
(* (ReviewQueue), in which a run is one step.  A behaviour is one of the   *)
(* two; the other stays as it starts.                                      *)
(*                                                                         *)
(* Two streams; the Sheet holds one of them.  Of the queue's two streams,  *)
(* both are of server 2, or one is of server 1.                            *)
(***************************************************************************)
EXTENDS MCSheetSync, ReviewQueue

VARIABLE which

MCLayouts == {[s \in Streams |-> 2], [s \in Streams |-> IF s = 1 THEN 1 ELSE 2]}

MCInit ==
    /\ which \in {"run", "days"}
    /\ Init /\ QueueInit
    /\ which = "run" =>
          /\ server = [s \in Streams |-> 2] /\ sheet = [s \in Streams |-> NoRow]
          /\ verdict = [s \in Streams |-> "none"] /\ guide = [s \in Streams |-> "unlisted"]
    /\ which = "days" => provider = [k \in Keys |-> n1]

MCNext ==
    \/ which = "run" /\ Next /\ UNCHANGED <<which, queueVars>>
    \/ which = "days" /\ QueueNext /\ UNCHANGED <<which, vars>>

\* The fairness of SheetSync, of its own behaviours.
MCSpec ==
    /\ MCInit /\ [][MCNext]_<<which, vars, queueVars>>
    /\ SF_vars(which = "run" /\ Start("apply"))
    /\ WF_vars(which = "run" /\ Work) /\ WF_vars(which = "run" /\ Land)

RunSettles == which = "run" => Settles
=============================================================================
