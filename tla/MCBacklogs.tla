----------------------------- MODULE MCBacklogs -----------------------------
(***************************************************************************)
(* Three programs that work off a backlog and share no state: the approval *)
(* lane (ApprovalLane), the decision of a row by the lab that feeds it     *)
(* (LabDecision), and the resolution queue of movie titles (TitleQueue).   *)
(* A behaviour is one of them; the two others stay as they start.          *)
(***************************************************************************)
EXTENDS ApprovalLane, LabDecision, TitleQueue

VARIABLE which

AllProposals == <<"b", "a">>
OtherStreams == <<"c">>

Delays == [unavailable |-> 1, stable |-> 1]

MCInit ==
    /\ which \in {"approvals", "decision", "titles"}
    /\ Init
    /\ TitleInit
    /\ IF which = "decision" THEN LabInit
       ELSE retrieved = <<>> /\ proposal = NoProposal

MCNext ==
    \/ which = "approvals" /\ Next /\ UNCHANGED <<which, labVars, titleVars>>
    \/ which = "decision" /\ LabNext /\ UNCHANGED <<which, vars, titleVars>>
    \/ which = "titles" /\ TitleNext /\ UNCHANGED <<which, vars, labVars>>

all == <<which, vars, labVars, titleVars>>

MCSpec == MCInit /\ [][MCNext]_all

\* Of the queue's behaviours: no open title is left out while others are asked about
\* (select_due, record_result, reopen_ignored; NoTitleStarves).
TitlesTried == which = "titles" => NoTitleStarves
=============================================================================
