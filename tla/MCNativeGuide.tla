---------------------------- MODULE MCNativeGuide ----------------------------
(***************************************************************************)
(* Runs that wait for a lock, for TLC: the refreshes and recoveries of the *)
(* native guides (NativeGuide, FairSpec), of two servers; and publishers   *)
(* that wait for the publication lock (Publication, Fairness), two runs of *)
(* each workflow.  A behaviour is one of the two; the other stays as it    *)
(* starts.                                                                 *)
(***************************************************************************)
EXTENDS NativeGuide, TLC

CONSTANTS l1, l2, v1, v2

VARIABLES
    which,
    clock, horizon, valid, phase, attempt, own, got, pages, site, served, atLock

siteVars == <<clock, horizon, valid, phase, attempt, own, got, pages, site, served, atLock>>

Publishers == {l1, l2, v1, v2}
MCRunComp == (l1 :> "live") @@ (l2 :> "live") @@ (v1 :> "vod") @@ (v2 :> "vod")

P == INSTANCE Publication WITH
        Runs <- Publishers, RunComp <- MCRunComp,
        MaxAttempts <- 1, MaxUploads <- 2, Window <- 2, WindowCovers <- TRUE

MCInit == which \in {"guides", "publication"} /\ Init /\ P!Init

MCNext ==
    \/ which = "guides" /\ Next /\ UNCHANGED <<which, siteVars>>
    \/ which = "publication" /\ P!Next /\ UNCHANGED <<which, vars>>

\* The fairness of the two programs, each of its own behaviours.
MCSpec ==
    /\ MCInit /\ [][MCNext]_<<which, vars, siteVars>>
    /\ WF_vars(which = "guides" /\ Steps)
    /\ SF_vars(which = "guides" /\ Tick)
    /\ SF_vars(which = "guides" /\ StartRefresh)
    /\ SF_vars(which = "guides" /\ StartRecovery)
    /\ \A r \in Publishers :
          WF_siteVars(which = "publication" /\ (P!Progress(r) \/ P!PublisherFails(r)))

PublisherResolves == which = "publication" => P!PublisherResolves
==============================================================================
