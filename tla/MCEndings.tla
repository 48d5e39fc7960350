------------------------------ MODULE MCEndings ------------------------------
(***************************************************************************)
(* A verification batch and its chain, for TLC: the workers of a batch at  *)
(* their shared request gate (RateLimiter), and the batches of a pass that *)
(* dispatch one another until they come to an end (VerificationPass,       *)
(* ChainSpec), which take an answer from a lookup as it comes.  A          *)
(* behaviour is one of the two; the other stays as it starts.              *)
(***************************************************************************)
EXTENDS RateLimiter, TLC

CONSTANTS i1, i2, k1, k2, m1, m2, shared, NoPoster, NoMovie, NoCode, NoState

VARIABLES
    which,
    keyOf, seed, code, store, disk, interruptions, phase, using, warm, known,
    work, submitted, running, results, fatal

passVars == <<keyOf, seed, code, store, disk, interruptions, phase, using, warm,
              known, work, submitted, running, results, fatal>>
MCPauses == {0, 1, 3}

\* Two records of two lookups that show one poster; the seed proves the first.
NotCached == [status |-> "none", movie |-> NoMovie]
V == INSTANCE VerificationPass WITH
        Items <- {i1, i2}, Keys <- {k1, k2}, Movies <- {m1, m2},
        KeyMaps <- {(i1 :> k1) @@ (i2 :> k2)},
        SeedCaches <- {(k1 :> [status |-> "matched_poster", movie |-> m1]) @@ (k2 :> NotCached)},
        PosterOf <- [k \in {k1, k2} |-> shared], Official <- [m \in {m1, m2} |-> {shared}],
        MaxAttempts <- 2, BatchRecords <- 1, Workers <- 1, MaxCode <- 0, MaxInterruptions <- 1

MCInit == which \in {"requests", "chain"} /\ Init /\ V!Init

MCNext ==
    \/ which = "requests" /\ Next /\ UNCHANGED <<which, passVars>>
    \/ which = "chain" /\ V!Chain /\ UNCHANGED <<which, vars>>

\* The fairness of the chain (VerificationPass), of its own behaviours.
MCSpec ==
    /\ MCInit /\ [][MCNext]_<<which, vars, passVars>>
    /\ WF_passVars(which = "chain" /\ V!Batch)
    /\ \A i \in {i1, i2} : WF_passVars(which = "chain" /\ V!FallDue(i))

ChainEnds == V!ChainEnds
=============================================================================
