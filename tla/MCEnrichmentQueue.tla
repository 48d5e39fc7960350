------------------------- MODULE MCEnrichmentQueue -------------------------
(***************************************************************************)
(* EnrichmentQueue for TLC, twice: the queue and its artifacts over time,  *)
(* with two items whose records are alike and share a result, and one      *)
(* worker; and the proofs by poster of two workers at one time, with two   *)
(* records that show the same poster of two movies.  A behaviour is one of *)
(* the two.                                                                *)
(***************************************************************************)
EXTENDS EnrichmentQueue, TLC

CONSTANTS i1, i2, c1, c2, shared

VARIABLE which

MCFirstItems == {[i \in Items |-> c1], [i \in Items |-> IF i = i1 THEN c1 ELSE c2]}
MCPosterOf == [c \in Contents |-> shared]
MCOfficial == [m \in Movies |-> {shared}]
MCDelays == {1}

MCInit ==
    /\ Init
    /\ which = IF source.items[i1] = source.items[i2] THEN "queue" ELSE "posters"

\* One worker; matches of one movie, and none by poster.
QueueStep ==
    /\ Cardinality(running') + Cardinality(results') <= 1
    /\ \A r \in results' : r.status # "matched_poster"
    /\ Cardinality((known' \cup {state'.cache[c].movie : c \in Contents}) \ {NoMovie}) <= 1

\* No time passes, nothing is deployed, and what is to be retried is not recorded.
PosterStep ==
    /\ now' = now /\ policy' = policy
    /\ \A i \in Items : state'.items[i].state # "retry"

MCNext ==
    /\ Next /\ UNCHANGED which
    /\ IF which = "queue" THEN QueueStep ELSE PosterStep

MCSpec == MCInit /\ [][MCNext]_<<which, vars>>

Symmetry == Permutations(Items) \cup Permutations(Movies)
=============================================================================
