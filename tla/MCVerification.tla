--------------------------- MODULE MCVerification ---------------------------
(***************************************************************************)
(* VerificationPass for TLC: two records of one lookup, or of two lookups  *)
(* that show the same poster, of two movies; the seed cache proves         *)
(* nothing, or one of the lookups.                                         *)
(***************************************************************************)
EXTENDS VerificationPass, TLC

CONSTANTS shared

MCKeyMaps == [Items -> Keys]
MCPosterOf == [k \in Keys |-> shared]
MCOfficial == [m \in Movies |-> {shared}]
Proof(k, m) == [x \in Keys |-> IF x = k THEN [status |-> "matched_poster", movie |-> m] ELSE NotCached]
MCSeedCaches == {[x \in Keys |-> NotCached]} \cup {Proof(k, m) : k \in Keys, m \in Movies}

Symmetry ==
    Permutations(Items) \cup Permutations(Keys) \cup Permutations(Movies)
=============================================================================
