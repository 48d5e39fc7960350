--------------------------- MODULE MCPublication ---------------------------
(***************************************************************************)
(* Instances of Publication for TLC: runs of main.yml and of vod.yml.      *)
(***************************************************************************)
EXTENDS Publication, TLC

CONSTANTS l1, l2, v1, v2

MCRuns == {l1, l2, v1}
MCRunComp == (l1 :> "live") @@ (l2 :> "live") @@ (v1 :> "vod")
MCAllRuns == {l1, l2, v1, v2}
MCAllRunComp == MCRunComp @@ (v2 :> "vod")

\* The two live runs are interchangeable.
Symmetry == Permutations({l1, l2})
=============================================================================
