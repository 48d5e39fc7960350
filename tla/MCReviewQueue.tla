---------------------------- MODULE MCReviewQueue ----------------------------
(***************************************************************************)
(* ReviewQueue for TLC, by itself: two streams, of server 2 or of two      *)
(* servers.                                                                *)
(***************************************************************************)
EXTENDS ReviewQueue

MCLayouts == {[s \in Streams |-> 2], [s \in Streams |-> IF s = 1 THEN 1 ELSE 2]}
=============================================================================
