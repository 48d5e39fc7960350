--------------------------- MODULE PublishedSite ---------------------------
(***************************************************************************)
(* What independent publication promises a reader of the deployed site     *)
(* (docs/INDEPENDENT_PUBLICATION.md): the site is one atomic pair of a     *)
(* live guide and a VOD catalogue, each taken from a validated build, the  *)
(* app index refers to the guide beside it, and no component ever goes     *)
(* back to an older build.  A build is named by its upload time; 0 is the  *)
(* site as it was before the first split publication.                      *)
(***************************************************************************)
EXTENDS Naturals

VARIABLES
    validated,  \* validated[c]: the builds of component c whose job succeeded
    public      \* the deployed pair and the build its guide references name

Comp == {"live", "vod"}

Init ==
    /\ validated = [c \in Comp |-> {}]
    /\ public = [comp |-> [c \in Comp |-> 0], refs |-> 0]

\* A build job of one component succeeds.
Validate ==
    /\ \E c \in Comp : \E v \in validated'[c] :
          validated' = [validated EXCEPT ![c] = @ \cup {v}]
    /\ UNCHANGED public

\* One deployment replaces the pair; no component is older afterwards.
Publish ==
    /\ \A c \in Comp :
          /\ public'.comp[c] \in validated[c] \cup {public.comp[c]}
          /\ public'.comp[c] >= public.comp[c]
    /\ public' = [comp |-> [c \in Comp |-> public'.comp[c]],
                  refs |-> public'.comp["live"]]
    /\ UNCHANGED validated

Next == Validate \/ Publish

vars == <<validated, public>>

Spec == Init /\ [][Next]_vars
=============================================================================
