---------------------------- MODULE LabDecision ----------------------------
(***************************************************************************)
(* One row of the Matching Lab: what the retrieval finds for it            *)
(* (matching_lab/retrieval.py), the decision the pipeline makes of it      *)
(* (_decision of matching_lab/pipeline.py), the advisory answer that may   *)
(* demote it (attach_advisory of matching_lab/ai.py), and the validator    *)
(* that every later step of the lab goes through, which decides again from *)
(* the recorded evidence alone (_validate_proposal_decision of             *)
(* matching_lab/validation.py) and refuses the whole bundle for one row.   *)
(*                                                                         *)
(* Names, hashes and the programmes themselves are left out; a candidate   *)
(* is what found it, whether protected semantics contradict it, its score  *)
(* and the result of its programme gate.                                   *)
(***************************************************************************)
EXTENDS Integers, FiniteSets, Sequences, FiniteSetsExt, SequencesExt

CONSTANTS
    Scores,         \* scores that are told apart
    Minimum,        \* minimum_candidate_score_ppm
    Strong,         \* strong_proposal_score_ppm
    Margin,         \* strong_margin_ppm
    MaxCandidates   \* retained_candidates

\* The policy's own checks (MatchingPolicy.__post_init__).
ASSUME PolicyAssumption ==
    /\ Scores \subseteq Nat /\ {Minimum, Strong, Margin} \subseteq Nat
    /\ Minimum <= Strong
    /\ MaxCandidates \in 2 .. 8

VARIABLES
    retrieved,  \* the row and the evidence retrieved for it
    proposal    \* the proposal made of it, NoProposal before

labVars == <<retrieved, proposal>>

NoProposal == [state |-> "none", reasons |-> {}, selected |-> 0, ai |-> "unasked"]

---------------------------------------------------------------------------
(* What the retrieval finds.                                                *)

Fuzzy == "TOKEN_RETRIEVAL"
ALIASES == {"HUMAN_ALIAS_EXACT", "CURATED_ALIAS_EXACT", "CURATED_STORAGE_ALIAS_EXACT"}
STORAGE == "CURATED_STORAGE_ALIAS_EXACT"
REPOSITORY == "REPOSITORY_CURATED_ALIAS_EXACT"
FROZEN == "FROZEN_RESOLVER_EXACT"
EXACT_TIER_METHODS == ALIASES \cup {REPOSITORY, FROZEN, "STRICT_EXACT", "RELAXED_EXACT"}

\* A target outside the row's route comes from a storage alias and from nothing else;
\* in the route, the frozen resolver and the approved names add to what the names say.
MethodSets ==
    {{STORAGE}} \cup
    {name \cup frozen \cup human \cup curated :
        name \in {{"STRICT_EXACT"}, {"RELAXED_EXACT"}, {Fuzzy}},
        frozen \in {{}, {FROZEN}},
        human \in {{}, {"HUMAN_ALIAS_EXACT"}},
        curated \in {{}, {"CURATED_ALIAS_EXACT"}, {"CURATED_ALIAS_EXACT", REPOSITORY}}}

\* Of a contradicted target only its methods are read, and only a passing or failing
\* gate is told apart: every retained target is checked.
Candidates ==
    {c \in [methods : MethodSets, conflict : BOOLEAN, score : Scores, programme : {"PASS", "FAIL"}] :
        c.conflict => c.score = Min(Scores) /\ c.programme = "FAIL"}

Tier(c) ==
    IF c.methods \cap ALIASES # {} THEN 6
    ELSE IF FROZEN \in c.methods THEN 5
    ELSE IF "STRICT_EXACT" \in c.methods THEN 4
    ELSE IF "RELAXED_EXACT" \in c.methods THEN 3 ELSE 1

\* Rank order: what contradicts the row comes last; equals are in the order of their IDs.
Precedes(a, b) ==
    \/ ~a.conflict /\ b.conflict
    \/ a.conflict = b.conflict
       /\ (Tier(a) > Tier(b) \/ (Tier(a) = Tier(b) /\ a.score > b.score))

\* The resolver answers with one target and an approved or a human name has one, and
\* only a row of one explicit route asks for the resolver, or for the repository's names.
Retrievable(list, route) ==
    /\ \A i, j \in DOMAIN list :
          i < j => /\ ~Precedes(list[j], list[i])
                   /\ \A m \in {FROZEN, "HUMAN_ALIAS_EXACT"} : m \notin list[i].methods \cap list[j].methods
                   /\ \/ list[i].methods \cap {"CURATED_ALIAS_EXACT", STORAGE} = {}
                      \/ list[j].methods \cap {"CURATED_ALIAS_EXACT", STORAGE} = {}
    /\ route # "explicit" => \A i \in DOMAIN list : list[i].methods \cap {FROZEN, STORAGE, REPOSITORY} = {}

---------------------------------------------------------------------------
(* What both the pipeline and the validator read in the evidence.           *)

\* In rank order, what contradicts the row comes behind what does not.
Compatible(r) ==
    SubSeq(r.candidates, 1, Cardinality({i \in DOMAIN r.candidates : ~r.candidates[i].conflict}))
Top(r) == Compatible(r)[1]
TopHas(r, m) == Compatible(r) # <<>> /\ m \in Top(r).methods
Score(r) == IF Compatible(r) = <<>> THEN 0 ELSE Top(r).score
Separation(r) ==
    IF Len(Compatible(r)) < 2 THEN Score(r) ELSE Max({0, Score(r) - Compatible(r)[2].score})

OneExplicitRoute(r) == r.route = "explicit"
TargetRouteAgrees(r) == OneExplicitRoute(r) /\ ~TopHas(r, STORAGE)
Single(r) == Len(Compatible(r)) = 1

\* Every compatible target with exact evidence is a family of its own.
ExactFamilies(r) == {i \in DOMAIN Compatible(r) : Compatible(r)[i].methods \cap EXACT_TIER_METHODS # {}}
ExactConflict(r, m) == \E i \in DOMAIN r.candidates : r.candidates[i].conflict /\ m \in r.candidates[i].methods
OneCurated(r) ==
    {i \in DOMAIN r.candidates : "CURATED_ALIAS_EXACT" \in r.candidates[i].methods} = {1}
CompetingFrozen(r) ==
    \E i \in DOMAIN Compatible(r) :
        i # 1 /\ FROZEN \in Compatible(r)[i].methods /\ Compatible(r)[i].programme # "FAIL"

---------------------------------------------------------------------------
(* The decision (_decision).                                                *)

Codes(condition, codes) == IF condition THEN codes ELSE {}

RepositoryReady(r) ==
    /\ TopHas(r, REPOSITORY) /\ TopHas(r, "CURATED_ALIAS_EXACT") /\ OneCurated(r)
    /\ ~CompetingFrozen(r) /\ TargetRouteAgrees(r) /\ r.alerts
    /\ Top(r).programme = "PASS"
    /\ Score(r) < Minimum \/ Separation(r) < Margin

\* Mutant of RouteReady: the resolver's target never takes another lane.
RouteWithoutFrozen(r) == ~TopHas(r, FROZEN)
RouteReady(r) == ~TopHas(r, FROZEN) \/ TargetRouteAgrees(r)
Separated(r) == Separation(r) >= Margin /\ OneExplicitRoute(r) /\ r.alerts
StrongMatch(r) == Score(r) >= Strong /\ Separated(r)

TrustedAlias(r) == Top(r).methods \cap ALIASES # {} /\ Separated(r) /\ RouteReady(r)
ConservativeStrict(r) ==
    StrongMatch(r) /\ r.risk /\ TopHas(r, "STRICT_EXACT") /\ Single(r) /\ RouteReady(r)
StandardStrong(r) == StrongMatch(r) /\ ~r.risk /\ RouteReady(r)
Independent(r) == TrustedAlias(r) \/ ConservativeStrict(r) \/ StandardStrong(r)

FrozenReady(r) ==
    /\ r.alerts /\ TargetRouteAgrees(r)
    /\ \/ Single(r)
       \/ /\ ExactFamilies(r) = {1} /\ Separation(r) >= Margin
          /\ ~r.risk /\ ~r.prefilled

MarginCodes(r) ==
    IF RepositoryReady(r) THEN {}
    ELSE IF TopHas(r, FROZEN)
    THEN IF Independent(r) THEN {"MARGIN_GATE_PASSED"}
         ELSE IF Single(r) THEN {}
         ELSE Codes(ExactFamilies(r) # {1}, {"AMBIGUOUS_CANDIDATES"})
              \cup {IF Separation(r) < Margin THEN "LOW_MARGIN" ELSE "MARGIN_GATE_PASSED"}
    ELSE IF ~Single(r) /\ Separation(r) < Margin THEN {"AMBIGUOUS_CANDIDATES", "LOW_MARGIN"}
    ELSE {"MARGIN_GATE_PASSED"}

\* Reasons of every proposal that selects a target.
SelectedCodes(r) ==
    {"PROVIDER_REVALIDATION_REQUIRED", "CATALOG_CORROBORATED", "PROTECTED_SEMANTICS_COMPATIBLE"}
    \cup Codes(~r.alerts, {"ALERT_SNAPSHOT_MISSING"})
    \cup {IF OneExplicitRoute(r) THEN "MARKET_ROUTE_EXPLICIT" ELSE "MARKET_UNKNOWN"}
    \cup Codes(TopHas(r, FROZEN),
               {"FROZEN_RESOLVER_EXACT_TOP",
                IF TargetRouteAgrees(r) THEN "TARGET_ROUTE_AGREES" ELSE "TARGET_ROUTE_MISMATCH"})
    \cup MarginCodes(r)

Shadow(code, codes) == [state |-> "AUTO_ELIGIBLE", codes |-> {code, "SHADOW_ONLY_NO_WRITE_AUTHORITY"} \cup codes]

\* The lane of a selected target whose programmes passed.
Lane(r) ==
    IF RepositoryReady(r)
    THEN Shadow("LANE_REPOSITORY_CURATED_ALIAS",
                {"REPOSITORY_CURATED_ALIAS_ALLOWLISTED"}
                \cup Codes(Score(r) < Minimum, {"REPOSITORY_CURATED_ALIAS_SCORE_OVERRIDE"})
                \cup Codes(Separation(r) < Margin, {"REPOSITORY_CURATED_ALIAS_MARGIN_OVERRIDE"}))
    ELSE IF TrustedAlias(r)
    THEN Shadow("LANE_TRUSTED_ALIAS",
                (IF TopHas(r, STORAGE) THEN {STORAGE, "STATIC_STORAGE_ROUTE_ALLOWLISTED"}
                 ELSE {IF TopHas(r, "CURATED_ALIAS_EXACT") THEN "CURATED_ALIAS_EXACT" ELSE "LEARNED_ALIAS_EXACT"})
                \cup Codes(Score(r) < Strong, {"TRUSTED_ALIAS_SCORE_OVERRIDE"}))
    ELSE IF ConservativeStrict(r)
    THEN Shadow("LANE_CONSERVATIVE_STRICT_EXACT", {"STRICT_EXACT_UNIQUE_CANDIDATE"})
    ELSE IF StandardStrong(r)
    THEN Shadow("LANE_STANDARD_STRONG", {"STANDARD_LANE_THRESHOLD_PASSED"})
    ELSE IF TopHas(r, FROZEN) /\ FrozenReady(r)
    THEN Shadow("LANE_FROZEN_RESOLVER_EXACT", Codes(Score(r) < Strong, {"FROZEN_RESOLVER_EXACT_SCORE_OVERRIDE"}))
    ELSE [state |-> "NEEDS_REVIEW",
          codes |-> {"LANE_HUMAN_REVIEW"}
                    \cup (IF TopHas(r, FROZEN) THEN {"FROZEN_RESOLVER_EXACT_GATES_FAILED"}
                          ELSE Codes(StrongMatch(r), {"MULTI_SIGNAL_STRONG_PROPOSAL"}))]

Decision(r) ==
    LET evidence == Codes(r.prefilled, {"PREFILLED_ID_UNTRUSTED_EVIDENCE"})
                    \cup {IF r.risk THEN "COHORT_CONSERVATIVE" ELSE "COHORT_STANDARD"}
        Refused(state, codes) == [NoProposal EXCEPT !.state = state, !.reasons = codes]
        Contradicted(codes) ==
            Refused("CONFLICT", evidence \cup codes \cup {"LANE_CONFLICT", "PROTECTED_SEMANTICS_CONFLICT"})
        Proposed(state, codes) ==
            [state |-> state, reasons |-> evidence \cup SelectedCodes(r) \cup codes, selected |-> 1, ai |-> "unasked"]
    IN  IF r.excluded = "blocked" THEN Refused("BLOCKED_ALERT", {"OPEN_SYNC_ALERT"})
        ELSE IF r.excluded = "ineligible" THEN Refused("CONFLICT", {"ROW_NOT_DISABLED_REVIEW"})
        ELSE IF r.excluded = "unsupported" THEN Refused("ABSTAIN", evidence \cup {"LANE_ABSTAIN"})
        ELSE IF ExactConflict(r, FROZEN) THEN Contradicted({"FROZEN_RESOLVER_EXACT_SEMANTIC_CONFLICT"})
        ELSE IF ExactConflict(r, STORAGE) THEN Contradicted({"CURATED_STORAGE_ALIAS_SEMANTIC_CONFLICT"})
        ELSE IF r.candidates = <<>> THEN Refused("ABSTAIN", evidence \cup {"LANE_ABSTAIN"})
        ELSE IF Compatible(r) = <<>> THEN Contradicted({})
        ELSE IF /\ Score(r) < Minimum
                /\ ~TopHas(r, FROZEN) /\ ~TopHas(r, STORAGE) /\ ~RepositoryReady(r)
        THEN Refused("ABSTAIN", evidence \cup {"LANE_ABSTAIN"})
        ELSE IF Top(r).programme = "FAIL"
        THEN Proposed("PENDING_PROGRAMME", {"PROGRAMME_GATE_FAILED", "LANE_PROGRAMME_VERIFICATION"})
        ELSE Proposed(Lane(r).state, Lane(r).codes \cup {"PROGRAMME_GATE_PASSED"})

---------------------------------------------------------------------------
(* The advisory answer (attach_advisory): the AI is asked about a shortlist, *)
(* and an answer that does not support the selection takes the lane back.    *)

\* Mutant of LaneCodes: the codes of the storage alias stay.
LaneCodesButStorage ==
    {"LANE_CONSERVATIVE_STRICT_EXACT", "LANE_FROZEN_RESOLVER_EXACT", "LANE_REPOSITORY_CURATED_ALIAS",
     "LANE_STANDARD_STRONG", "LANE_TRUSTED_ALIAS", "FROZEN_RESOLVER_EXACT_SCORE_OVERRIDE",
     "REPOSITORY_CURATED_ALIAS_ALLOWLISTED", "REPOSITORY_CURATED_ALIAS_MARGIN_OVERRIDE",
     "REPOSITORY_CURATED_ALIAS_SCORE_OVERRIDE"}

LaneCodes ==
    {"LANE_CONSERVATIVE_STRICT_EXACT", "LANE_FROZEN_RESOLVER_EXACT", "LANE_REPOSITORY_CURATED_ALIAS",
     "LANE_STANDARD_STRONG", "LANE_TRUSTED_ALIAS", STORAGE, "STATIC_STORAGE_ROUTE_ALLOWLISTED",
     "FROZEN_RESOLVER_EXACT_SCORE_OVERRIDE", "REPOSITORY_CURATED_ALIAS_ALLOWLISTED",
     "REPOSITORY_CURATED_ALIAS_MARGIN_OVERRIDE", "REPOSITORY_CURATED_ALIAS_SCORE_OVERRIDE"}

Advised(p, answer) ==
    IF answer # "AI_SUPPORTS_LOCAL" /\ p.state = "AUTO_ELIGIBLE"
    THEN [p EXCEPT !.state = "NEEDS_REVIEW", !.ai = answer,
                   !.reasons = (@ \ LaneCodes) \cup {"LANE_HUMAN_REVIEW", answer}]
    ELSE [p EXCEPT !.ai = answer, !.reasons = @ \cup {answer}]

---------------------------------------------------------------------------
(* The validator (_validate_proposal_decision), check by check.             *)

SelectionValid(r, p) ==
    /\ p.selected # 0 => Compatible(r) # <<>> /\ p.selected = 1
    /\ (p.selected # 0) <=> (p.state \in {"AUTO_ELIGIBLE", "NEEDS_REVIEW", "PENDING_PROGRAMME"})
    /\ p.state = "BLOCKED_ALERT" => p.reasons = {"OPEN_SYNC_ALERT"} /\ r.candidates = <<>>

\* A contradicted exact target has to be the reason of a conflict.
ConflictsValid(r, p) ==
    \A exact \in {<<FROZEN, "FROZEN_RESOLVER_EXACT_SEMANTIC_CONFLICT">>,
                  <<STORAGE, "CURATED_STORAGE_ALIAS_SEMANTIC_CONFLICT">>} :
        IF ExactConflict(r, exact[1])
        THEN /\ p.state = "CONFLICT"
             /\ {exact[2], "LANE_CONFLICT", "PROTECTED_SEMANTICS_CONFLICT"} \subseteq p.reasons
        ELSE exact[2] \notin p.reasons

FrozenCodes ==
    {"FROZEN_RESOLVER_EXACT_GATES_FAILED", "FROZEN_RESOLVER_EXACT_SCORE_OVERRIDE", "FROZEN_RESOLVER_EXACT_TOP",
     "LANE_FROZEN_RESOLVER_EXACT", "TARGET_ROUTE_AGREES", "TARGET_ROUTE_MISMATCH"}

SelectedHas(r, p, m) == p.selected = 1 /\ TopHas(r, m)

FrozenValid(r, p) ==
    /\ IF SelectedHas(r, p, FROZEN)
       THEN /\ "FROZEN_RESOLVER_EXACT_TOP" \in p.reasons
            /\ Cardinality({"TARGET_ROUTE_AGREES", "TARGET_ROUTE_MISMATCH"} \cap p.reasons) = 1
            /\ "TARGET_ROUTE_AGREES" \in p.reasons =>
                  TargetRouteAgrees(r) /\ "MARKET_ROUTE_EXPLICIT" \in p.reasons /\ "MARKET_UNKNOWN" \notin p.reasons
       ELSE p.reasons \cap FrozenCodes = {}
    /\ {"FROZEN_RESOLVER_EXACT_SCORE_OVERRIDE", "LANE_FROZEN_RESOLVER_EXACT"} \cap p.reasons # {} =>
          p.state = "AUTO_ELIGIBLE"
    /\ "FROZEN_RESOLVER_EXACT_GATES_FAILED" \in p.reasons => p.state = "NEEDS_REVIEW"

StorageCodes == {STORAGE, "STATIC_STORAGE_ROUTE_ALLOWLISTED"}
RepositoryCodes ==
    {"LANE_REPOSITORY_CURATED_ALIAS", "REPOSITORY_CURATED_ALIAS_ALLOWLISTED",
     "REPOSITORY_CURATED_ALIAS_MARGIN_OVERRIDE", "REPOSITORY_CURATED_ALIAS_SCORE_OVERRIDE"}

AliasesValid(r, p) ==
    /\ p.reasons \cap StorageCodes # {} => p.state = "AUTO_ELIGIBLE" /\ SelectedHas(r, p, STORAGE)
    /\ p.reasons \cap RepositoryCodes # {} => p.state = "AUTO_ELIGIBLE" /\ SelectedHas(r, p, REPOSITORY)
    /\ LET found == {i \in DOMAIN r.candidates : REPOSITORY \in r.candidates[i].methods}
       IN  \A i \in found : /\ found = {i} /\ OneExplicitRoute(r)
                            /\ "CURATED_ALIAS_EXACT" \in r.candidates[i].methods
                            /\ STORAGE \notin r.candidates[i].methods

CohortValid(r, p) ==
    p.selected = 1 =>
        p.reasons \cap {"COHORT_STANDARD", "COHORT_CONSERVATIVE"}
            = {IF r.risk THEN "COHORT_CONSERVATIVE" ELSE "COHORT_STANDARD"}

\* The evidence of a selection that passed its gates, as far as all lanes share it.
Corroborated(p) ==
    {"CATALOG_CORROBORATED", "PROTECTED_SEMANTICS_COMPATIBLE", "PROVIDER_REVALIDATION_REQUIRED"} \subseteq p.reasons

AutoLane(r, p, code) ==
    LET methods == Top(r).methods IN
    CASE code = "LANE_TRUSTED_ALIAS" -> methods \cap ALIASES # {}
      [] code = "LANE_FROZEN_RESOLVER_EXACT" -> FROZEN \in methods
      [] code = "LANE_REPOSITORY_CURATED_ALIAS" -> REPOSITORY \in methods
      [] code = "LANE_STANDARD_STRONG" ->
            methods \cap ALIASES = {} /\ ~r.risk /\ "STANDARD_LANE_THRESHOLD_PASSED" \in p.reasons
      [] code = "LANE_CONSERVATIVE_STRICT_EXACT" ->
            /\ methods \cap ALIASES = {} /\ r.risk /\ "STRICT_EXACT" \in methods /\ Single(r)
            /\ "STRICT_EXACT_UNIQUE_CANDIDATE" \in p.reasons

AutoLanes ==
    {"LANE_TRUSTED_ALIAS", "LANE_FROZEN_RESOLVER_EXACT", "LANE_REPOSITORY_CURATED_ALIAS",
     "LANE_STANDARD_STRONG", "LANE_CONSERVATIVE_STRICT_EXACT"}

\* The checks of a selection that is automatic in one lane.
AutoValidIn(r, p, code) ==
    LET trusted == code = "LANE_TRUSTED_ALIAS"
        frozen == code = "LANE_FROZEN_RESOLVER_EXACT"
        repository == code = "LANE_REPOSITORY_CURATED_ALIAS"
        expanded == /\ ~Single(r) /\ ExactFamilies(r) = {1} /\ Separation(r) >= Margin
                    /\ ~r.risk /\ "PREFILLED_ID_UNTRUSTED_EVIDENCE" \notin p.reasons
        alias == IF TopHas(r, STORAGE) THEN STORAGE
                 ELSE IF TopHas(r, "CURATED_ALIAS_EXACT") THEN "CURATED_ALIAS_EXACT" ELSE "LEARNED_ALIAS_EXACT"
    IN  /\ p.reasons \cap AutoLanes = {code} /\ AutoLane(r, p, code)
        /\ Top(r).programme = "PASS" /\ OneExplicitRoute(r) /\ Corroborated(p)
        /\ trusted \/ frozen \/ repository \/ Score(r) >= Strong
        /\ frozen \/ repository \/ (Separation(r) >= Margin /\ "MARGIN_GATE_PASSED" \in p.reasons)
        /\ {"PROGRAMME_GATE_PASSED", "MARKET_ROUTE_EXPLICIT", "SHADOW_ONLY_NO_WRITE_AUTHORITY"} \subseteq p.reasons
        /\ {"ALERT_SNAPSHOT_MISSING", "PROGRAMME_GATE_FAILED", "MARKET_UNKNOWN", "LOW_MARGIN",
            "AMBIGUOUS_CANDIDATES", "LANE_HUMAN_REVIEW", "MULTI_SIGNAL_STRONG_PROPOSAL"} \cap p.reasons = {}
        /\ repository =>
              /\ OneCurated(r) /\ ~CompetingFrozen(r) /\ TargetRouteAgrees(r)
              /\ Score(r) < Minimum \/ Separation(r) < Margin
              /\ "MARGIN_GATE_PASSED" \notin p.reasons
        /\ p.reasons \cap RepositoryCodes =
              Codes(repository, {"LANE_REPOSITORY_CURATED_ALIAS", "REPOSITORY_CURATED_ALIAS_ALLOWLISTED"}
                    \cup Codes(Score(r) < Minimum, {"REPOSITORY_CURATED_ALIAS_SCORE_OVERRIDE"})
                    \cup Codes(Separation(r) < Margin, {"REPOSITORY_CURATED_ALIAS_MARGIN_OVERRIDE"}))
        /\ TopHas(r, FROZEN) => "TARGET_ROUTE_MISMATCH" \notin p.reasons
        /\ frozen => /\ "TARGET_ROUTE_AGREES" \in p.reasons
                     /\ Single(r) \/ expanded
                     /\ expanded <=> ("MARGIN_GATE_PASSED" \in p.reasons)
        /\ p.reasons \cap {"CURATED_ALIAS_EXACT", STORAGE, "LEARNED_ALIAS_EXACT"} = Codes(trusted, {alias})
        /\ TopHas(r, STORAGE) <=> "STATIC_STORAGE_ROUTE_ALLOWLISTED" \in p.reasons
        /\ "TRUSTED_ALIAS_SCORE_OVERRIDE" \in p.reasons <=> trusted /\ Score(r) < Strong
        /\ "FROZEN_RESOLVER_EXACT_SCORE_OVERRIDE" \in p.reasons <=> frozen /\ Score(r) < Strong

AutoValid(r, p) == \E code \in AutoLanes : AutoValidIn(r, p, code)

ReviewValid(r, p) ==
    /\ Top(r).programme = "PASS" /\ Corroborated(p)
    /\ Score(r) >= Minimum \/ \E m \in {FROZEN, STORAGE, REPOSITORY} : TopHas(r, m)
    /\ {"LANE_HUMAN_REVIEW", "PROGRAMME_GATE_PASSED"} \subseteq p.reasons
    /\ "PROGRAMME_GATE_FAILED" \notin p.reasons

\* A frozen target under review failed a gate of its own, unless the AI demoted it.
FrozenReviewValid(r, p) ==
    LET ambiguous == ~Single(r) /\ ExactFamilies(r) # {1}
        close == ~Single(r) /\ Separation(r) < Margin
        failed == \/ {"ALERT_SNAPSHOT_MISSING", "MARKET_UNKNOWN", "TARGET_ROUTE_MISMATCH"} \cap p.reasons # {}
                  \/ ambiguous \/ close
                  \/ ~Single(r) /\ (r.risk \/ "PREFILLED_ID_UNTRUSTED_EVIDENCE" \in p.reasons)
        gates == "FROZEN_RESOLVER_EXACT_GATES_FAILED" \in p.reasons
    IN  IF p.ai \in {"unasked", "AI_SUPPORTS_LOCAL"}
        THEN /\ failed /\ gates
             /\ ("AMBIGUOUS_CANDIDATES" \in p.reasons) <=> ambiguous
             /\ ("LOW_MARGIN" \in p.reasons) <=> close
             /\ ("MARGIN_GATE_PASSED" \in p.reasons) <=> (~Single(r) /\ ~close)
        ELSE gates => failed

PendingValid(r, p) ==
    /\ Top(r).programme # "PASS" /\ Corroborated(p)
    /\ Score(r) >= Minimum \/ TopHas(r, FROZEN) \/ TopHas(r, STORAGE)
    /\ {"LANE_PROGRAMME_VERIFICATION", "PROGRAMME_GATE_FAILED"} \subseteq p.reasons
    /\ "PROGRAMME_GATE_PASSED" \notin p.reasons

AdvisoryValid(r, p) ==
    /\ p.reasons \cap {"AI_SUPPORTS_LOCAL", "AI_DISAGREES"} = Codes(p.ai # "unasked", {p.ai})
    /\ p.ai # "unasked" => Len(Compatible(r)) \in 2 .. 8
    /\ p.ai = "AI_DISAGREES" => p.state # "AUTO_ELIGIBLE"

Validates(r, p) ==
    /\ SelectionValid(r, p) /\ ConflictsValid(r, p) /\ FrozenValid(r, p) /\ AliasesValid(r, p)
    /\ CohortValid(r, p) /\ AdvisoryValid(r, p)
    /\ p.state = "AUTO_ELIGIBLE" => AutoValid(r, p)
    /\ p.state = "NEEDS_REVIEW" => ReviewValid(r, p) /\ (TopHas(r, FROZEN) => FrozenReviewValid(r, p))
    /\ p.state = "PENDING_PROGRAMME" => PendingValid(r, p)

---------------------------------------------------------------------------
(* A run of the lab over one row.                                           *)

Lists == UNION {[1 .. n -> Candidates] : n \in 0 .. MaxCandidates}

\* A row of an open alert, one that is no disabled review row and one of a class the
\* matcher does not serve are not looked up.
LabInit ==
    /\ proposal = NoProposal
    /\ \E route \in {"explicit", "implicit", "two"} :
          \E list \in {l \in Lists : Retrievable(l, route)} :
             \E snapshot, risk, prefilled \in BOOLEAN, excluded \in {"no", "blocked", "ineligible", "unsupported"} :
                /\ excluded # "no" => list = <<>>
                /\ retrieved = [candidates |-> list, route |-> route, alerts |-> snapshot, risk |-> risk,
                          prefilled |-> prefilled, excluded |-> excluded]

Decide ==
    /\ proposal = NoProposal
    /\ proposal' = Decision(retrieved)
    /\ UNCHANGED retrieved

\* The other answers that do not support the selection are treated alike.
Advise ==
    /\ proposal.state \in {"AUTO_ELIGIBLE", "NEEDS_REVIEW"}
    /\ proposal.ai = "unasked"
    /\ Len(Compatible(retrieved)) \in 2 .. 8
    /\ \E answer \in {"AI_SUPPORTS_LOCAL", "AI_DISAGREES"} : proposal' = Advised(proposal, answer)
    /\ UNCHANGED retrieved

LabNext == Decide \/ Advise

LabSpec == LabInit /\ [][LabNext]_labVars

---------------------------------------------------------------------------
\* The validator derives every lane again from the evidence and refuses the bundle of
\* thousands of rows for one that it would not have decided so: no evidence may lead the
\* pipeline, or the AI's answer after it, to a proposal the validator refuses ("It
\* accepts only the canonical bundle currently emitted by matching_lab.pipeline",
\* validation.py).  Rows whose in-route exact target and whose storage alias are both
\* contradicted are left out: there the pipeline stops at the first reason, and the
\* validator asks for both.
TwoConflicts(r) == ExactConflict(r, FROZEN) /\ ExactConflict(r, STORAGE)
DecisionsValidate == proposal # NoProposal /\ ~TwoConflicts(retrieved) => Validates(retrieved, proposal)

\* "Supplemental exact evidence cannot downgrade an independently safe lane": a target
\* the pipeline would call automatic without the frozen resolver's answer is automatic
\* with it (_decision, where the resolver's target takes other branches of the margin
\* and lane gates).
WithoutFrozen(r) == [r EXCEPT !.candidates[1].methods = @ \ {FROZEN}]
ExactEvidenceNeverDowngrades ==
    /\ proposal # NoProposal /\ proposal.ai = "unasked"
    /\ TopHas(retrieved, FROZEN) /\ Retrievable(WithoutFrozen(retrieved).candidates, retrieved.route)
    /\ Decision(WithoutFrozen(retrieved)).state = "AUTO_ELIGIBLE"
    => proposal.state = "AUTO_ELIGIBLE"
=============================================================================
