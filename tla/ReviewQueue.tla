----------------------------- MODULE ReviewQueue -----------------------------
(***************************************************************************)
(* The REVIEW queue of the Mappings sheet over many daily runs: which rows *)
(* the synchronization takes up again (scripts/sync_channel_inventory.py,  *)
(* _run_sync_review_mode), what the matcher, the check of the provider's   *)
(* guide and the local fallback decide about them                          *)
(* (scripts/auto_match_inventory.py, src/skytv_epg_auto_match_v1.py), and  *)
(* what a row keeps in its target, reason and notes cells so that a later  *)
(* run can tell its own work from an editor's.                             *)
(*                                                                         *)
(* A run is one step here; SheetSync has the steps inside a run and the    *)
(* edits that fall between them.  A run that fails leaves a prefix of what *)
(* it was to write.                                                        *)
(***************************************************************************)
EXTENDS Integers, FiniteSets

CONSTANTS
    Streams,      \* streams of the lineup, numbered in the order of their IDs
    Layouts,      \* functions from streams to their servers, 1 .. 3
    ApplyLimit,   \* rows of the Sheet one run may change
    FallbackLimit,\* local guides one run may give
    LargeBatch,   \* new channels of a run from which approvals are limited
    NewLimit,     \* approvals of such a run
    Cycle,        \* days after which the rotation repeats itself
    MaxUpsets,    \* bound on edits, failed runs and changes of the world, together
    NoRow

ASSUME ReviewQueueAssumption ==
    /\ Streams \subseteq Nat /\ IsFiniteSet(Streams)
    /\ \A at \in Layouts : at \in [Streams -> 1 .. 3]
    /\ ApplyLimit \in Nat \ {0} /\ FallbackLimit \in Nat \ {0} /\ Cycle \in Nat \ {0}
    /\ MaxUpsets \in Nat

ChannelNames == {"a", "b"}

\* The provider does not list the stream.
Gone == "gone"

\* A target stands for its source, feed and ID: the schedule the matcher would
\* find, one it cannot confirm, an exact placeholder of the catalogue, a local
\* placeholder guide, the provider's own, and an editor's choice.
Targets == {"none", "real", "weak", "dummy", "synthetic", "panel", "manual"}
Actions == {"REVIEW", "AUTO_EPGSHARE", "KEEP_PANEL", "AUTO_DUMMY", "IGNORE", "APPROVED"}

\* The notes cell holds 500 characters: one mark in full, and behind it the
\* beginning of the mark before, which shows its kind.
Kinds == {"found", "legacy", "v1", "v2", "fallback"}
Marks == [kind : Kinds, name : ChannelNames, target : Targets]

\* The reason cell: wording, or the target a fallback replaced.
Reasons == Targets \cup {"text", "deferred", "legacy"}
QueueRows == [name : ChannelNames, action : Actions, target : Targets, reason : Reasons,
              mark : Marks, under : Kinds]

ASSUME NoRowAssumption == NoRow \notin QueueRows

\* What the catalogues and their programmes say about a channel today.
Verdicts == {"none", "weak", "real", "dummy", "heading"}
\* What the provider's guide says about its own ID of the stream; "unlisted"
\* if it lists none, "miss" if it turns it down or cannot be had for now.
Answers == {"unlisted", "verified", "miss", "unclear"}

VARIABLES
    server,     \* the server of each stream
    sheet,      \* the Mappings rows
    openAlerts, \* streams with an open alert
    lineup,     \* the provider's name of each stream
    verdict, guide,
    day,        \* of the rotation
    edited,     \* rows an editor changed since the last automatic write
    undo,       \* the row a fallback replaced, of those nobody wrote since
    upsets

queueVars == <<server, sheet, openAlerts, lineup, verdict, guide, day, edited, undo, upsets>>
world == <<server, lineup, verdict, guide>>

Present == {s \in Streams : sheet[s] # NoRow}

-----------------------------------------------------------------------------
(***************************************************************************)
(* What a row says about itself.                                           *)
(***************************************************************************)
Mark(kind, name, target) == [kind |-> kind, name |-> name, target |-> target]

\* A row gets another mark; the one before it is cut off.
Marked(row, mark) == [row EXCEPT !.mark = mark, !.under = row.mark.kind]

\* Mutant of BoundToMachine: a mark of the machine is believed for any target.
UnboundToMachine(row) == row.mark.kind = "v2" /\ row.under # "v2" /\ row.mark.name = row.name

\* A target a run approved for this very channel: exactly one mark says so.
BoundToMachine(row) ==
    row.mark = Mark("v2", row.name, row.target) /\ row.under # "v2"

IsLegacy(row) == row.target = "panel" /\ row.mark.kind = "legacy" /\ row.reason = "legacy"

\* An active local guide of which the target it replaced can be restored.
IsFallback(row) ==
    /\ row.action = "AUTO_DUMMY" /\ row.target = "synthetic"
    /\ row.mark.kind = "fallback" /\ row.under # "fallback" /\ row.mark.name = row.name
    /\ row.reason = row.mark.target

\* A row as the verifiers see it: a fallback is undecided still.
Preimage(row) ==
    IF IsFallback(row) THEN [row EXCEPT !.action = "REVIEW", !.target = row.reason] ELSE row

-----------------------------------------------------------------------------
(***************************************************************************)
(* The rows a run takes up.                                                *)
(***************************************************************************)
NewStreams == {s \in Streams : lineup[s] # Gone /\ sheet[s] = NoRow}
Changed == {s \in Present : lineup[s] \notin {Gone, sheet[s].name}}
Blocked == openAlerts \cup Changed
Available == {s \in Present : lineup[s] # Gone} \ Blocked

\* The provider's ID, if it lists one for this name.
NativeOf(s) == guide[s] # "unlisted" /\ server[s] # 1

\* REVIEW rows whose target is blank or nobody's but the machine's.
Recheckable(s) ==
    /\ s \in Available /\ sheet[s].action = "REVIEW"
    /\ \/ sheet[s].target = "none"
       \/ BoundToMachine(sheet[s])
       \/ sheet[s].target = "panel" /\ (server[s] = 1 \/ NativeOf(s))

Upgradable(s) == s \in Available /\ IsFallback(sheet[s])

-----------------------------------------------------------------------------
(***************************************************************************)
(* What is decided about them.                                             *)
(***************************************************************************)
\* The matcher's result for a row it was given (finalize_proposal, sheet_patch).
Matched(s, row) ==
    CASE verdict[s] = "real" ->
           [Marked(row, Mark("v2", row.name, "real"))
              EXCEPT !.action = "AUTO_EPGSHARE", !.target = "real", !.reason = "text"]
      [] verdict[s] = "dummy" ->
           [Marked(row, Mark("v1", row.name, "none"))
              EXCEPT !.action = "AUTO_DUMMY", !.target = "dummy", !.reason = "text"]
      [] verdict[s] = "heading" ->
           [Marked(row, Mark("v1", row.name, "none"))
              EXCEPT !.action = "IGNORE", !.target = "dummy", !.reason = "text"]
      [] verdict[s] = "weak" ->
           [Marked(row, Mark("v1", row.name, "none"))
              EXCEPT !.action = "REVIEW", !.target = "weak", !.reason = "text"]
      [] OTHER ->
           [Marked(row, Mark("v1", row.name, "none")) EXCEPT !.action = "REVIEW", !.reason = "text"]

Result(s) ==
    IF Upgradable(s) /\ verdict[s] # "real" THEN sheet[s] ELSE Matched(s, sheet[s])

\* Rows that the provider's own guide is asked about.
NativeCandidate(s) ==
    /\ Recheckable(s) \/ Upgradable(s)
    /\ Result(s).action \in {"REVIEW", "AUTO_DUMMY"}
    /\ NativeOf(s) /\ Preimage(sheet[s]).target \in {"none", "panel"}

NativeVerified == {s \in Streams : NativeCandidate(s) /\ guide[s] = "verified"}

\* A stored native candidate is left alone until the provider's guide turned it
\* down, or could not be had.
ProtectedNative(s) == server[s] # 1 /\ sheet[s].target = "panel"

\* Mutant of Admitted: what the provider's guide said is not passed on.
AdmittedNowhere == {}

Admitted ==
    {s \in Streams : /\ Recheckable(s) /\ ProtectedNative(s)
                     /\ NativeCandidate(s) /\ guide[s] = "miss"}

\* Whether a row under review may get a local guide; "open" stands for blank,
\* machine_prefilled and legacy_server1.
FallbackClass(s, row, result) ==
    IF result.action # "REVIEW" THEN "ineligible"
    ELSE IF row.target = "none" THEN "open"
    ELSE IF server[s] # 1 /\ row.target = "panel" THEN "protected_native"
    ELSE IF BoundToMachine(row) \/ (server[s] = 1 /\ IsLegacy(row)) THEN "open"
    ELSE "protected_manual"

\* Mutant of Fallback: the target is read after the matcher changed the row.
FallbackOfResult(original, patched) ==
    [patched EXCEPT !.action = "AUTO_DUMMY", !.target = "synthetic",
                    !.reason = patched.target,
                    !.mark = Mark("fallback", original.name, patched.target),
                    !.under = original.mark.kind]

\* A local guide takes a row's place and says what it replaced.
Fallback(original, patched) ==
    [patched EXCEPT !.action = "AUTO_DUMMY", !.target = "synthetic",
                    !.reason = original.target,
                    !.mark = Mark("fallback", original.name, original.target),
                    !.under = original.mark.kind]

Native(row) == [row EXCEPT !.action = "KEEP_PANEL", !.target = "panel", !.reason = "text"]

-----------------------------------------------------------------------------
(***************************************************************************)
(* Bounded, fair selections.                                               *)
(***************************************************************************)
\* The first n of some streams: in turn from each server, the first server and the
\* first stream of each moving on with the rotation.
InTurn(n, keys, rotation) ==
    LET servers == {server[s] : s \in keys}
        same(s) == {t \in keys : server[t] = server[s]}
        place == [s \in keys |-> (Cardinality({t \in same(s) : t < s}) - rotation \div Cardinality(servers))
                                   % Cardinality(same(s))]
        turn == [s \in keys |-> (Cardinality({v \in servers : v < server[s]}) - rotation) % Cardinality(servers)]
        before(s) == {t \in keys : place[t] < place[s] \/ (place[t] = place[s] /\ turn[t] < turn[s])}
    IN  {s \in keys : Cardinality(before(s)) < n}

Minus(a, b) == IF a > b THEN a - b ELSE 0

-----------------------------------------------------------------------------
(***************************************************************************)
(* New channels.                                                           *)
(***************************************************************************)
NewRow(s) ==
    [name |-> lineup[s], action |-> "REVIEW", reason |-> "text",
     target |-> IF NativeOf(s) THEN "panel" ELSE "none",
     mark |-> Mark("found", lineup[s], "none"), under |-> "found"]

NewResult(s) == Matched(s, NewRow(s))

NewFallbacks ==
    InTurn(FallbackLimit, {s \in NewStreams : FallbackClass(s, NewRow(s), NewResult(s)) = "open"}, day)

NewApprovals ==
    {s \in NewStreams \ NewFallbacks : NewResult(s).action \in {"AUTO_EPGSHARE", "AUTO_DUMMY"}}

\* Surplus approvals of a large batch wait under review.
Deferred ==
    IF Cardinality(NewStreams) < LargeBatch THEN {}
    ELSE NewApprovals \ InTurn(NewLimit, NewApprovals, 0)

Appended ==
    LET fallbacks == NewFallbacks
        deferred == Deferred
    IN  [s \in NewStreams |->
           IF s \in fallbacks THEN Fallback(NewRow(s), NewResult(s))
           ELSE IF s \in deferred
                THEN [NewResult(s) EXCEPT !.action = "REVIEW", !.reason = "deferred"]
           ELSE NewResult(s)]

-----------------------------------------------------------------------------
(***************************************************************************)
(* Rows of the Sheet, lane by lane under one limit.                        *)
(***************************************************************************)
Taken == {s \in Streams : Recheckable(s) \/ Upgradable(s)}
Real == {s \in Taken : Result(s).action = "AUTO_EPGSHARE"} \ NativeVerified

\* The first n of the updates that come before all others.
Leading(n) ==
    InTurn(n, Real, 0) \cup InTurn(Minus(n, Cardinality(Real)), NativeVerified, 0)

Fallbacks ==
    LET leading == Leading(ApplyLimit)
        room == Minus(ApplyLimit, Cardinality(leading))
        guides == Minus(FallbackLimit, Cardinality(NewFallbacks))
        class(s) == FallbackClass(s, sheet[s], Result(s))
    IN  InTurn(IF room < guides THEN room ELSE guides,
               {s \in Streams : /\ Recheckable(s) /\ s \notin leading
                                /\ \/ class(s) = "open"
                                   \/ class(s) = "protected_native" /\ s \in Admitted},
               day)

Placeholders ==
    {s \in Streams : Recheckable(s) /\ Result(s).action = "AUTO_DUMMY"
                     /\ s \notin NativeVerified /\ (ProtectedNative(s) => s \in Admitted)}

Headings == {s \in Streams : Recheckable(s) /\ Result(s).action = "IGNORE"} \ NativeVerified

\* The first n of the updates, lane after lane.
ReviewUpdates(n) ==
    LET synthetic == (Placeholders \cup Fallbacks) \ Leading(ApplyLimit)
        left == Minus(n, Cardinality(Real \cup NativeVerified))
    IN  Leading(n) \cup InTurn(left, synthetic, 0)
                   \cup InTurn(Minus(left, Cardinality(synthetic)), Headings, 0)

Reviewed ==
    LET verified == NativeVerified
        fallbacks == Fallbacks
    IN  [s \in Taken |->
           IF s \in verified THEN Native(sheet[s])
           ELSE IF s \in fallbacks THEN Fallback(sheet[s], Result(s))
           ELSE Result(s)]

\* The terminal lane accepts a native candidate only while it is under review:
\* one the matcher made a placeholder stops the run.
Aborts == \E s \in Admitted : FallbackClass(s, sheet[s], Result(s)) # "protected_native"

-----------------------------------------------------------------------------
(***************************************************************************)
(* Runs, editors, the world.                                               *)
(***************************************************************************)
\* The first n of the new channels.
Additions(n) ==
    LET before(s) == {t \in NewStreams : server[t] < server[s] \/ (server[t] = server[s] /\ t < s)}
    IN  {s \in NewStreams : Cardinality(before(s)) < n}

Written(written) ==
    LET appended == Appended
        reviewed == Reviewed
        after(s) == IF s \in NewStreams THEN appended[s] ELSE reviewed[s]
    IN  /\ sheet' = [s \in Streams |-> IF s \in written THEN after(s) ELSE sheet[s]]
        /\ edited' = edited \ written
        /\ undo' = [s \in Streams |->
             IF s \notin written THEN undo[s]
             ELSE IF after(s).target # "synthetic" THEN NoRow
             ELSE IF sheet[s] = NoRow THEN NewRow(s) ELSE sheet[s]]

Upset == upsets < MaxUpsets /\ upsets' = upsets + 1

DayPasses == day' = (day + 1) % Cycle

Run ==
    /\ DayPasses
    /\ IF Aborts THEN UNCHANGED <<sheet, openAlerts, edited, undo>>
       ELSE /\ Written(NewStreams \cup ReviewUpdates(ApplyLimit))
            /\ openAlerts' = openAlerts \cup Changed
    /\ UNCHANGED <<world, upsets>>

\* A run that fails after some of its writes: the alerts come first, then the new
\* channels, then the updates.
FailedRun ==
    /\ Upset /\ ~Aborts /\ DayPasses
    /\ \E n \in 0 .. Cardinality(NewStreams) + ApplyLimit :
          Written(Additions(n) \cup ReviewUpdates(Minus(n, Cardinality(NewStreams))))
    /\ openAlerts' \in {openAlerts, openAlerts \cup Changed}
    /\ sheet' # sheet => openAlerts' = openAlerts \cup Changed
    /\ UNCHANGED world

\* An editor changes a row, or accepts or dismisses an alert.
EditorWrites(s, row) ==
    /\ Upset /\ row # sheet[s] /\ sheet' = [sheet EXCEPT ![s] = row]
    /\ edited' = edited \cup {s} /\ undo' = [undo EXCEPT ![s] = NoRow]
    /\ UNCHANGED <<world, day>>

Return(s) == EditorWrites(s, [sheet[s] EXCEPT !.action = "REVIEW"]) /\ UNCHANGED openAlerts
Clear(s) == EditorWrites(s, [sheet[s] EXCEPT !.action = "REVIEW", !.target = "none"]) /\ UNCHANGED openAlerts
Choose(s) == EditorWrites(s, [sheet[s] EXCEPT !.action = "APPROVED", !.target = "manual"]) /\ UNCHANGED openAlerts
Retarget(s) == EditorWrites(s, [sheet[s] EXCEPT !.target = "manual"]) /\ UNCHANGED openAlerts
Accept(s) ==
    /\ lineup[s] # Gone /\ EditorWrites(s, [sheet[s] EXCEPT !.name = lineup[s]])
    /\ openAlerts' = openAlerts \ {s}

Dismiss(s) ==
    /\ Upset /\ s \in openAlerts /\ openAlerts' = openAlerts \ {s}
    /\ UNCHANGED <<world, sheet, day, edited, undo>>

\* The provider renames, drops or lists a stream; another day's catalogues and
\* guides say something else.
Shift(s) ==
    /\ Upset
    /\ \/ \E name \in ChannelNames \cup {Gone} : lineup' = [lineup EXCEPT ![s] = name]
          /\ lineup'[s] # lineup[s] /\ UNCHANGED <<verdict, guide>>
       \/ \E v \in Verdicts \ {verdict[s]} : verdict' = [verdict EXCEPT ![s] = v]
          /\ UNCHANGED <<lineup, guide>>
       \/ /\ server[s] # 1
          /\ \E g \in Answers \ {guide[s]} : guide' = [guide EXCEPT ![s] = g]
          /\ UNCHANGED <<lineup, verdict>>
    /\ UNCHANGED <<server, sheet, openAlerts, day, edited, undo>>

QueueNext ==
    \/ Run \/ FailedRun
    \/ \E s \in Present : Return(s) \/ Clear(s) \/ Choose(s) \/ Retarget(s) \/ Accept(s) \/ Dismiss(s)
    \/ \E s \in Streams : Shift(s)

Legacy(s) == [name |-> lineup[s], action |-> "REVIEW", target |-> "panel", reason |-> "legacy",
              mark |-> Mark("legacy", lineup[s], "none"), under |-> "legacy"]

QueueInit ==
    /\ server \in Layouts
    /\ lineup = [s \in Streams |-> "a"]
    /\ sheet \in {rows \in [Streams -> {NoRow} \cup {Legacy(s) : s \in Streams}] :
                    \A s \in Streams : rows[s] = NoRow \/ (server[s] = 1 /\ rows[s] = Legacy(s))}
    /\ verdict \in [Streams -> Verdicts]
    /\ guide \in {g \in [Streams -> Answers] : \A s \in Streams : server[s] = 1 => g[s] = "unlisted"}
    /\ openAlerts = {} /\ edited = {} /\ day = 0
    /\ undo = [s \in Streams |-> NoRow]
    /\ upsets = 0

QueueSpec == QueueInit /\ [][QueueNext]_queueVars

-----------------------------------------------------------------------------
(***************************************************************************)
(* Properties.                                                             *)
(***************************************************************************)
QueueTypeOK ==
    /\ server \in Layouts
    /\ sheet \in [Streams -> QueueRows \cup {NoRow}] /\ undo \in [Streams -> QueueRows \cup {NoRow}]
    /\ openAlerts \subseteq Present /\ edited \subseteq Present
    /\ lineup \in [Streams -> ChannelNames \cup {Gone}]
    /\ verdict \in [Streams -> Verdicts] /\ guide \in [Streams -> Answers]
    /\ day \in 0 .. Cycle - 1
    /\ upsets \in 0 .. MaxUpsets

\* A local guide can be taken back: as long as nobody wrote the row since, it is
\* recognised and gives back the target it replaced, whatever the provider, the
\* catalogues and other runs did in between.  Not so a row that already had a
\* local guide before: its two marks are taken for none.
FallbackRestores ==
    \A s \in Streams :
        (undo[s] # NoRow /\ undo[s].mark.kind # "fallback") =>
            IsFallback(sheet[s]) /\ Preimage(sheet[s]).target = undo[s].target

\* The type invariant and what a local guide replaced.
ReviewInv == QueueTypeOK /\ FallbackRestores

\* A run changes no row an editor decided: only one under review, without an
\* editor's target, and of the provider's name; a local guide only for a real
\* one; and nothing where an alert is open.
RunsRespectEditors ==
    [][day' # day =>
        \A s \in Present : sheet'[s] # sheet[s] =>
            /\ s \notin openAlerts /\ sheet[s].name = lineup[s]
            /\ sheet[s].target # "manual"
            /\ \/ sheet[s].action = "REVIEW"
               \/ IsFallback(sheet[s]) /\ sheet'[s].target \in {"real", "panel"}]_queueVars

\* A row no editor has a say in: nothing is stored, or the machine's own, or the
\* provider's ID and the provider's guide is of no use.
Waiting(s) ==
    /\ Recheckable(s)
    /\ \/ FallbackClass(s, sheet[s], sheet[s]) = "open"
       \/ ProtectedNative(s) /\ guide[s] = "miss"

\* As long as such a row waits, a run that neither fails nor stops stores a
\* decision, a guide or a new channel: no row spends the limits of the others
\* day after day, so that each gets its turn.
RunsDecide ==
    [][(day' # day /\ upsets' = upsets /\ ~Aborts /\ \E s \in Streams : Waiting(s))
         => sheet' # sheet]_queueVars

\* "Retain a safe first batch; disabled REVIEW rows resume on later runs."
\* (auto_match_inventory.py:1427): what a run put off, a later run takes up.
DeferredResumes ==
    \A s \in Available \ edited :
        (sheet[s].action = "REVIEW" /\ sheet[s].reason = "deferred") => Recheckable(s)
=============================================================================
