---------------------------- MODULE ApprovalLane ----------------------------
(***************************************************************************)
(* The human approval lane of the Matching Lab: an approval package bound  *)
(* to the snapshot its proposals were computed from                        *)
(* (scripts/matching_lab_approvals.py) and the command that applies it to  *)
(* the Mappings tab in batches (scripts/apply_matching_lab_approvals.py).  *)
(*                                                                         *)
(* The command reads the Sheet, checks the current catalogue and the       *)
(* providers, reads the Sheet again, sends one atomic update addressed by  *)
(* row numbers, and reads the Sheet a third time to say what happened.     *)
(* The Sheet belongs to others too: its owner and the inventory            *)
(* synchronization edit, insert and delete rows at any time.  A request    *)
(* may be lost, its answer may be lost, and it may land late.              *)
(***************************************************************************)
EXTENDS Naturals, FiniteSets, Sequences, SequencesExt

CONSTANTS
    Proposals,   \* the proposed streams, highest score and margin first
    Others,      \* streams of the snapshot without a proposal, in its order
    Limit,       \* rows of one batch
    MaxEdits,    \* bound on edits of the Sheet by others
    MaxPosts,    \* bound on requests in flight
    NoStream

ASSUME LaneAssumption ==
    /\ Proposals \in Seq(ToSet(Proposals)) /\ Others \in Seq(ToSet(Others))
    /\ Limit \in Nat /\ MaxEdits \in Nat

Streams == ToSet(Proposals) \cup ToSet(Others) \cup {NoStream}

VARIABLES
    sheet,     \* the Mappings tab: a sequence of rows
    alerts,    \* streams with an OPEN alert
    renamed,   \* streams the provider gave to another channel since the snapshot
    valid,     \* the package, its bundle and its snapshots are as approved, and not expired
    current,   \* the catalogue is the one of the approved run, programmes included
    lane,      \* the command: [phase, before, batch]
    wire,      \* updates sent and neither landed nor lost: [before, batch]
    report,    \* rows the last invocation said it committed: [rows, failed]
    late,      \* history: streams that changed too late for a command to see
    edits

outside == <<alerts, renamed, valid, current, late, edits>>
vars == <<sheet, lane, wire, report, outside>>

(* A row as the lane tells rows apart: whose it is, its review, the stream   *)
(* whose EPG it has, and which version of its reason and notes.              *)
Row == [stream : Streams, action : {"REVIEW", "APPROVED", "IGNORE"}, epg : Streams, notes : 0 .. 1]
Original(s) == [stream |-> s, action |-> "REVIEW", epg |-> NoStream, notes |-> 0]

\* The snapshot the package is bound to.
original == [i \in 1 .. Len(Proposals) + Len(Others) |-> Original((Proposals \o Others)[i])]

Idle == [phase |-> "idle", before |-> <<>>, batch |-> {}]
NoReport == [rows |-> {}, failed |-> FALSE]

Init ==
    /\ sheet = original
    /\ alerts = {}
    /\ renamed = {}
    /\ valid = TRUE
    /\ current = TRUE
    /\ lane = Idle
    /\ wire = {}
    /\ report = NoReport
    /\ late = {}
    /\ edits = 0

---------------------------------------------------------------------------
(* What the command computes from a table.                                  *)

\* A row committed by this package: its provenance is in the notes.
_desired_row(row) == [row EXCEPT !.action = "APPROVED", !.epg = row.stream]
Committed(row) == row = _desired_row(Original(row.stream)) /\ row.stream \in ToSet(Proposals)

\* Mutant of ApprovedTransition: only the rows of the proposals are looked at.
ApprovedTargets(table) ==
    /\ Len(table) = Len(original)
    /\ \A i \in 1 .. Len(table) :
          original[i].stream \in ToSet(Proposals) => table[i] = original[i] \/ Committed(table[i])

\* Only rows of the snapshot, where they were, and exact commits of this package.
ApprovedTransition(table) ==
    /\ Len(table) = Len(original)
    /\ \A i \in 1 .. Len(table) :
          /\ table[i].stream = original[i].stream
          /\ table[i] = original[i] \/ Committed(table[i])

RowNumber(table, s) == CHOOSE i \in 1 .. Len(table) : table[i].stream = s

\* The highest-confidence proposals not committed yet, and the rows they take.
prepare_approved_rows(table) ==
    LET eligible == {i \in DOMAIN Proposals : ~Committed(table[RowNumber(table, Proposals[i])])}
        first == {i \in eligible : Cardinality({j \in eligible : j < i}) < Limit}
    IN  {[number |-> RowNumber(table, Proposals[i]), stream |-> Proposals[i]] : i \in first}

Targets(batch) == {b.stream : b \in batch}

\* The table after the batch's cells are written at its row numbers.  The update
\* carries the review columns, not the identity of the row it lands on.
Patched(table, batch) ==
    [i \in 1 .. Len(table) |->
        IF \E b \in batch : b.number = i
        THEN [table[i] EXCEPT !.action = "APPROVED", !.notes = 0,
                              !.epg = (CHOOSE b \in batch : b.number = i).stream]
        ELSE table[i]]

\* The targets hold what was asked, whatever became of other rows.
TargetsMatch(table, batch) ==
    \A b \in batch : b.number <= Len(table) /\ table[b.number] = _desired_row(Original(b.stream))

---------------------------------------------------------------------------
(* The command, from one read or check to the next.  Any check that fails,  *)
(* and any read that fails, ends it with nothing written.                   *)

Stop ==
    /\ lane.phase \in {"catalogue", "providers", "again", "reread", "post"}
    /\ lane' = Idle
    /\ report' = [rows |-> {}, failed |-> TRUE]
    /\ UNCHANGED <<sheet, wire, outside>>

Begin ==
    /\ lane.phase = "idle"
    /\ valid
    /\ ApprovedTransition(sheet)
    /\ LET batch == prepare_approved_rows(sheet)
       IN  /\ Targets(batch) \cap alerts = {}
           /\ batch # {}
           /\ lane' = [phase |-> "catalogue", before |-> sheet, batch |-> batch]
    /\ report' = NoReport
    /\ UNCHANGED <<sheet, wire, outside>>

Check(from, to, passed) ==
    /\ lane.phase = from
    /\ passed
    /\ lane' = [lane EXCEPT !.phase = to]
    /\ UNCHANGED <<sheet, wire, report, outside>>

\* Mutant of revalidate_providers: the first fetch of the providers is trusted.
RevalidateNothing == Check("again", "reread", valid)

validate_current_catalogue == Check("catalogue", "providers", current)
fetch_provider_inventories == Check("providers", "again", Targets(lane.batch) \cap renamed = {})
revalidate_providers == Check("again", "reread", valid /\ Targets(lane.batch) \cap renamed = {})

\* Mutant of Reread: the alerts are those of the first read.
RereadMappings ==
    /\ lane.phase = "reread"
    /\ valid
    /\ sheet = lane.before
    /\ ApprovedTransition(sheet)
    /\ prepare_approved_rows(sheet) = lane.batch
    /\ lane' = [lane EXCEPT !.phase = "post"]
    /\ UNCHANGED <<sheet, wire, report, outside>>

\* The adjacent read of both tabs, and everything computed again from it.
Reread ==
    /\ lane.phase = "reread"
    /\ valid
    /\ sheet = lane.before
    /\ ApprovedTransition(sheet)
    /\ prepare_approved_rows(sheet) = lane.batch
    /\ Targets(lane.batch) \cap alerts = {}
    /\ lane' = [lane EXCEPT !.phase = "post"]
    /\ UNCHANGED <<sheet, wire, report, outside>>

\* The request leaves, or fails before it does; either way the Sheet is read again.
Post ==
    /\ lane.phase = "post"
    /\ Cardinality(wire) < MaxPosts
    /\ \/ wire' = wire \cup {[before |-> lane.before, batch |-> lane.batch]}
       \/ UNCHANGED wire
    /\ lane' = [lane EXCEPT !.phase = "verify"]
    /\ UNCHANGED <<sheet, report, outside>>

\* A request lands whole, or not at all, whether or not its sender waits for it.
Land ==
    /\ \E request \in wire :
          /\ sheet' = Patched(sheet, request.batch)
          /\ wire' = wire \ {request}
    /\ UNCHANGED <<lane, report, outside>>

Lose ==
    /\ \E request \in wire : wire' = wire \ {request}
    /\ UNCHANGED <<sheet, lane, report, outside>>

\* The authoritative read: all rows committed and nothing else changed, or the
\* targets alone committed, or nothing that may be claimed.
Verify ==
    /\ lane.phase = "verify"
    /\ report' = IF sheet = Patched(lane.before, lane.batch) THEN [rows |-> lane.batch, failed |-> FALSE]
                 ELSE IF TargetsMatch(sheet, lane.batch) THEN [rows |-> lane.batch, failed |-> TRUE]
                 ELSE [rows |-> {}, failed |-> TRUE]
    /\ lane' = Idle
    /\ UNCHANGED <<sheet, wire, outside>>

Kill ==
    /\ lane.phase # "idle"
    /\ lane' = Idle
    /\ report' = [rows |-> {}, failed |-> TRUE]
    /\ UNCHANGED <<sheet, wire, outside>>

---------------------------------------------------------------------------
(* Everyone else.                                                           *)

Edit ==
    /\ edits < MaxEdits
    /\ edits' = edits + 1
    /\ \/ \E i \in 1 .. Len(sheet), row \in Row :
             row.stream = sheet[i].stream /\ sheet' = [sheet EXCEPT ![i] = row]
       \/ \E i \in 1 .. Len(sheet) : sheet' = RemoveAt(sheet, i)
       \/ /\ \A i \in 1 .. Len(sheet) : sheet[i].stream # NoStream
          /\ \E i \in 1 .. Len(sheet) + 1 : sheet' = InsertAt(sheet, i, Original(NoStream))
    /\ UNCHANGED <<alerts, renamed, valid, current, late, lane, wire, report>>

Changed(s, phases) == late' = IF lane.phase \in phases \/ wire # {} THEN late \cup {s} ELSE late

Alert(s) ==
    /\ alerts' = (alerts \cup {s}) \ (alerts \cap {s})
    /\ Changed(s, {"post", "verify"})
    /\ UNCHANGED <<renamed, valid, current>>

Rename(s) ==
    /\ renamed' = renamed \cup {s}
    /\ Changed(s, {"reread", "post", "verify"})
    /\ UNCHANGED <<alerts, valid, current>>

\* The package expires or its files are replaced; a new catalogue is published.
Outdate ==
    /\ valid' \in {valid, FALSE}
    /\ current' \in {current, FALSE}
    /\ UNCHANGED <<alerts, renamed, late>>

Outside ==
    /\ edits < MaxEdits
    /\ edits' = edits + 1
    /\ Outdate \/ \E s \in ToSet(Proposals) : Alert(s) \/ Rename(s)
    /\ UNCHANGED <<sheet, lane, wire, report>>

Next ==
    \/ Begin \/ validate_current_catalogue \/ fetch_provider_inventories \/ revalidate_providers
    \/ Reread \/ Post \/ Verify \/ Stop \/ Kill \/ Land \/ Lose \/ Edit \/ Outside

Spec == Init /\ [][Next]_vars

Batches == SUBSET [number : Nat, stream : Streams]

TypeOK ==
    /\ sheet \in Seq(Row)
    /\ alerts \subseteq Streams /\ renamed \subseteq Streams /\ late \subseteq Streams
    /\ valid \in BOOLEAN /\ current \in BOOLEAN /\ edits \in 0 .. MaxEdits
    /\ lane \in [phase : {"idle", "catalogue", "providers", "again", "reread", "post", "verify"},
                before : Seq(Row), batch : Batches]
    /\ wire \subseteq [before : Seq(Row), batch : Batches]
    /\ report \in [rows : Batches, failed : BOOLEAN]

\* What the checks leave behind: a batch is the one computed from the table it is bound
\* to, and past each check its targets are as checked, save for what came too late.
Bound(before, batch) == ApprovedTransition(before) /\ batch = prepare_approved_rows(before)
BoundInv ==
    /\ lane.phase # "idle" => Bound(lane.before, lane.batch)
    /\ \A request \in wire : Bound(request.before, request.batch)

CheckedInv ==
    /\ lane.phase \in {"reread", "post", "verify"} => Targets(lane.batch) \cap renamed \subseteq late
    /\ lane.phase \in {"post", "verify"} => Targets(lane.batch) \cap alerts \subseteq late
    /\ \A request \in wire : Targets(request.batch) \cap (renamed \cup alerts) \subseteq late

LaneInv == TypeOK /\ BoundInv /\ CheckedInv

---------------------------------------------------------------------------
Landed == wire \ wire'

\* An update that lands on the table it was computed for, or on that table with more
\* rows of the same package committed, takes rows of the snapshot exactly as they were
\* proposed to their approved form, and every other row of the table is as it was in
\* the snapshot: whoever inserts, deletes or edits a row before the last read of the
\* command keeps it from writing at all (apply_live_approval_batch).  Only an edit made
\* after that read can meet the update.
AsApproved(row, was) == row = was \/ row = [was EXCEPT !.action = "APPROVED", !.epg = was.stream]
OnlyApprovedTransitions ==
    [][\A request \in Landed :
          /\ sheet' # sheet
          /\ Len(sheet) = Len(request.before)
          /\ \A i \in 1 .. Len(sheet) : AsApproved(sheet[i], request.before[i])
          => /\ Len(sheet') = Len(original)
             /\ \A i \in 1 .. Len(sheet') : AsApproved(sheet'[i], original[i])]_vars

\* No row is approved for a stream whose provider identity changed, or that got an OPEN
\* alert, before the last look of the command that approves it: a package is old by the
\* time it is applied (_require_provider_identity_matches, the second fetch of the
\* providers, and the alerts of the adjacent read).
StaleTargetsRefused ==
    [][\A request \in Landed :
          sheet' # sheet => (Targets(request.batch) \cap (renamed \cup alerts)) \subseteq late]_vars

=============================================================================
