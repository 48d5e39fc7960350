---------------------------- MODULE BacklogProofs ----------------------------
(***************************************************************************)
(* Proofs about the three programs that work off a backlog, each for every *)
(* value of its constants.                                                 *)
(*                                                                         *)
(* ApprovalLane, for any proposals, any batch limit and any number of      *)
(* edits and requests: an update that lands on the table it was computed   *)
(* for does what was approved and nothing else, and no target is approved  *)
(* that a check had seen change.                                           *)
(*                                                                         *)
(* TitleQueue, for any titles, delays, limit and number of faults: a title *)
(* is given up only for an answer that said so twice.                      *)
(*                                                                         *)
(* LabDecision, for any scores, thresholds and number of candidates: the   *)
(* validator accepts every decision, and evidence of the resolver closes   *)
(* no lane.                                                                *)
(***************************************************************************)
EXTENDS ApprovalLane, LabDecision, TitleQueue, FiniteSetTheorems, SequenceTheorems, TLAPS

-----------------------------------------------------------------------------
(* Tables.                                                                   *)

LEMMA OriginalType ==
    /\ original \in Seq(Row)
    /\ Len(original) = Len(Proposals) + Len(Others)
    /\ \A i \in 1 .. Len(original) : original[i] = Original((Proposals \o Others)[i])
    /\ \A k \in DOMAIN Proposals : k \in 1 .. Len(original) /\ original[k].stream = Proposals[k]
<1> DEFINE n == Len(Proposals) + Len(Others)
<1>1. n \in Nat /\ \A i \in 1 .. n : (Proposals \o Others)[i] \in Streams
  BY LaneAssumption DEF Streams, ToSet
<1>2. \A s \in Streams : Original(s) \in Row
  BY DEF Original, Row, Streams
<1>3. original = [i \in 1 .. n |-> Original((Proposals \o Others)[i])]
  BY DEF original
<1>4. original \in Seq(Row) /\ Len(original) = n
  BY <1>1, <1>2, <1>3
<1>5. \A k \in DOMAIN Proposals : k \in 1 .. n /\ (Proposals \o Others)[k] = Proposals[k]
  BY LaneAssumption
<1> QED
  BY <1>1, <1>3, <1>4, <1>5 DEF Original

LEMMA RemoveAtType ==
    ASSUME NEW S, NEW s \in Seq(S), NEW i \in 1 .. Len(s)
    PROVE  RemoveAt(s, i) \in Seq(S)
BY DEF RemoveAt

LEMMA InsertAtType ==
    ASSUME NEW S, NEW s \in Seq(S), NEW i \in 1 .. Len(s) + 1, NEW e \in S
    PROVE  InsertAt(s, i, e) \in Seq(S)
BY DEF InsertAt

\* What the update writes into a row.
LEMMA RowEqual ==
    ASSUME NEW r \in Row, NEW t \in Row,
           r.stream = t.stream, r.action = t.action, r.epg = t.epg, r.notes = t.notes
    PROVE  r = t
BY DEF Row

LEMMA ApprovedRow ==
    ASSUME NEW row \in Row, NEW s \in Streams
    PROVE  LET approved == [row EXCEPT !.action = "APPROVED", !.notes = 0, !.epg = s]
           IN  /\ approved \in Row /\ approved.stream = row.stream
               /\ approved.action = "APPROVED" /\ approved.epg = s /\ approved.notes = 0
<1> DEFINE r1 == [row EXCEPT !.action = "APPROVED"]
           r2 == [r1 EXCEPT !.notes = 0]
           r3 == [r2 EXCEPT !.epg = s]
<1>1. r1 \in Row /\ r1.stream = row.stream /\ r1.action = "APPROVED" /\ r1.epg = row.epg
  BY DEF Row
<1> HIDE DEF r1
<1>2. r2 \in Row /\ r2.stream = row.stream /\ r2.action = "APPROVED" /\ r2.notes = 0
  BY <1>1 DEF Row
<1> HIDE DEF r2
<1>3. r3 \in Row /\ r3.stream = row.stream /\ r3.action = "APPROVED" /\ r3.epg = s /\ r3.notes = 0
  BY <1>2 DEF Row
<1>4. r3 = [row EXCEPT !.action = "APPROVED", !.notes = 0, !.epg = s]
  BY DEF r1, r2
<1> QED
  BY <1>3, <1>4

\* The form it was proposed in.
LEMMA TakenRow ==
    ASSUME NEW row \in Row
    PROVE  LET taken == [row EXCEPT !.action = "APPROVED", !.epg = row.stream]
           IN  /\ taken \in Row /\ taken.stream = row.stream /\ taken.action = "APPROVED"
               /\ taken.epg = row.stream /\ taken.notes = row.notes
<1> DEFINE taken == [row EXCEPT !.action = "APPROVED", !.epg = row.stream]
<1>1. taken \in Row
  BY DEF Row
<1>2. taken.stream = row.stream /\ taken.action = "APPROVED" /\ taken.epg = row.stream
  BY DEF Row
<1>3. taken.notes = row.notes
  BY DEF Row
<1> QED
  BY <1>1, <1>2, <1>3

LEMMA PatchedType ==
    ASSUME NEW table \in Seq(Row), NEW batch \in Batches
    PROVE  Patched(table, batch) \in Seq(Row)
<1> DEFINE updated(i) == CHOOSE b \in batch : b.number = i
           cell(i) == IF \E b \in batch : b.number = i
                      THEN [table[i] EXCEPT !.action = "APPROVED", !.notes = 0,
                                            !.epg = updated(i).stream]
                      ELSE table[i]
<1>1. ASSUME NEW i \in 1 .. Len(table) PROVE cell(i) \in Row
  <2>1. table[i] \in Row
    OBVIOUS
  <2>2. CASE \E b \in batch : b.number = i
    <3>1. updated(i) \in batch
      BY <2>2
    <3>2. updated(i).stream \in Streams
      BY <3>1 DEF Batches
    <3> HIDE DEF updated
    <3>3. [table[i] EXCEPT !.action = "APPROVED", !.notes = 0, !.epg = updated(i).stream] \in Row
      BY <2>1, <3>2, ApprovedRow
    <3> QED
      BY <2>2, <3>3
  <2>3. CASE ~\E b \in batch : b.number = i
    BY <2>1, <2>3
  <2> QED
    BY <2>2, <2>3
<1>2. Patched(table, batch) = [i \in 1 .. Len(table) |-> cell(i)]
  BY DEF Patched
<1> HIDE DEF cell
<1>3. [i \in 1 .. Len(table) |-> cell(i)] \in [1 .. Len(table) -> Row]
  BY <1>1
<1>4. Len(table) \in Nat
  OBVIOUS
<1>5. [1 .. Len(table) -> Row] \subseteq Seq(Row)
  BY <1>4, SeqDef
<1> QED
  BY <1>2, <1>3, <1>5

\* The batch of a table takes rows of the snapshot where they are.
LEMMA PreparedRows ==
    ASSUME NEW table \in Seq(Row), ApprovedTransition(table),
           NEW b \in prepare_approved_rows(table)
    PROVE  /\ b \in [number : Nat, stream : Streams]
           /\ b.number \in 1 .. Len(table)
           /\ table[b.number].stream = b.stream
           /\ ~Committed(table[b.number])
<1>1. PICK k \in DOMAIN Proposals :
        /\ b = [number |-> RowNumber(table, Proposals[k]), stream |-> Proposals[k]]
        /\ ~Committed(table[RowNumber(table, Proposals[k])])
  BY DEF prepare_approved_rows
<1>2. k \in 1 .. Len(table) /\ table[k].stream = Proposals[k]
  BY OriginalType DEF ApprovedTransition
<1>3. RowNumber(table, Proposals[k]) \in 1 .. Len(table)
        /\ table[RowNumber(table, Proposals[k])].stream = Proposals[k]
  BY <1>2 DEF RowNumber
<1>4. Proposals[k] \in Streams
  BY LaneAssumption DEF Streams, ToSet
<1> QED
  BY <1>1, <1>3, <1>4

LEMMA PreparedType ==
    ASSUME NEW table \in Seq(Row), ApprovedTransition(table)
    PROVE  prepare_approved_rows(table) \in Batches
BY PreparedRows DEF Batches

-----------------------------------------------------------------------------
(* The invariant.                                                            *)

LEMMA InitInv == Init => LaneInv
<1> SUFFICES ASSUME Init PROVE LaneInv
  OBVIOUS
<1>1. TypeOK
  BY OriginalType, LaneAssumption, EmptySeq DEF Init, TypeOK, Idle, NoReport, Batches
<1>2. BoundInv /\ CheckedInv
  BY DEF Init, BoundInv, CheckedInv, Idle
<1> QED
  BY <1>1, <1>2 DEF LaneInv

\* A step of the command that neither reads nor writes the Sheet.
LEMMA CheckType ==
    ASSUME TypeOK, NEW from, NEW to \in {"catalogue", "providers", "again", "reread", "post", "verify"},
           NEW passed, Check(from, to, passed)
    PROVE  TypeOK' /\ lane'.phase = to /\ lane'.before = lane.before /\ lane'.batch = lane.batch
BY DEF TypeOK, Check, outside

LEMMA TypeStep == LaneInv /\ [Next]_vars => TypeOK'
<1> SUFFICES ASSUME LaneInv, [Next]_vars PROVE TypeOK'
  OBVIOUS
<1> USE DEF LaneInv
<1>1. CASE Begin
  <2>1. prepare_approved_rows(sheet) \in Batches
    BY <1>1, PreparedType DEF Begin, TypeOK
  <2> QED
    BY <1>1, <2>1 DEF Begin, TypeOK, NoReport, Batches, outside
<1>2. CASE validate_current_catalogue
  BY <1>2, CheckType DEF validate_current_catalogue
<1>3. CASE fetch_provider_inventories
  BY <1>3, CheckType DEF fetch_provider_inventories
<1>4. CASE revalidate_providers
  BY <1>4, CheckType DEF revalidate_providers
<1>5. CASE Reread
  BY <1>5 DEF Reread, TypeOK, outside
<1>6. CASE Post
  BY <1>6 DEF Post, TypeOK, outside
<1>7. CASE Verify
  BY <1>7, EmptySeq DEF Verify, TypeOK, Idle, Batches, outside
<1>8. CASE Stop
  BY <1>8, EmptySeq DEF Stop, TypeOK, Idle, Batches, outside
<1>9. CASE Kill
  BY <1>9, EmptySeq DEF Kill, TypeOK, Idle, Batches, outside
<1>10. CASE Land
  <2>1. PICK request \in wire : sheet' = Patched(sheet, request.batch) /\ wire' = wire \ {request}
    BY <1>10 DEF Land
  <2>2. request.batch \in Batches
    BY <2>1 DEF TypeOK
  <2>3. sheet' \in Seq(Row)
    BY <2>1, <2>2, PatchedType DEF TypeOK
  <2> QED
    BY <1>10, <2>1, <2>3 DEF Land, TypeOK, outside
<1>11. CASE Lose
  BY <1>11 DEF Lose, TypeOK, outside
<1>12. CASE Edit
  <2>1. Original(NoStream) \in Row
    BY DEF Original, Row, Streams
  <2>2. sheet' \in Seq(Row)
    <3>1. CASE \E i \in 1 .. Len(sheet), row \in Row :
                 row.stream = sheet[i].stream /\ sheet' = [sheet EXCEPT ![i] = row]
      BY <3>1, ExceptSeq DEF TypeOK
    <3>2. CASE \E i \in 1 .. Len(sheet) : sheet' = RemoveAt(sheet, i)
      BY <3>2, RemoveAtType DEF TypeOK
    <3>3. CASE \E i \in 1 .. Len(sheet) + 1 : sheet' = InsertAt(sheet, i, Original(NoStream))
      BY <2>1, <3>3, InsertAtType DEF TypeOK
    <3> QED
      BY <1>12, <3>1, <3>2, <3>3 DEF Edit
  <2>3. edits' \in 0 .. MaxEdits
    BY <1>12, LaneAssumption DEF Edit, TypeOK
  <2> QED
    BY <1>12, <2>2, <2>3 DEF Edit, TypeOK
<1>13. CASE Outside
  <2>1. edits' \in 0 .. MaxEdits
    BY <1>13, LaneAssumption DEF Outside, TypeOK
  <2>2. /\ valid' \in BOOLEAN /\ current' \in BOOLEAN
        /\ alerts' \subseteq Streams /\ renamed' \subseteq Streams /\ late' \subseteq Streams
    <3>1. CASE Outdate
      BY <3>1 DEF Outdate, TypeOK
    <3>2. ASSUME NEW s \in ToSet(Proposals), Alert(s) \/ Rename(s) PROVE <2>2
      BY <3>2 DEF Alert, Rename, Changed, TypeOK, Streams
    <3> QED
      BY <1>13, <3>1, <3>2 DEF Outside
  <2> QED
    BY <1>13, <2>1, <2>2 DEF Outside, TypeOK
<1>14. CASE UNCHANGED vars
  BY <1>14 DEF vars, outside, TypeOK
<1> QED
  BY <1>1, <1>2, <1>3, <1>4, <1>5, <1>6, <1>7, <1>8, <1>9, <1>10, <1>11, <1>12, <1>13, <1>14
     DEF Next

\* Whatever the command holds or has sent was computed from a table of the package.
LEMMA BoundStep == LaneInv /\ [Next]_vars => BoundInv'
<1> SUFFICES ASSUME LaneInv, [Next]_vars PROVE BoundInv'
  OBVIOUS
<1> USE DEF LaneInv
<1>1. CASE Begin
  BY <1>1 DEF Begin, BoundInv, Bound
<1>2. ASSUME NEW from, NEW to \in {"catalogue", "providers", "again", "reread", "post", "verify"},
             NEW passed, from # "idle", Check(from, to, passed)
      PROVE  BoundInv'
  BY <1>2, CheckType DEF Check, BoundInv, Bound
<1>3. CASE validate_current_catalogue \/ fetch_provider_inventories \/ revalidate_providers
  BY <1>2, <1>3 DEF validate_current_catalogue, fetch_provider_inventories, revalidate_providers
<1>4. CASE Reread
  BY <1>4 DEF Reread, BoundInv, Bound, TypeOK
<1>5. CASE Post
  BY <1>5 DEF Post, BoundInv, Bound, TypeOK
<1>6. CASE Verify \/ Stop \/ Kill
  BY <1>6 DEF Verify, Stop, Kill, Idle, BoundInv
<1>7. CASE Land \/ Lose
  BY <1>7 DEF Land, Lose, BoundInv
<1>8. CASE Edit \/ Outside \/ UNCHANGED vars
  BY <1>8 DEF Edit, Outside, vars, BoundInv
<1> QED
  BY <1>1, <1>3, <1>4, <1>5, <1>6, <1>7, <1>8 DEF Next

\* What a check saw stays so, or changed too late for it.
LEMMA CheckedStep == LaneInv /\ [Next]_vars => CheckedInv'
<1> SUFFICES ASSUME LaneInv, [Next]_vars PROVE CheckedInv'
  OBVIOUS
<1> USE DEF LaneInv
<1>1. CASE Begin
  BY <1>1 DEF Begin, CheckedInv, Targets, outside
<1>2. CASE validate_current_catalogue
  BY <1>2, CheckType DEF validate_current_catalogue, Check, CheckedInv, outside
<1>3. CASE fetch_provider_inventories
  BY <1>3, CheckType DEF fetch_provider_inventories, Check, CheckedInv, outside
<1>4. CASE revalidate_providers
  BY <1>4, CheckType DEF revalidate_providers, Check, CheckedInv, Targets, outside
<1>5. CASE Reread
  BY <1>5 DEF Reread, CheckedInv, TypeOK, Targets, outside
<1>6. CASE Post
  BY <1>6 DEF Post, CheckedInv, TypeOK, Targets, outside
<1>7. CASE Verify \/ Stop \/ Kill
  BY <1>7 DEF Verify, Stop, Kill, Idle, CheckedInv, outside
<1>8. CASE Land \/ Lose
  BY <1>8 DEF Land, Lose, CheckedInv, outside
<1>9. CASE Edit
  BY <1>9 DEF Edit, CheckedInv, Targets
<1>10. CASE Outside
  <2>1. UNCHANGED <<lane, wire>>
    BY <1>10 DEF Outside
  <2>2. CASE Outdate
    BY <2>1, <2>2 DEF Outdate, CheckedInv, Targets
  <2>3. ASSUME NEW s \in ToSet(Proposals), Alert(s) PROVE CheckedInv'
    BY <2>1, <2>3 DEF Alert, Changed, CheckedInv, Targets
  <2>4. ASSUME NEW s \in ToSet(Proposals), Rename(s) PROVE CheckedInv'
    BY <2>1, <2>4 DEF Rename, Changed, CheckedInv, Targets
  <2> QED
    BY <1>10, <2>2, <2>3, <2>4 DEF Outside
<1>11. CASE UNCHANGED vars
  BY <1>11 DEF vars, outside, CheckedInv, Targets
<1> QED
  BY <1>1, <1>2, <1>3, <1>4, <1>5, <1>6, <1>7, <1>8, <1>9, <1>10, <1>11 DEF Next

\* The command's batch is bound to the table it was computed from, and past each
\* check its targets are as that check saw them (apply_live_approval_batch).
THEOREM LaneIsChecked == Spec => []LaneInv
<1>1. LaneInv /\ [Next]_vars => LaneInv'
  BY TypeStep, BoundStep, CheckedStep DEF LaneInv
<1> QED
  BY InitInv, <1>1, PTL DEF Spec

-----------------------------------------------------------------------------
(* What lands.                                                               *)

\* Only Land takes a request from the wire and writes its cells.
LEMMA LandedOnly ==
    ASSUME LaneInv, [Next]_vars, NEW request \in Landed, sheet' # sheet
    PROVE  request \in wire /\ sheet' = Patched(sheet, request.batch) /\ UNCHANGED outside
<1>1. request \in wire /\ request \notin wire'
  BY DEF Landed
<1>2. CASE Land
  BY <1>1, <1>2 DEF Land
<1>3. CASE Lose
  BY <1>3 DEF Lose
<1>4. CASE Post
  BY <1>4, <1>1 DEF Post
<1>5. CASE validate_current_catalogue \/ fetch_provider_inventories \/ revalidate_providers
  BY <1>1, <1>5 DEF validate_current_catalogue, fetch_provider_inventories, revalidate_providers, Check
<1>6. CASE Begin \/ Reread \/ Verify \/ Stop \/ Kill \/ Edit \/ Outside \/ UNCHANGED vars
  BY <1>1, <1>6 DEF Begin, Reread, Verify, Stop, Kill, Edit, Outside, vars
<1> QED
  BY <1>2, <1>3, <1>4, <1>5, <1>6 DEF Next

\* No update approves a row for a stream that had changed when the command last looked
\* (_require_provider_identity_matches, the second fetch, the adjacent read).
THEOREM StaleTargetsAreRefused == Spec => StaleTargetsRefused
<1>1. ASSUME LaneInv, [Next]_vars, NEW request \in Landed, sheet' # sheet
      PROVE  Targets(request.batch) \cap (renamed \cup alerts) \subseteq late
  BY <1>1, LandedOnly DEF LaneInv, CheckedInv
<1>2. LaneInv /\ [Next]_vars =>
        [\A request \in Landed :
            sheet' # sheet => (Targets(request.batch) \cap (renamed \cup alerts)) \subseteq late]_vars
  BY <1>1
<1> QED
  BY <1>2, LaneIsChecked, PTL DEF Spec, StaleTargetsRefused

\* One row of a table an update lands on.
LEMMA RowLands ==
    ASSUME NEW table \in Seq(Row), NEW before \in Seq(Row), ApprovedTransition(before),
           NEW batch, batch = prepare_approved_rows(before),
           Len(table) = Len(before), NEW i \in 1 .. Len(table),
           AsApproved(table[i], before[i])
    PROVE  AsApproved(Patched(table, batch)[i], original[i])
<1>1. /\ before[i].stream = original[i].stream
      /\ before[i] = original[i] \/ Committed(before[i])
      /\ i \in 1 .. Len(original)
  BY DEF ApprovedTransition
<1>2. /\ original[i] \in Row /\ original[i] = Original(original[i].stream)
      /\ before[i] \in Row /\ table[i] \in Row
  BY <1>1, OriginalType DEF Original
<1>3. AsApproved(before[i], original[i])
  BY <1>1, <1>2 DEF AsApproved, Committed, _desired_row
<1>4. CASE \E b \in batch : b.number = i
  <2> DEFINE c == CHOOSE b \in batch : b.number = i
  <2>1. c \in batch /\ c.number = i
    BY <1>4
  <2>2. Patched(table, batch)[i] = [table[i] EXCEPT !.action = "APPROVED", !.notes = 0, !.epg = c.stream]
    BY <1>4 DEF Patched
  <2> HIDE DEF c
  <2>3. before[i].stream = c.stream /\ ~Committed(before[i])
    BY <2>1, PreparedRows
  <2>4. before[i] = original[i]
    BY <1>1, <2>3
  <2> DEFINE done == [original[i] EXCEPT !.action = "APPROVED", !.epg = original[i].stream]
             here == [table[i] EXCEPT !.action = "APPROVED", !.notes = 0, !.epg = c.stream]
  <2>5. c.stream = original[i].stream /\ c.stream \in Streams
    BY <1>2, <2>3, <2>4 DEF Row
  <2>6. done \in Row /\ done.stream = original[i].stream /\ done.action = "APPROVED"
        /\ done.epg = c.stream /\ done.notes = 0
    <3>1. original[i].notes = 0
      BY <1>2 DEF Original
    <3> QED
      BY <1>2, <2>5, <3>1, TakenRow
  <2>7. table[i].stream = original[i].stream
    BY <1>2, <2>4 DEF AsApproved, Row
  <2>8. here \in Row /\ here.stream = table[i].stream /\ here.action = "APPROVED"
        /\ here.epg = c.stream /\ here.notes = 0
    BY <1>2, <2>5, ApprovedRow
  <2>9. here = done
    <3> HIDE DEF here, done
    <3> QED
      BY <2>6, <2>7, <2>8, RowEqual
  <2> QED
    BY <2>2, <2>9 DEF AsApproved
<1>5. CASE ~\E b \in batch : b.number = i
  <2>1. Patched(table, batch)[i] = table[i]
    BY <1>5 DEF Patched
  <2> QED
    BY <1>2, <1>3, <2>1 DEF AsApproved, Row
<1> QED
  BY <1>4, <1>5

\* Whatever else happens to the Sheet, an update that lands on the table it was
\* computed for approves what was proposed and leaves every other row as it was in the
\* snapshot (prepare_approved_rows, validate_approved_transition).
THEOREM ApprovesOnlyProposals == Spec => OnlyApprovedTransitions
<1>1. ASSUME LaneInv, [Next]_vars, NEW request \in Landed, sheet' # sheet,
             Len(sheet) = Len(request.before),
             \A i \in 1 .. Len(sheet) : AsApproved(sheet[i], request.before[i])
      PROVE  /\ Len(sheet') = Len(original)
             /\ \A i \in 1 .. Len(sheet') : AsApproved(sheet'[i], original[i])
  <2>1. request \in wire /\ sheet' = Patched(sheet, request.batch)
    BY <1>1, LandedOnly
  <2>2. /\ request.before \in Seq(Row) /\ sheet \in Seq(Row)
        /\ ApprovedTransition(request.before)
        /\ request.batch = prepare_approved_rows(request.before)
    BY <1>1, <2>1 DEF LaneInv, TypeOK, BoundInv, Bound
  <2>3. Len(sheet') = Len(sheet)
    <3>1. request.batch \in Batches
      BY <2>2, PreparedType
    <3>2. Patched(sheet, request.batch) \in Seq(Row)
      BY <2>2, <3>1, PatchedType
    <3>3. DOMAIN Patched(sheet, request.batch) = 1 .. Len(sheet)
      BY DEF Patched
    <3> QED
      BY <2>1, <2>2, <3>2, <3>3, LenProperties
  <2>4. Len(request.before) = Len(original)
    BY <2>2 DEF ApprovedTransition
  <2>5. \A i \in 1 .. Len(sheet) : AsApproved(Patched(sheet, request.batch)[i], original[i])
    BY <1>1, <2>2, RowLands
  <2> QED
    BY <1>1, <2>1, <2>3, <2>4, <2>5
<1>2. LaneInv /\ [Next]_vars =>
        [\A request \in Landed :
            /\ sheet' # sheet
            /\ Len(sheet) = Len(request.before)
            /\ \A i \in 1 .. Len(sheet) : AsApproved(sheet[i], request.before[i])
            => /\ Len(sheet') = Len(original)
               /\ \A i \in 1 .. Len(sheet') : AsApproved(sheet'[i], original[i])]_vars
  BY <1>1
<1> QED
  BY <1>2, LaneIsChecked, PTL DEF Spec, OnlyApprovedTransitions

-----------------------------------------------------------------------------
(* Delays and ranks.                                                         *)

LEMMA MinOfTwo ==
    ASSUME NEW a \in Nat, NEW b \in Nat
    PROVE  Min({a, b}) \in Nat /\ Min({a, b}) <= a /\ Min({a, b}) <= b
<1>1. \E x \in {a, b} : \A y \in {a, b} : x <= y
  OBVIOUS
<1>2. Min({a, b}) \in {a, b} /\ \A y \in {a, b} : Min({a, b}) <= y
  BY <1>1 DEF Min
<1> QED
  BY <1>2

LEMMA MaxDelayBounds ==
    /\ MaxDelay \in Nat /\ MatchedTtl <= MaxDelay /\ MissTtl <= MaxDelay
    /\ LastDelay["unavailable"] <= MaxDelay /\ LastDelay[STABLE] <= MaxDelay
<1> DEFINE u == LastDelay["unavailable"]
           s == LastDelay[STABLE]
           S == {u, s, MatchedTtl, MissTtl}
<1>1. u \in Nat /\ s \in Nat /\ MatchedTtl \in Nat /\ MissTtl \in Nat
  BY TitleAssumption DEF STABLE
<1> HIDE DEF u, s
<1>2. \E x \in S : \A y \in S : x >= y
  BY <1>1
<1>3. Max(S) \in S /\ \A y \in S : Max(S) >= y
  BY <1>2 DEF Max
<1>4. MaxDelay = Max(S)
  BY DEF MaxDelay, u, s
<1> QED
  BY <1>1, <1>3, <1>4 DEF u, s

LEMMA DelayType ==
    ASSUME NEW reason \in {"matched", "unavailable", STABLE}, NEW failures \in Nat
    PROVE  Delay(reason, failures) \in 0 .. MaxDelay
<1>1. CASE reason = "matched"
  BY <1>1, MaxDelayBounds, TitleAssumption DEF Delay
<1>2. CASE reason # "matched"
  <2> DEFINE step == IF failures = 0 THEN 1 ELSE Min({failures, 4})
  <2>1. step \in 1 .. 4
    <3>1. CASE failures = 0
      BY <3>1
    <3>2. CASE failures # 0
      <4>1. Min({failures, 4}) \in {failures, 4} /\ Min({failures, 4}) <= 4
        <5>1. \E x \in {failures, 4} : \A y \in {failures, 4} : x <= y
          OBVIOUS
        <5> QED
          BY <5>1 DEF Min
      <4> QED
        BY <3>2, <4>1
    <3> QED
      BY <3>1, <3>2
  <2> HIDE DEF step
  <2>2. Doubled[step] \in {1, 2, 4, 8}
    BY <2>1 DEF Doubled
  <2>3. FirstDelay[reason] \in Nat /\ LastDelay[reason] \in Nat
    BY <1>2, TitleAssumption DEF STABLE
  <2>4. FirstDelay[reason] * Doubled[step] \in Nat
    BY <2>2, <2>3
  <2>5. LastDelay[reason] <= MaxDelay
    BY <1>2, MaxDelayBounds DEF STABLE
  <2>6. Delay(reason, failures) = Min({LastDelay[reason], FirstDelay[reason] * Doubled[step]})
    BY <1>2 DEF Delay, step
  <2> QED
    BY <2>3, <2>4, <2>5, <2>6, MinOfTwo, MaxDelayBounds
<1> QED
  BY <1>1, <1>2

LEMMA TitlesCount == Cardinality(Titles) \in Nat /\ ThisRun = Cardinality(Titles) + 1
BY TitleAssumption, FS_CardinalityType DEF ThisRun

\* The values of some titles are no more than the titles.
LEMMA ValuesCount ==
    ASSUME NEW S \in SUBSET Titles, NEW f \in [S -> Nat]
    PROVE  LET V == {f[t] : t \in S}
           IN  IsFiniteSet(V) /\ Cardinality(V) \in Nat /\ Cardinality(V) <= Cardinality(S)
<1> DEFINE V == {f[t] : t \in S}
<1>1. IsFiniteSet(S)
  BY TitleAssumption, FS_Subset
<1>2. f \in Surjection(S, V)
  BY DEF Surjection
<1>3. IsFiniteSet(V) /\ Cardinality(V) <= Cardinality(S)
  BY <1>1, <1>2, FS_Surjection
<1> QED
  BY <1>3, FS_CardinalityType

LEMMA RankType ==
    ASSUME NEW V, IsFiniteSet(V), NEW value
    PROVE  Rank(V, value) \in Nat /\ Rank(V, value) <= Cardinality(V)
<1>1. {v \in V \ {0} : v <= value} \in SUBSET V
  OBVIOUS
<1> QED
  BY <1>1, FS_Subset, FS_CardinalityType DEF Rank

-----------------------------------------------------------------------------
(* Rows.                                                                     *)

LEMMA NoRowType == NoRow \in Rows /\ \A t \in Titles : Fresh(t) \in Rows
<1>1. 0 \in Ranks /\ 0 \in 0 .. MaxDelay /\ 0 \in 0 .. MaxStreak /\ "pending" \in Reasons
  BY TitleAssumption, TitlesCount, MaxDelayBounds DEF Reasons, Ranks
<1> QED
  BY <1>1 DEF NoRow, Fresh, Rows

LEMMA RecordedType ==
    ASSUME NEW rows \in [Titles -> Rows], NEW t \in Titles, NEW attempted \in BOOLEAN,
           NEW reason \in {"matched", "unavailable", STABLE, IGNORED_NO_ARTWORK}
    PROVE  Recorded(rows, t, reason, attempted) \in Rows
<1> DEFINE row == _register(rows, t)
           again == Min({row.streak + 1, MaxStreak})
           failures == IF reason = "matched" THEN 0
                       ELSE IF Group(row.reason) = Group(reason) THEN again ELSE Min({1, MaxStreak})
           due == Delay(Group(reason), failures)
<1>1. row \in Rows
  BY NoRowType DEF _register
<1>2. row.streak \in Nat
  BY <1>1 DEF Rows
<1>3. again \in 0 .. MaxStreak /\ Min({1, MaxStreak}) \in 0 .. MaxStreak
  BY <1>2, MinOfTwo, TitleAssumption
<1> HIDE DEF again
<1>4. failures \in 0 .. MaxStreak
  BY <1>3, TitleAssumption
<1> HIDE DEF row
<1> HIDE DEF failures
<1>5. Group(reason) \in {"matched", "unavailable", STABLE}
  BY DEF Group, STABLE, IGNORED_NO_ARTWORK
<1>6. due \in 0 .. MaxDelay
  BY <1>4, <1>5, DelayType
<1> HIDE DEF due
<1>7. reason \in Reasons /\ MatchedTtl \in 0 .. MaxDelay /\ 0 \in 0 .. MaxStreak /\ ThisRun \in Ranks
  BY MaxDelayBounds, TitleAssumption, TitlesCount DEF Reasons, Ranks
<1>8. [row EXCEPT !.reason = reason, !.streak = failures, !.due = due, !.last = ThisRun] \in Rows
  BY <1>1, <1>4, <1>6, <1>7 DEF Rows
<1>9. [row EXCEPT !.reason = reason, !.streak = 0, !.due = MatchedTtl] \in Rows
  BY <1>1, <1>7 DEF Rows
<1>10. [row EXCEPT !.reason = reason] \in Rows
  BY <1>1, <1>7 DEF Rows
<1> QED
  BY <1>8, <1>9, <1>10 DEF Recorded, row, failures, again, due

LEMMA GatheredType ==
    ASSUME TitleTypeOK
    PROVE  Gathered \in [Titles -> Rows]
<1>1. ASSUME NEW t \in Titles PROVE Pending(file[t]) \in Rows
  <2>1. file[t] \in Rows /\ "pending" \in Reasons /\ 0 \in 0 .. MaxDelay
    BY MaxDelayBounds DEF TitleTypeOK, Reasons
  <2> QED
    BY <2>1 DEF Pending, Rows
<1>2. ASSUME NEW t \in Titles
      PROVE  /\ file[t] \in Rows /\ NoRow \in Rows /\ _register(file, t) \in Rows
             /\ Recorded(file, t, IGNORED_NO_ARTWORK, FALSE) \in Rows
             /\ Recorded(file, t, "matched", FALSE) \in Rows
  BY NoRowType, RecordedType DEF TitleTypeOK, _register
<1> QED
  BY <1>1, <1>2 DEF Gathered

LEMMA RankedType ==
    ASSUME NEW rows \in [Titles -> Rows]
    PROVE  Ranked(rows) \in [Titles -> Rows]
<1> DEFINE lasts == {rows[u].last : u \in Titles}
           orders == {rows[u].order : u \in Titles}
<1>1. IsFiniteSet(lasts) /\ Cardinality(lasts) \in Nat /\ Cardinality(lasts) <= Cardinality(Titles)
  <2> DEFINE f == [u \in Titles |-> rows[u].last]
  <2>1. f \in [Titles -> Nat] /\ lasts = {f[u] : u \in Titles}
    BY TitlesCount DEF Rows, Ranks
  <2> QED
    BY <2>1, ValuesCount
<1>2. IsFiniteSet(orders) /\ Cardinality(orders) \in Nat /\ Cardinality(orders) <= Cardinality(Titles)
  <2> DEFINE f == [u \in Titles |-> rows[u].order]
  <2>1. f \in [Titles -> Nat] /\ orders = {f[u] : u \in Titles}
    BY TitlesCount DEF Rows, Ranks
  <2> QED
    BY <2>1, ValuesCount
<1> HIDE DEF lasts, orders
<1>3. ASSUME NEW t \in Titles
      PROVE  [rows[t] EXCEPT !.last = Rank(lasts, @), !.order = Rank(orders, @)] \in Rows
  <2>1. Rank(lasts, rows[t].last) \in Ranks /\ Rank(orders, rows[t].order) \in Ranks
    BY <1>1, <1>2, RankType, TitlesCount DEF Ranks
  <2>2. rows[t] \in Rows
    OBVIOUS
  <2> QED
    BY <2>1, <2>2 DEF Rows
<1> QED
  BY <1>3 DEF Ranked, lasts, orders

\* A batch without repetition, and the titles it does not select.
LEMMA SelectedType ==
    ASSUME NEW rows \in [Titles -> Rows], NEW n \in Nat, NEW batch \in [1 .. n -> Titles],
           \A i, j \in 1 .. n : i # j => batch[i] # batch[j]
    PROVE  Selected(rows, batch) \in [Titles -> Rows]
<1> DEFINE B == ToSet(batch)
           others == Titles \ B
           known == {rows[t].order : t \in others}
           place(t) == CHOOSE i \in 1 .. Len(batch) : batch[i] = t
<1>1. batch \in Seq(Titles) /\ Len(batch) = n /\ DOMAIN batch = 1 .. n
  OBVIOUS
<1>2. B \in SUBSET Titles /\ B = {batch[i] : i \in 1 .. n}
  BY <1>1 DEF ToSet
<1>3. Cardinality(B) = n
  <2> HIDE DEF B
  <2>1. batch \in [1 .. n -> B]
    BY <1>2
  <2>2. batch \in Injection(1 .. n, B)
    <3>1. \A i, j \in 1 .. n : batch[i] = batch[j] => i = j
      OBVIOUS
    <3> QED
      BY <2>1, <3>1 DEF Injection, IsInjective
  <2>3. batch \in Surjection(1 .. n, B)
    BY <1>2, <2>1 DEF Surjection
  <2> QED
    BY <2>2, <2>3, FS_CountingElements DEF ExistsBijection, Bijection
<1>4. Cardinality(others) = Cardinality(Titles) - n
  <2>1. Titles \cap B = B
    BY <1>2
  <2> QED
    BY <1>3, <2>1, TitleAssumption, FS_Difference
<1>5. IsFiniteSet(known) /\ Cardinality(known) \in Nat /\ Cardinality(known) <= Cardinality(others)
  <2> DEFINE f == [u \in others |-> rows[u].order]
  <2>1. others \in SUBSET Titles
    OBVIOUS
  <2>2. f \in [others -> Nat] /\ known = {f[u] : u \in others}
    BY TitlesCount DEF Rows, Ranks
  <2> HIDE DEF others, f, known
  <2> QED
    BY <2>1, <2>2, ValuesCount
<1>6. Cardinality(known \ {0}) \in Nat /\ Cardinality(known \ {0}) <= Cardinality(known)
  BY <1>5, FS_Subset, FS_CardinalityType
<1>7. ASSUME NEW t \in B PROVE place(t) \in 1 .. n
  BY <1>1, <1>2
<1> HIDE DEF place, known
<1>8. ASSUME NEW t \in Titles
      PROVE  (IF t \in B THEN Cardinality(known \ {0}) + place(t) ELSE Rank(known, rows[t].order)) \in Ranks
  <2>1. CASE t \in B
    BY <1>4, <1>5, <1>6, <1>7, <2>1, TitlesCount DEF Ranks
  <2>2. CASE t \notin B
    BY <1>4, <1>5, <2>2, RankType, TitlesCount DEF Ranks
  <2> QED
    BY <2>1, <2>2
<1> HIDE DEF B
<1>9. ASSUME NEW t \in Titles
      PROVE  [rows[t] EXCEPT !.order = IF t \in B THEN Cardinality(known \ {0}) + place(t)
                                       ELSE Rank(known, @)] \in Rows
  BY <1>8 DEF Rows
<1> QED
  BY <1>9 DEF Selected, known, place, B

-----------------------------------------------------------------------------
(* What the caches say.                                                      *)

LEMMA CacheTypes ==
    /\ NoCache \in Caches
    /\ \A c \in Caches : Confirmed(c) \in Caches /\ [c EXCEPT !.stop = "none"] \in Caches
BY MaxDelayBounds DEF NoCache, Caches, Confirmed

LEMMA EnrichedType ==
    ASSUME NEW t \in Titles, cache[t] \in Caches, NEW answer \in {"matched", STABLE, "unavailable"}
    PROVE  Enriched(t, answer) \in Caches /\ Enriched(t, answer).kind # "none"
<1>1. MatchedTtl \in 0 .. MaxDelay /\ MissTtl \in 0 .. MaxDelay
  BY MaxDelayBounds, TitleAssumption
<1>2. Enriched(t, answer) \in Caches
  BY <1>1 DEF Enriched, Caches, STABLE
<1>3. Enriched(t, answer).kind # "none"
  BY DEF Enriched, Caches, STABLE
<1> QED
  BY <1>2, <1>3

\* A cache that holds nothing is neither fresh nor a stop proof.
EmptyCaches ==
    \A t \in Titles : cache[t].kind = "none" => cache[t].fresh = 0 /\ cache[t].stop = "none"

\* A stop proof is unconfirmed while the evidence it waits for is asked about.
StopsAwaited ==
    \A t \in Titles : cache[t].stop = "unconfirmed" =>
        t \in torn \/ (run.phase = "probe" /\ t = Head(run.todo) /\ Ignored(t))

\* The inductive invariant.
TitleIInv ==
    /\ TitleTypeOK
    /\ run.phase = "probe" => run.todo # <<>>
    /\ EmptyCaches
    /\ StopsAwaited

-----------------------------------------------------------------------------
(* The steps of a run.                                                       *)

Runs == [phase : {"idle", "ask", "probe"}, rows : [Titles -> Rows], todo : Seq(Titles)]

LEMMA NoRunType == NoRun \in Runs /\ NoRun.phase = "idle"
BY NoRowType DEF NoRun, Runs

LEMMA RecordStep ==
    ASSUME run \in Runs, run.todo # <<>>, NEW t \in Titles, NEW attempted \in BOOLEAN,
           NEW reason \in {"matched", "unavailable", STABLE, IGNORED_NO_ARTWORK},
           Record(t, reason, attempted)
    PROVE  run' \in Runs /\ run'.phase = "ask"
<1>1. run.rows \in [Titles -> Rows] /\ Tail(run.todo) \in Seq(Titles)
  BY DEF Runs
<1>2. Recorded(run.rows, t, reason, attempted) \in Rows
  BY <1>1, RecordedType
<1> DEFINE rows == [run.rows EXCEPT ![t] = Recorded(run.rows, t, reason, attempted)]
<1>3. rows \in [Titles -> Rows]
  BY <1>1, <1>2
<1>4. run' = [phase |-> "ask", rows |-> rows, todo |-> Tail(run.todo)]
  BY DEF Record
<1> HIDE DEF rows
<1> QED
  BY <1>1, <1>3, <1>4 DEF Runs

LEMMA StartStep ==
    ASSUME TitleIInv, Start
    PROVE  TitleIInv'
<1>1. PICK batch : /\ run' = [phase |-> "ask", rows |-> Selected(Gathered, batch), todo |-> batch]
                   /\ \E n \in Nat : batch \in [1 .. n -> Titles]
                                    /\ \A i, j \in 1 .. n : i # j => batch[i] # batch[j]
  <2> DEFINE due == {t \in Titles : /\ Candidate(t)
                                   /\ Gathered[t].reason # IGNORED_NO_ARTWORK
                                   /\ Gathered[t].due = 0}
  <2>1. PICK s \in Queued(Gathered, due) :
           LET batch == SubSeq(s, 1, Min({TitleLimit, Len(s)}))
           IN  run' = [phase |-> "ask", rows |-> Selected(Gathered, batch), todo |-> batch]
    BY DEF Start
  <2>2. due \in SUBSET Titles
    OBVIOUS
  <2> HIDE DEF due
  <2> DEFINE m == Cardinality(due)
             n == Min({TitleLimit, Len(s)})
             batch == SubSeq(s, 1, n)
  <2>3. m \in Nat
    BY <2>2, TitleAssumption, FS_Subset, FS_CardinalityType
  <2>4. s \in [1 .. m -> due] /\ \A i, j \in 1 .. m : i # j => s[i] # s[j]
    BY <2>1 DEF Queued, SetToSeqs
  <2> HIDE DEF m
  <2>5. s \in Seq(Titles) /\ Len(s) = m
    BY <2>2, <2>3, <2>4
  <2>6. n \in Nat /\ n <= m
    BY <2>3, <2>5, TitleAssumption, MinOfTwo
  <2> HIDE DEF n
  <2>7. batch = [i \in 1 .. n |-> s[i]]
    BY <2>5, <2>6
  <2>8. batch \in [1 .. n -> Titles] /\ \A i, j \in 1 .. n : i # j => batch[i] # batch[j]
    <3>1. \A i \in 1 .. n : i \in 1 .. m
      BY <2>3, <2>6
    <3>2. \A i \in 1 .. n : batch[i] = s[i] /\ s[i] \in Titles
      BY <2>2, <2>4, <2>7, <3>1
    <3>3. batch \in [1 .. n -> Titles]
      BY <2>7, <3>2
    <3>4. \A i, j \in 1 .. n : i # j => batch[i] # batch[j]
      BY <2>4, <3>1, <3>2
    <3> QED
      BY <3>3, <3>4
  <2>9. run' = [phase |-> "ask", rows |-> Selected(Gathered, batch), todo |-> batch]
    BY <2>1 DEF n
  <2> HIDE DEF batch
  <2> QED
    BY <2>6, <2>8, <2>9
<1>2. PICK n \in Nat : batch \in [1 .. n -> Titles] /\ \A i, j \in 1 .. n : i # j => batch[i] # batch[j]
  BY <1>1
<1>3. Gathered \in [Titles -> Rows]
  BY GatheredType DEF TitleIInv
<1>4. Selected(Gathered, batch) \in [Titles -> Rows] /\ batch \in Seq(Titles)
  BY <1>2, <1>3, SelectedType
<1>5. run' \in Runs /\ run'.phase = "ask"
  BY <1>1, <1>4 DEF Runs
<1>6. run.phase = "idle" /\ UNCHANGED <<source, cache, file, torn, upsets>>
  BY DEF Start
<1>7. TitleTypeOK'
  BY <1>5, <1>6 DEF TitleIInv, TitleTypeOK, Runs
<1>8. EmptyCaches' /\ StopsAwaited'
  BY <1>6 DEF TitleIInv, EmptyCaches, StopsAwaited
<1> QED
  BY <1>5, <1>7, <1>8 DEF TitleIInv

LEMMA ReuseStep ==
    ASSUME TitleIInv, NEW t \in Titles, Reuse(t)
    PROVE  TitleIInv'
<1> DEFINE reason == IF cache[t].kind # "matched" THEN cache[t].kind ELSE "unavailable"
<1>1. reason \in {"matched", "unavailable", STABLE, IGNORED_NO_ARTWORK}
  BY DEF TitleIInv, TitleTypeOK, EmptyCaches, Caches, Reuse, Hit, Ignored
<1>2. run \in Runs /\ run.todo # <<>> /\ run.phase = "ask" /\ Record(t, reason, FALSE)
      /\ UNCHANGED <<source, cache, file, torn, upsets>>
  BY DEF TitleIInv, TitleTypeOK, Runs, Reuse, NextTitle
<1> HIDE DEF reason
<1>3. run' \in Runs /\ run'.phase = "ask"
  BY <1>1, <1>2, RecordStep
<1>4. TitleTypeOK'
  BY <1>2, <1>3 DEF TitleIInv, TitleTypeOK, Runs
<1>5. EmptyCaches' /\ StopsAwaited'
  BY <1>2 DEF TitleIInv, EmptyCaches, StopsAwaited
<1> QED
  BY <1>3, <1>4, <1>5 DEF TitleIInv

LEMMA RefuseStep ==
    ASSUME TitleIInv, NEW t \in Titles, Refuse(t)
    PROVE  TitleIInv'
<1> DEFINE row == Recorded(run.rows, t, "unavailable", FALSE)
           rows == [run.rows EXCEPT ![t] = row]
<1>1. /\ run \in Runs /\ run.phase = "ask"
      /\ run' = [phase |-> "ask", rows |-> rows, todo |-> <<>>]
      /\ UNCHANGED <<source, cache, file, torn, upsets>>
  BY DEF TitleIInv, TitleTypeOK, Runs, Refuse, NextTitle
<1>2. row \in Rows
  BY <1>1, RecordedType DEF Runs
<1> HIDE DEF row
<1>3. rows \in [Titles -> Rows]
  BY <1>1, <1>2 DEF Runs
<1> HIDE DEF rows
<1>4. run' \in Runs /\ run'.phase = "ask"
  BY <1>1, <1>3 DEF Runs
<1>5. TitleTypeOK'
  BY <1>1, <1>4 DEF TitleIInv, TitleTypeOK, Runs
<1>6. EmptyCaches' /\ StopsAwaited'
  BY <1>1 DEF TitleIInv, EmptyCaches, StopsAwaited
<1> QED
  BY <1>4, <1>5, <1>6 DEF TitleIInv

LEMMA AskStep ==
    ASSUME TitleIInv, NEW t \in Titles, Ask(t)
    PROVE  TitleIInv'
<1>1. PICK answer \in {"matched", STABLE, "unavailable"} :
         /\ cache' = [cache EXCEPT ![t] = Enriched(t, answer)]
         /\ IF answer = STABLE THEN run' = [run EXCEPT !.phase = "probe"] ELSE Record(t, answer, TRUE)
  BY DEF Ask
<1>2. /\ run \in Runs /\ run.phase = "ask" /\ run.todo # <<>> /\ Head(run.todo) = t
      /\ UNCHANGED <<source, file, torn, upsets>>
      /\ cache \in [Titles -> Caches]
  BY DEF TitleIInv, TitleTypeOK, Runs, Ask, NextTitle
<1>3. Enriched(t, answer) \in Caches
  BY <1>2, EnrichedType
<1>4. cache' \in [Titles -> Caches] /\ cache'[t] = Enriched(t, answer)
      /\ \A u \in Titles \ {t} : cache'[u] = cache[u]
  BY <1>1, <1>2, <1>3
<1>5. run' \in Runs /\ run'.phase \in {"ask", "probe"} /\ (run'.phase = "probe" <=> answer = STABLE)
      /\ (answer = STABLE => run'.todo = run.todo)
  <2>1. CASE answer = STABLE
    BY <1>1, <1>2, <2>1 DEF Runs
  <2>2. CASE answer # STABLE
    BY <1>1, <1>2, <2>2, RecordStep
  <2> QED
    BY <2>1, <2>2
<1>6. TitleTypeOK'
  BY <1>2, <1>4, <1>5 DEF TitleIInv, TitleTypeOK, Runs
<1>7. Enriched(t, answer).kind # "none"
  BY <1>2, EnrichedType
<1>8. EmptyCaches'
  BY <1>4, <1>7 DEF TitleIInv, EmptyCaches
<1>9. \A u \in Titles : cache[u].stop = "unconfirmed" => u \in torn
  BY <1>2 DEF TitleIInv, StopsAwaited
<1>10. CASE answer = STABLE
  <2>1. Enriched(t, answer).stop = "unconfirmed" => ~source[t].artwork
    BY <1>10 DEF Enriched, STABLE
  <2>2. Enriched(t, answer).kind = STABLE
    BY <1>10 DEF Enriched, STABLE
  <2>3. cache'[t].stop = "unconfirmed" => Ignored(t)'
    BY <1>2, <1>4, <2>1, <2>2 DEF Ignored, STABLE
  <2>4. StopsAwaited'
    BY <1>2, <1>4, <1>5, <1>9, <1>10, <2>3 DEF StopsAwaited
  <2> QED
    BY <1>2, <1>5, <1>6, <1>8, <1>10, <2>4 DEF TitleIInv
<1>11. CASE answer # STABLE
  <2>1. Enriched(t, answer).stop = cache[t].stop
    BY <1>2, <1>11 DEF Enriched, Caches
  <2>2. StopsAwaited'
    BY <1>2, <1>4, <1>9, <2>1 DEF StopsAwaited
  <2> QED
    BY <1>5, <1>6, <1>8, <1>11, <2>2 DEF TitleIInv
<1> QED
  BY <1>10, <1>11

\* A probe writes the cache of the title it is about, and its row.
LEMMA ProbeStep ==
    ASSUME TitleIInv, Probe
    PROVE  TitleIInv'
<1> DEFINE t == Head(run.todo)
<1>1. /\ run \in Runs /\ run.phase = "probe" /\ run.todo # <<>> /\ t \in Titles
      /\ UNCHANGED <<source, file>> /\ cache \in [Titles -> Caches] /\ cache[t] \in Caches
      /\ upsets \in 0 .. MaxUpsets /\ torn \in SUBSET Titles
  BY DEF TitleIInv, TitleTypeOK, Runs, Probe
<1>2. \A u \in Titles \ {t} : cache[u].stop = "unconfirmed" => u \in torn
  BY <1>1 DEF TitleIInv, StopsAwaited
<1> SUFFICES ASSUME NEW entry \in Caches, cache' = [cache EXCEPT ![t] = entry],
                    entry.kind = "none" => entry.fresh = 0 /\ entry.stop = "none",
                    run' \in Runs, run'.phase = "ask",
                    \/ entry.stop # "unconfirmed" /\ UNCHANGED <<torn, upsets>>
                    \/ torn' = torn \cup {t} /\ upsets' = upsets + 1 /\ upsets < MaxUpsets
             PROVE  TitleIInv'
  <2>1. \A c \in Caches : /\ Confirmed(c) \in Caches /\ Confirmed(c).stop # "unconfirmed"
                          /\ Confirmed(c).kind = c.kind /\ Confirmed(c).fresh = c.fresh
                          /\ (c.stop = "none" => Confirmed(c).stop = "none")
    BY CacheTypes DEF Confirmed, Caches
  <2>2. \A c \in Caches : /\ [c EXCEPT !.stop = "none"] \in Caches /\ [c EXCEPT !.stop = "none"].stop = "none"
                          /\ [c EXCEPT !.stop = "none"].kind = c.kind
                          /\ [c EXCEPT !.stop = "none"].fresh = c.fresh
    BY CacheTypes DEF Caches
  <2>3. cache[t].kind = "none" => cache[t].fresh = 0 /\ cache[t].stop = "none"
    BY <1>1 DEF TitleIInv, EmptyCaches
  <2> DEFINE Writes(entry) ==
               /\ entry \in Caches /\ cache' = [cache EXCEPT ![t] = entry]
               /\ entry.kind = "none" => entry.fresh = 0 /\ entry.stop = "none"
               /\ run' \in Runs /\ run'.phase = "ask"
               /\ \/ entry.stop # "unconfirmed" /\ UNCHANGED <<torn, upsets>>
                  \/ torn' = torn \cup {t} /\ upsets' = upsets + 1 /\ upsets < MaxUpsets
  <2>4. ASSUME Record(t, IF Ignored(t) THEN IGNORED_NO_ARTWORK ELSE STABLE, TRUE),
               cache' = [cache EXCEPT ![t] = Confirmed(@)], UNCHANGED <<torn, upsets>>
        PROVE  Writes(Confirmed(cache[t]))
    <3>1. run' \in Runs /\ run'.phase = "ask"
      BY <1>1, <2>4, RecordStep
    <3> QED
      BY <1>1, <2>1, <2>3, <2>4, <3>1
  <2>5. ASSUME NEW answer \in {"matched", STABLE, "unavailable"},
               LET rows == [run.rows EXCEPT ![t] = Fresh(t)]
                   entry == Enriched(t, answer)
                   reason == IF answer = STABLE /\ ~source[t].artwork THEN IGNORED_NO_ARTWORK ELSE answer
               IN  /\ cache' = [cache EXCEPT ![t] = IF answer = STABLE THEN Confirmed(entry)
                                                    ELSE [entry EXCEPT !.stop = "none"]]
                   /\ run' = [phase |-> "ask", rows |-> [rows EXCEPT ![t] = Recorded(rows, t, reason, TRUE)],
                              todo |-> Tail(run.todo)]
                   /\ UNCHANGED <<torn, upsets>>
        PROVE  Writes(IF answer = STABLE THEN Confirmed(Enriched(t, answer))
                    ELSE [Enriched(t, answer) EXCEPT !.stop = "none"])
    <3> DEFINE rows == [run.rows EXCEPT ![t] = Fresh(t)]
               entry == Enriched(t, answer)
               reason == IF answer = STABLE /\ ~source[t].artwork THEN IGNORED_NO_ARTWORK ELSE answer
               result == IF answer = STABLE THEN Confirmed(entry) ELSE [entry EXCEPT !.stop = "none"]
    <3>1. entry \in Caches /\ entry.kind # "none"
      BY <1>1, EnrichedType
    <3>2. rows \in [Titles -> Rows] /\ Tail(run.todo) \in Seq(Titles)
      BY <1>1, NoRowType DEF Runs
    <3> HIDE DEF rows
    <3>3. Recorded(rows, t, reason, TRUE) \in Rows
      BY <1>1, <3>2, RecordedType
    <3> HIDE DEF reason
    <3> DEFINE updated == [rows EXCEPT ![t] = Recorded(rows, t, reason, TRUE)]
    <3>4. updated \in [Titles -> Rows]
      BY <3>2, <3>3
    <3>5. run' = [phase |-> "ask", rows |-> updated, todo |-> Tail(run.todo)]
      BY <2>5 DEF rows, reason
    <3> HIDE DEF updated
    <3>6. run' \in Runs /\ run'.phase = "ask"
      BY <3>2, <3>4, <3>5 DEF Runs
    <3>7. cache' = [cache EXCEPT ![t] = result] /\ UNCHANGED <<torn, upsets>>
      BY <2>5
    <3> HIDE DEF entry
    <3>8. result \in Caches /\ result.kind # "none" /\ result.stop # "unconfirmed"
      BY <2>1, <2>2, <3>1
    <3> HIDE DEF result
    <3>9. Writes(result)
      BY <3>6, <3>7, <3>8
    <3> QED
      BY <3>9 DEF result, entry
  <2>6. ASSUME Record(t, IF Ignored(t) THEN "unavailable" ELSE STABLE, TRUE),
               cache' = [cache EXCEPT ![t].stop = "none"], UNCHANGED <<torn, upsets>>
        PROVE  Writes([cache[t] EXCEPT !.stop = "none"])
    <3>1. run' \in Runs /\ run'.phase = "ask"
      BY <1>1, <2>6, RecordStep
    <3> QED
      BY <1>1, <2>2, <2>3, <2>6, <3>1
  <2>7. ASSUME Record(t, IF Ignored(t) THEN "unavailable" ELSE STABLE, TRUE),
               upsets < MaxUpsets, upsets' = upsets + 1, torn' = torn \cup {t}, UNCHANGED cache
        PROVE  Writes(cache[t])
    <3>1. run' \in Runs /\ run'.phase = "ask"
      BY <1>1, <2>7, RecordStep
    <3>2. cache' = [cache EXCEPT ![t] = cache[t]]
      BY <1>1, <2>7
    <3> QED
      BY <1>1, <2>3, <2>7, <3>1, <3>2
  <2>8. \E entry : Writes(entry)
    <3> HIDE DEF Writes
    <3> QED
      BY <2>4, <2>5, <2>6, <2>7 DEF Probe
  <2> QED
    BY <2>8
<1> HIDE DEF t
<1>3. cache' \in [Titles -> Caches] /\ cache'[t] = entry /\ \A u \in Titles \ {t} : cache'[u] = cache[u]
  BY <1>1
<1>4. torn' \in SUBSET Titles /\ upsets' \in 0 .. MaxUpsets
  BY <1>1, TitleAssumption
<1>5. TitleTypeOK'
  BY <1>1, <1>3, <1>4 DEF TitleIInv, TitleTypeOK, Runs
<1>6. EmptyCaches'
  BY <1>3 DEF TitleIInv, EmptyCaches
<1>7. StopsAwaited'
  BY <1>2, <1>3 DEF StopsAwaited
<1> QED
  BY <1>5, <1>6, <1>7 DEF TitleIInv

LEMMA FinishStep ==
    ASSUME TitleIInv, Finish
    PROVE  TitleIInv'
<1>1. run' \in Runs /\ run'.phase = "idle" /\ run.phase = "ask" /\ run.rows \in [Titles -> Rows]
      /\ UNCHANGED <<source, cache, torn>>
  BY NoRunType DEF Finish, TitleIInv, TitleTypeOK
<1>2. file' \in [Titles -> Rows] /\ upsets' \in 0 .. MaxUpsets
  BY <1>1, RankedType, TitleAssumption DEF Finish, TitleIInv, TitleTypeOK
<1>3. TitleTypeOK'
  BY <1>1, <1>2 DEF TitleIInv, TitleTypeOK, Runs
<1>4. EmptyCaches' /\ StopsAwaited'
  BY <1>1 DEF TitleIInv, EmptyCaches, StopsAwaited
<1> QED
  BY <1>1, <1>3, <1>4 DEF TitleIInv

LEMMA KillRunStep ==
    ASSUME TitleIInv, KillRun
    PROVE  TitleIInv'
<1> DEFINE awaited == {t \in Titles : run.phase = "probe" /\ t = Head(run.todo) /\ Ignored(t)}
<1>1. run' \in Runs /\ run'.phase = "idle" /\ torn' = torn \cup awaited /\ UNCHANGED <<source, cache, file>>
  BY NoRunType DEF KillRun
<1>2. upsets' \in 0 .. MaxUpsets /\ torn' \in SUBSET Titles
  BY <1>1, TitleAssumption DEF KillRun, TitleIInv, TitleTypeOK
<1>3. TitleTypeOK'
  BY <1>1, <1>2 DEF TitleIInv, TitleTypeOK, Runs
<1>4. EmptyCaches'
  BY <1>1 DEF TitleIInv, EmptyCaches
<1>5. \A t \in Titles : cache[t].stop = "unconfirmed" => t \in torn \cup awaited
  BY DEF TitleIInv, StopsAwaited
<1>6. StopsAwaited'
  BY <1>1, <1>5 DEF StopsAwaited
<1> QED
  BY <1>1, <1>3, <1>4, <1>6 DEF TitleIInv

-----------------------------------------------------------------------------
(* The steps between runs.                                                   *)

LEMMA DayStep ==
    ASSUME TitleIInv, Day
    PROVE  TitleIInv'
<1> DEFINE less(n) == IF n = 0 THEN 0 ELSE n - 1
           older(c) == [c EXCEPT !.fresh = less(@)]
           nearer(row) == [row EXCEPT !.due = less(@)]
<1>1. /\ file' = [t \in Titles |-> nearer(file[t])] /\ cache' = [t \in Titles |-> older(cache[t])]
      /\ run.phase = "idle" /\ UNCHANGED <<source, run, torn, upsets>>
      /\ file \in [Titles -> Rows] /\ cache \in [Titles -> Caches]
  BY DEF Day, TitleIInv, TitleTypeOK
<1>2. \A n \in 0 .. MaxDelay : less(n) \in 0 .. MaxDelay
  BY MaxDelayBounds
<1>3. less(0) = 0
  OBVIOUS
<1> HIDE DEF less
<1>4. \A c \in Caches : /\ older(c) \in Caches /\ older(c).kind = c.kind
                        /\ older(c).stop = c.stop /\ (c.fresh = 0 => older(c).fresh = 0)
  BY <1>2, <1>3 DEF Caches
<1>5. \A row \in Rows : nearer(row) \in Rows
  BY <1>2 DEF Rows
<1> HIDE DEF older, nearer
<1>6. file' \in [Titles -> Rows] /\ cache' \in [Titles -> Caches]
  BY <1>1, <1>4, <1>5
<1>7. \A t \in Titles : /\ cache'[t].kind = cache[t].kind /\ cache'[t].stop = cache[t].stop
                        /\ (cache[t].fresh = 0 => cache'[t].fresh = 0)
  BY <1>1, <1>4
<1>8. TitleTypeOK'
  BY <1>1, <1>6 DEF TitleIInv, TitleTypeOK
<1>9. EmptyCaches'
  BY <1>7 DEF TitleIInv, EmptyCaches
<1>10. StopsAwaited'
  BY <1>1, <1>7 DEF TitleIInv, StopsAwaited
<1> QED
  BY <1>1, <1>8, <1>9, <1>10 DEF TitleIInv

LEMMA BetweenRunsStep ==
    ASSUME TitleIInv, BetweenRuns
    PROVE  TitleIInv'
<1>1. PICK t \in Titles : Elsewhere(t) \/ Change(t) \/ Evict(t)
  BY DEF BetweenRuns
<1>2. /\ run.phase = "idle" /\ upsets' = upsets + 1 /\ upsets < MaxUpsets
      /\ cache \in [Titles -> Caches] /\ cache[t] \in Caches
      /\ upsets \in 0 .. MaxUpsets /\ torn \in SUBSET Titles
      /\ \A u \in Titles : cache[u].stop = "unconfirmed" => u \in torn
  BY DEF BetweenRuns, TitleIInv, TitleTypeOK, StopsAwaited
<1> SUFFICES ASSUME NEW entry \in Caches, cache' = [cache EXCEPT ![t] = entry], entry.stop # "unconfirmed",
                    entry.kind = "none" => entry.fresh = 0 /\ entry.stop = "none",
                    source' \in [Titles -> [listed : BOOLEAN, artwork : BOOLEAN]],
                    file' \in [Titles -> Rows], UNCHANGED run, torn' \in {torn, torn \ {t}}
             PROVE  TitleIInv'
  <2> DEFINE Writes(entry) ==
               /\ entry \in Caches /\ cache' = [cache EXCEPT ![t] = entry] /\ entry.stop # "unconfirmed"
               /\ entry.kind = "none" => entry.fresh = 0 /\ entry.stop = "none"
               /\ source' \in [Titles -> [listed : BOOLEAN, artwork : BOOLEAN]]
               /\ file' \in [Titles -> Rows] /\ UNCHANGED run /\ torn' \in {torn, torn \ {t}}
  <2>1. source \in [Titles -> [listed : BOOLEAN, artwork : BOOLEAN]] /\ file \in [Titles -> Rows]
    BY DEF TitleIInv, TitleTypeOK
  <2>2. CASE Elsewhere(t)
    <3>1. PICK answer \in {"matched", STABLE, "unavailable"} :
             cache' = [cache EXCEPT ![t] = Confirmed(Enriched(t, answer))]
      BY <2>2 DEF Elsewhere
    <3>2. Enriched(t, answer) \in Caches /\ Enriched(t, answer).kind # "none"
      BY <1>2, EnrichedType
    <3>3. \A c \in Caches : Confirmed(c) \in Caches /\ Confirmed(c).stop # "unconfirmed" /\ Confirmed(c).kind = c.kind
      BY CacheTypes DEF Confirmed, Caches
    <3>4. Writes(Confirmed(Enriched(t, answer)))
      BY <2>1, <2>2, <3>1, <3>2, <3>3 DEF Elsewhere
    <3> QED
      BY <3>4
  <2>3. CASE Change(t)
    <3>1. PICK kept \in {NoCache} \cup ({cache[t]} \cap {c \in Caches : c.kind = "matched"}) :
             cache' = [cache EXCEPT ![t] = [kept EXCEPT !.stop = "none"]]
      BY <2>3 DEF Change
    <3> DEFINE entry == [kept EXCEPT !.stop = "none"]
    <3>2. /\ entry \in Caches /\ entry.stop = "none" /\ (entry.kind = "none" => entry.fresh = 0)
      <4>1. CASE kept = NoCache
        BY <4>1, CacheTypes DEF NoCache
      <4>2. CASE kept # NoCache
        <5>1. kept \in Caches /\ kept.kind = "matched"
          BY <4>2
        <5>2. entry.stop = "none" /\ entry.kind = "matched"
          BY <5>1 DEF Caches
        <5> QED
          BY <5>1, <5>2, CacheTypes
      <4> QED
        BY <4>1, <4>2
    <3>3. source' \in [Titles -> [listed : BOOLEAN, artwork : BOOLEAN]]
      BY <2>1, <2>3 DEF Change
    <3>4. file' \in [Titles -> Rows]
      BY <2>1, <2>3, NoRowType DEF Change
    <3>5. UNCHANGED run /\ torn' \in {torn, torn \ {t}}
      BY <2>3 DEF Change
    <3> HIDE DEF entry
    <3>6. Writes(entry)
      BY <3>1, <3>2, <3>3, <3>4, <3>5 DEF entry
    <3> QED
      BY <3>6
  <2>4. CASE Evict(t)
    <3>1. Writes(NoCache)
      BY <2>1, <2>4, CacheTypes DEF Evict, NoCache
    <3> QED
      BY <3>1
  <2> QED
    BY <1>1, <2>2, <2>3, <2>4
<1>3. cache' \in [Titles -> Caches] /\ cache'[t] = entry /\ \A u \in Titles \ {t} : cache'[u] = cache[u]
  BY <1>2
<1>4. torn' \in SUBSET Titles /\ upsets' \in 0 .. MaxUpsets
  BY <1>2, TitleAssumption
<1>5. TitleTypeOK'
  BY <1>3, <1>4 DEF TitleIInv, TitleTypeOK
<1>6. EmptyCaches'
  BY <1>3 DEF TitleIInv, EmptyCaches
<1>7. StopsAwaited'
  BY <1>2, <1>3 DEF StopsAwaited
<1> QED
  BY <1>2, <1>5, <1>6, <1>7 DEF TitleIInv

-----------------------------------------------------------------------------
(* The invariant.                                                            *)

LEMMA TitleInitInv == TitleInit => TitleIInv
<1> SUFFICES ASSUME TitleInit PROVE TitleIInv
  OBVIOUS
<1>1. file \in [Titles -> Rows] /\ cache \in [Titles -> Caches] /\ run \in Runs /\ run.phase = "idle"
  BY NoRowType, CacheTypes, NoRunType DEF TitleInit
<1>2. source \in [Titles -> [listed : BOOLEAN, artwork : BOOLEAN]] /\ upsets \in 0 .. MaxUpsets /\ torn = {}
  BY TitleAssumption DEF TitleInit
<1>3. \A t \in Titles : cache[t] = NoCache
  BY DEF TitleInit
<1> QED
  BY <1>1, <1>2, <1>3 DEF TitleIInv, TitleTypeOK, Runs, EmptyCaches, StopsAwaited, NoCache

LEMMA TitleNextInv == TitleIInv /\ [TitleNext]_titleVars => TitleIInv'
<1> SUFFICES ASSUME TitleIInv, [TitleNext]_titleVars PROVE TitleIInv'
  OBVIOUS
<1>1. CASE TitleNext
  BY <1>1, StartStep, ProbeStep, FinishStep, KillRunStep, DayStep, BetweenRunsStep, ReuseStep,
     RefuseStep, AskStep
     DEF TitleNext
<1>2. CASE UNCHANGED titleVars
  BY <1>2 DEF titleVars, TitleIInv, TitleTypeOK, EmptyCaches, StopsAwaited, Ignored
<1> QED
  BY <1>1, <1>2

\* A stop proof outlives the run that wrote it only if the evidence it waited for did not
\* fail, or the run was killed or could not write: for any titles, delays, budgets and any
\* number of upsets (backfill_release_dates, enrich, reopen_ignored).
THEOREM StopProofsAreConfirmed == TitleSpec => []StopInv
<1>1. TitleIInv => StopInv
  BY DEF TitleIInv, StopInv, StopsAreConfirmed, StopsAwaited
<1> QED
  BY <1>1, TitleInitInv, TitleNextInv, PTL DEF TitleSpec

-----------------------------------------------------------------------------
(* The evidence of a row.                                                    *)

Evidence ==
    {r \in [candidates : Lists, route : {"explicit", "implicit", "two"}, alerts : BOOLEAN, risk : BOOLEAN,
            prefilled : BOOLEAN, excluded : {"no", "blocked", "ineligible", "unsupported"}] :
        Retrievable(r.candidates, r.route) /\ (r.excluded # "no" => r.candidates = <<>>)}

LEMMA CandidateType ==
    ASSUME NEW c \in Candidates
    PROVE  /\ c.score \in Nat /\ c.programme \in {"PASS", "FAIL"} /\ c.conflict \in BOOLEAN
           /\ STORAGE \in c.methods => c.methods = {STORAGE}
           /\ REPOSITORY \in c.methods => "CURATED_ALIAS_EXACT" \in c.methods
<1>1. c.methods \in MethodSets /\ c.score \in Scores /\ c.programme \in {"PASS", "FAIL"} /\ c.conflict \in BOOLEAN
  BY DEF Candidates
<1>2. ASSUME STORAGE \in c.methods PROVE c.methods = {STORAGE}
  BY <1>1, <1>2 DEF MethodSets, STORAGE, FROZEN, REPOSITORY, Fuzzy
<1>3. ASSUME REPOSITORY \in c.methods PROVE "CURATED_ALIAS_EXACT" \in c.methods
  BY <1>1, <1>3 DEF MethodSets, STORAGE, FROZEN, REPOSITORY, Fuzzy
<1> QED
  BY <1>1, <1>2, <1>3, PolicyAssumption DEF PolicyAssumption

LEMMA CompatibleType ==
    ASSUME NEW r \in Evidence
    PROVE  /\ r.candidates \in Seq(Candidates) /\ DOMAIN r.candidates = 1 .. Len(r.candidates)
           /\ \A i \in DOMAIN r.candidates : i \in Nat \ {0} /\ r.candidates[i] \in Candidates
           /\ Compatible(r) \in Seq(Candidates) /\ Len(Compatible(r)) \in Nat
           /\ DOMAIN Compatible(r) = 1 .. Len(Compatible(r))
           /\ \A i \in 1 .. Len(Compatible(r)) :
                  i \in DOMAIN r.candidates /\ Compatible(r)[i] = r.candidates[i] /\ Compatible(r)[i] \in Candidates
           /\ Len(Compatible(r)) = Cardinality({i \in DOMAIN r.candidates : ~r.candidates[i].conflict})
<1> DEFINE list == r.candidates
           K == {i \in DOMAIN list : ~list[i].conflict}
           n == Cardinality(K)
<1>1. PICK m \in 0 .. MaxCandidates : list \in [1 .. m -> Candidates]
  BY DEF Evidence, Lists
<1>2. m \in Nat
  BY PolicyAssumption DEF PolicyAssumption
<1>3. list \in Seq(Candidates) /\ Len(list) = m /\ DOMAIN list = 1 .. m
  BY <1>1, <1>2
<1> HIDE DEF list
<1>4. IsFiniteSet(1 .. m) /\ Cardinality(1 .. m) = m /\ K \in SUBSET (1 .. m)
  BY <1>2, <1>3, FS_Interval
<1>5. n \in 0 .. m
  BY <1>2, <1>4, FS_Subset, FS_CardinalityType
<1> HIDE DEF n
<1>6. Compatible(r) = SubSeq(list, 1, n)
  BY DEF Compatible, n, list
<1>7. SubSeq(list, 1, n) = [i \in 1 .. n |-> list[i]]
  BY <1>2, <1>3, <1>5
<1>8. \A i \in 1 .. n : i \in 1 .. m /\ list[i] \in Candidates
  BY <1>1, <1>2, <1>5 DEF list
<1>9. SubSeq(list, 1, n) \in Seq(Candidates) /\ Len(SubSeq(list, 1, n)) = n
  BY <1>5, <1>7, <1>8
<1>10. \A i \in DOMAIN list : i \in Nat \ {0} /\ list[i] \in Candidates
  BY <1>2, <1>3
<1>11. /\ Compatible(r) \in Seq(Candidates) /\ Len(Compatible(r)) = n /\ n \in Nat
       /\ DOMAIN Compatible(r) = 1 .. n
  BY <1>5, <1>6, <1>7, <1>9
<1>12. \A i \in 1 .. n : i \in DOMAIN list /\ Compatible(r)[i] = list[i] /\ Compatible(r)[i] \in Candidates
  BY <1>3, <1>6, <1>7, <1>8
<1>13. Len(Compatible(r)) = Cardinality(K)
  BY <1>11 DEF n
<1> QED
  BY <1>3, <1>10, <1>11, <1>12, <1>13 DEF list

\* The top target is the first that was retrieved.
LEMMA TopType ==
    ASSUME NEW r \in Evidence, Compatible(r) # <<>>
    PROVE  /\ Top(r) = r.candidates[1] /\ Top(r) \in Candidates /\ 1 \in DOMAIN r.candidates
           /\ ~Top(r).conflict
           /\ Len(Compatible(r)) \in Nat /\ Len(Compatible(r)) >= 1
<1>1. Len(Compatible(r)) \in Nat /\ Len(Compatible(r)) >= 1
  BY CompatibleType
<1>2. Top(r) = r.candidates[1] /\ Top(r) \in Candidates /\ 1 \in DOMAIN r.candidates
  <2>1. 1 \in 1 .. Len(Compatible(r))
    BY <1>1
  <2> QED
    BY <2>1, CompatibleType DEF Top
<1>3. ~Top(r).conflict
  <2> DEFINE list == r.candidates
             K == {i \in DOMAIN list : ~list[i].conflict}
  <2>1. K # {}
    BY <1>1, CompatibleType, FS_EmptySet
  <2>2. PICK i \in DOMAIN list : ~list[i].conflict
    BY <2>1
  <2>3. CASE i = 1
    BY <1>2, <2>2, <2>3
  <2>4. CASE i # 1
    <3>1. 1 < i
      <4>1. i \in Nat \ {0}
        BY CompatibleType
      <4> QED
        BY <2>4, <4>1
    <3>2. ~Precedes(list[i], list[1])
      BY <1>2, <3>1 DEF Evidence, Retrievable
    <3>3. list[i] \in Candidates
      BY CompatibleType
    <3> QED
      BY <1>2, <2>2, <3>2, <3>3, CandidateType DEF Precedes
  <2> QED
    BY <2>3, <2>4
<1> QED
  BY <1>1, <1>2, <1>3

LEMMA MaxOfTwo ==
    ASSUME NEW a \in Int, NEW b \in Int
    PROVE  Max({a, b}) \in {a, b} /\ Max({a, b}) >= a /\ Max({a, b}) >= b
<1>1. \E x \in {a, b} : \A y \in {a, b} : x >= y
  OBVIOUS
<1> QED
  BY <1>1 DEF Max

LEMMA ScoreType ==
    ASSUME NEW r \in Evidence
    PROVE  Score(r) \in Nat /\ Separation(r) \in Nat /\ {Minimum, Strong, Margin} \subseteq Nat /\ Minimum <= Strong
<1>1. Score(r) \in Nat
  BY TopType, CandidateType DEF Score
<1>2. CASE Len(Compatible(r)) < 2
  BY <1>1, <1>2, PolicyAssumption DEF Separation, PolicyAssumption
<1>3. CASE ~(Len(Compatible(r)) < 2)
  <2>1. Compatible(r)[2] \in Candidates
    <3>1. 2 \in 1 .. Len(Compatible(r))
      BY <1>3, CompatibleType
    <3> QED
      BY <3>1, CompatibleType
  <2>2. Compatible(r)[2].score \in Nat
    BY <2>1, CandidateType
  <2>3. Separation(r) \in {0, Score(r) - Compatible(r)[2].score} /\ Separation(r) >= 0
    <3> DEFINE d == Score(r) - Compatible(r)[2].score
    <3>1. d \in Int
      BY <1>1, <2>2
    <3>2. Separation(r) = Max({0, d})
      BY <1>3 DEF Separation
    <3> HIDE DEF d
    <3>3. Separation(r) \in {0, d} /\ Separation(r) >= 0
      BY <3>1, <3>2, MaxOfTwo
    <3> QED
      BY <3>3 DEF d
  <2> QED
    BY <1>1, <2>2, <2>3, PolicyAssumption DEF PolicyAssumption
<1> QED
  BY <1>2, <1>3

\* What finds a target tells it apart from what cannot.
LEMMA Methods ==
    ASSUME NEW r \in Evidence, Compatible(r) # <<>>
    PROVE  /\ \A m : TopHas(r, m) <=> m \in Top(r).methods
           /\ TopHas(r, STORAGE) =>
                 ~TopHas(r, FROZEN) /\ ~TopHas(r, REPOSITORY) /\ ~TopHas(r, "CURATED_ALIAS_EXACT") /\ ~TopHas(r, "STRICT_EXACT")
           /\ TopHas(r, REPOSITORY) => TopHas(r, "CURATED_ALIAS_EXACT")
           /\ Top(r).methods \cap ALIASES # {} <=>
                 TopHas(r, STORAGE) \/ TopHas(r, "CURATED_ALIAS_EXACT") \/ TopHas(r, "HUMAN_ALIAS_EXACT")
           /\ Top(r).programme \in {"PASS", "FAIL"}
<1>1. \A m : TopHas(r, m) <=> m \in Top(r).methods
  BY DEF TopHas
<1>2. Top(r) \in Candidates
  BY TopType
<1>3. /\ STORAGE \in Top(r).methods => Top(r).methods = {STORAGE}
      /\ REPOSITORY \in Top(r).methods => "CURATED_ALIAS_EXACT" \in Top(r).methods
      /\ Top(r).programme \in {"PASS", "FAIL"}
  BY <1>2, CandidateType
<1>4. STORAGE \in Top(r).methods =>
        FROZEN \notin Top(r).methods /\ REPOSITORY \notin Top(r).methods
        /\ "CURATED_ALIAS_EXACT" \notin Top(r).methods /\ "STRICT_EXACT" \notin Top(r).methods
  BY <1>3 DEF STORAGE, FROZEN, REPOSITORY
<1>5. Top(r).methods \cap ALIASES # {} <=>
        STORAGE \in Top(r).methods \/ "CURATED_ALIAS_EXACT" \in Top(r).methods \/ "HUMAN_ALIAS_EXACT" \in Top(r).methods
  BY DEF ALIASES, STORAGE
<1> HIDE DEF STORAGE
<1> QED
  BY <1>1, <1>3, <1>4, <1>5

-----------------------------------------------------------------------------
(* The reasons of a proposal.                                                *)

MARGINS == {"AMBIGUOUS_CANDIDATES", "LOW_MARGIN", "MARGIN_GATE_PASSED"}

LEMMA Margins ==
    ASSUME NEW r
    PROVE  LET close == Separation(r) < Margin IN
           /\ MarginCodes(r) \subseteq MARGINS
           /\ "AMBIGUOUS_CANDIDATES" \in MarginCodes(r) <=>
                 /\ ~RepositoryReady(r) /\ ~Single(r)
                 /\ \/ TopHas(r, FROZEN) /\ ~Independent(r) /\ ExactFamilies(r) # {1}
                    \/ ~TopHas(r, FROZEN) /\ close
           /\ "LOW_MARGIN" \in MarginCodes(r) <=>
                 /\ ~RepositoryReady(r) /\ ~Single(r) /\ close
                 /\ TopHas(r, FROZEN) => ~Independent(r)
           /\ "MARGIN_GATE_PASSED" \in MarginCodes(r) <=>
                 /\ ~RepositoryReady(r)
                 /\ \/ TopHas(r, FROZEN) /\ (Independent(r) \/ (~Single(r) /\ ~close))
                    \/ ~TopHas(r, FROZEN) /\ (Single(r) \/ ~close)
BY DEF MarginCodes, Codes, MARGINS

\* What every selection says, whichever its lane.
Base(r) ==
    Codes(r.prefilled, {"PREFILLED_ID_UNTRUSTED_EVIDENCE"})
    \cup {IF r.risk THEN "COHORT_CONSERVATIVE" ELSE "COHORT_STANDARD"} \cup SelectedCodes(r)

BASE ==
    {"PROVIDER_REVALIDATION_REQUIRED", "CATALOG_CORROBORATED", "PROTECTED_SEMANTICS_COMPATIBLE",
     "ALERT_SNAPSHOT_MISSING", "MARKET_ROUTE_EXPLICIT", "MARKET_UNKNOWN", "FROZEN_RESOLVER_EXACT_TOP",
     "TARGET_ROUTE_AGREES", "TARGET_ROUTE_MISMATCH", "PREFILLED_ID_UNTRUSTED_EVIDENCE",
     "COHORT_CONSERVATIVE", "COHORT_STANDARD", "AMBIGUOUS_CANDIDATES", "LOW_MARGIN", "MARGIN_GATE_PASSED"}

LEMMA Bases ==
    ASSUME NEW r \in Evidence
    PROVE  /\ Base(r) \subseteq BASE
           /\ {"PROVIDER_REVALIDATION_REQUIRED", "CATALOG_CORROBORATED", "PROTECTED_SEMANTICS_COMPATIBLE"} \subseteq Base(r)
           /\ "ALERT_SNAPSHOT_MISSING" \in Base(r) <=> r.alerts = FALSE
           /\ "MARKET_ROUTE_EXPLICIT" \in Base(r) <=> OneExplicitRoute(r)
           /\ "MARKET_UNKNOWN" \in Base(r) <=> ~OneExplicitRoute(r)
           /\ "FROZEN_RESOLVER_EXACT_TOP" \in Base(r) <=> TopHas(r, FROZEN)
           /\ "TARGET_ROUTE_AGREES" \in Base(r) <=> TopHas(r, FROZEN) /\ TargetRouteAgrees(r)
           /\ "TARGET_ROUTE_MISMATCH" \in Base(r) <=> TopHas(r, FROZEN) /\ ~TargetRouteAgrees(r)
           /\ "PREFILLED_ID_UNTRUSTED_EVIDENCE" \in Base(r) <=> r.prefilled = TRUE
           /\ "COHORT_CONSERVATIVE" \in Base(r) <=> r.risk = TRUE
           /\ "COHORT_STANDARD" \in Base(r) <=> r.risk = FALSE
           /\ \A code \in MARGINS : code \in Base(r) <=> code \in MarginCodes(r)
<1>1. r.alerts \in BOOLEAN /\ r.risk \in BOOLEAN /\ r.prefilled \in BOOLEAN
  BY DEF Evidence
<1>2. MarginCodes(r) \subseteq MARGINS
  BY Margins
<1> DEFINE F == TopHas(r, FROZEN)
           A == TargetRouteAgrees(r)
           E == OneExplicitRoute(r)
<1>3. \A x : x \in Base(r) <=>
        \/ x = "PREFILLED_ID_UNTRUSTED_EVIDENCE" /\ r.prefilled = TRUE
        \/ x = "COHORT_CONSERVATIVE" /\ r.risk = TRUE
        \/ x = "COHORT_STANDARD" /\ r.risk = FALSE
        \/ x \in {"PROVIDER_REVALIDATION_REQUIRED", "CATALOG_CORROBORATED", "PROTECTED_SEMANTICS_COMPATIBLE"}
        \/ x = "ALERT_SNAPSHOT_MISSING" /\ r.alerts = FALSE
        \/ x = "MARKET_ROUTE_EXPLICIT" /\ E
        \/ x = "MARKET_UNKNOWN" /\ ~E
        \/ x = "FROZEN_RESOLVER_EXACT_TOP" /\ F
        \/ x = "TARGET_ROUTE_AGREES" /\ F /\ A
        \/ x = "TARGET_ROUTE_MISMATCH" /\ F /\ ~A
        \/ x \in MarginCodes(r)
  <2> HIDE DEF F, A, E
  <2>1. Base(r) =
          (IF r.prefilled THEN {"PREFILLED_ID_UNTRUSTED_EVIDENCE"} ELSE {})
          \cup {IF r.risk THEN "COHORT_CONSERVATIVE" ELSE "COHORT_STANDARD"}
          \cup ({"PROVIDER_REVALIDATION_REQUIRED", "CATALOG_CORROBORATED", "PROTECTED_SEMANTICS_COMPATIBLE"}
                \cup (IF ~r.alerts THEN {"ALERT_SNAPSHOT_MISSING"} ELSE {})
                \cup {IF E THEN "MARKET_ROUTE_EXPLICIT" ELSE "MARKET_UNKNOWN"}
                \cup (IF F THEN {"FROZEN_RESOLVER_EXACT_TOP", IF A THEN "TARGET_ROUTE_AGREES" ELSE "TARGET_ROUTE_MISMATCH"} ELSE {})
                \cup MarginCodes(r))
    BY DEF Base, SelectedCodes, Codes, F, A, E
  <2> QED
    BY <1>1, <2>1
<1> HIDE DEF F, A, E
<1>4. /\ Base(r) \subseteq BASE
      /\ {"PROVIDER_REVALIDATION_REQUIRED", "CATALOG_CORROBORATED", "PROTECTED_SEMANTICS_COMPATIBLE"} \subseteq Base(r)
  BY <1>2, <1>3 DEF BASE, MARGINS
<1>5. /\ "ALERT_SNAPSHOT_MISSING" \in Base(r) <=> r.alerts = FALSE
      /\ "MARKET_ROUTE_EXPLICIT" \in Base(r) <=> E
      /\ "MARKET_UNKNOWN" \in Base(r) <=> ~E
      /\ "FROZEN_RESOLVER_EXACT_TOP" \in Base(r) <=> F
  BY <1>2, <1>3 DEF MARGINS
<1>6. /\ "TARGET_ROUTE_AGREES" \in Base(r) <=> F /\ A
      /\ "TARGET_ROUTE_MISMATCH" \in Base(r) <=> F /\ ~A
      /\ "PREFILLED_ID_UNTRUSTED_EVIDENCE" \in Base(r) <=> r.prefilled = TRUE
  BY <1>2, <1>3 DEF MARGINS
<1>7. /\ "COHORT_CONSERVATIVE" \in Base(r) <=> r.risk = TRUE
      /\ "COHORT_STANDARD" \in Base(r) <=> r.risk = FALSE
      /\ \A code \in MARGINS : code \in Base(r) <=> code \in MarginCodes(r)
  BY <1>2, <1>3 DEF MARGINS
<1> QED
  BY <1>4, <1>5, <1>6, <1>7 DEF F, A, E

-----------------------------------------------------------------------------
(* The lanes.                                                                *)

\* What a lane that selects automatically has seen.
LEMMA Gates ==
    ASSUME NEW r \in Evidence, Compatible(r) # <<>>
    PROVE  /\ RepositoryReady(r) =>
                 /\ TopHas(r, REPOSITORY) /\ OneCurated(r) /\ ~CompetingFrozen(r) /\ TargetRouteAgrees(r)
                 /\ r.alerts = TRUE /\ (Score(r) < Minimum \/ Separation(r) < Margin)
           /\ Separated(r) => OneExplicitRoute(r) /\ r.alerts = TRUE /\ Separation(r) >= Margin
           /\ TrustedAlias(r) <=> Top(r).methods \cap ALIASES # {} /\ Separated(r) /\ RouteReady(r)
           /\ ConservativeStrict(r) <=>
                 Score(r) >= Strong /\ Separated(r) /\ r.risk = TRUE /\ TopHas(r, "STRICT_EXACT") /\ Single(r) /\ RouteReady(r)
           /\ StandardStrong(r) <=> Score(r) >= Strong /\ Separated(r) /\ r.risk = FALSE /\ RouteReady(r)
           /\ RouteReady(r) <=> (TopHas(r, FROZEN) => TargetRouteAgrees(r))
           /\ FrozenReady(r) <=>
                 /\ r.alerts = TRUE /\ TargetRouteAgrees(r)
                 /\ \/ Single(r)
                    \/ ExactFamilies(r) = {1} /\ Separation(r) >= Margin /\ r.risk = FALSE /\ r.prefilled = FALSE
           /\ TargetRouteAgrees(r) <=> OneExplicitRoute(r) /\ ~TopHas(r, STORAGE)
           /\ Independent(r) <=> TrustedAlias(r) \/ ConservativeStrict(r) \/ StandardStrong(r)
<1>1. r.alerts \in BOOLEAN /\ r.risk \in BOOLEAN /\ r.prefilled \in BOOLEAN
  BY DEF Evidence
<1>2. RepositoryReady(r) =>
         /\ TopHas(r, REPOSITORY) /\ OneCurated(r) /\ ~CompetingFrozen(r) /\ TargetRouteAgrees(r)
         /\ r.alerts = TRUE /\ (Score(r) < Minimum \/ Separation(r) < Margin)
  BY <1>1 DEF RepositoryReady
<1>3. Separated(r) => OneExplicitRoute(r) /\ r.alerts = TRUE /\ Separation(r) >= Margin
  BY <1>1 DEF Separated
<1>4. TrustedAlias(r) <=> Top(r).methods \cap ALIASES # {} /\ Separated(r) /\ RouteReady(r)
  BY DEF TrustedAlias
<1>5. ConservativeStrict(r) <=>
         Score(r) >= Strong /\ Separated(r) /\ r.risk = TRUE /\ TopHas(r, "STRICT_EXACT") /\ Single(r) /\ RouteReady(r)
  BY <1>1 DEF ConservativeStrict, StrongMatch
<1>6. StandardStrong(r) <=> Score(r) >= Strong /\ Separated(r) /\ r.risk = FALSE /\ RouteReady(r)
  BY <1>1 DEF StandardStrong, StrongMatch
<1>7. FrozenReady(r) <=>
         /\ r.alerts = TRUE /\ TargetRouteAgrees(r)
         /\ \/ Single(r)
            \/ ExactFamilies(r) = {1} /\ Separation(r) >= Margin /\ r.risk = FALSE /\ r.prefilled = FALSE
  BY <1>1 DEF FrozenReady
<1>8. /\ RouteReady(r) <=> (TopHas(r, FROZEN) => TargetRouteAgrees(r))
      /\ TargetRouteAgrees(r) <=> OneExplicitRoute(r) /\ ~TopHas(r, STORAGE)
      /\ Independent(r) <=> TrustedAlias(r) \/ ConservativeStrict(r) \/ StandardStrong(r)
  BY DEF RouteReady, TargetRouteAgrees, Independent
<1> QED
  BY <1>2, <1>3, <1>4, <1>5, <1>6, <1>7, <1>8

Advice(p) == Codes(p.ai # "unasked", {p.ai})

\* A selection as the lane left it.
InLane(r, p) ==
    /\ p.selected = 1 /\ p.state = Lane(r).state
    /\ p.ai \in {"unasked", "AI_SUPPORTS_LOCAL", "AI_DISAGREES"}
    /\ p.reasons = Base(r) \cup Lane(r).codes \cup {"PROGRAMME_GATE_PASSED"} \cup Advice(p)

LEMMA RepositoryLane ==
    ASSUME NEW r \in Evidence, Compatible(r) # <<>>, Top(r).programme = "PASS", RepositoryReady(r),
           NEW p, InLane(r, p)
    PROVE  p.state = "AUTO_ELIGIBLE" /\ AutoValidIn(r, p, "LANE_REPOSITORY_CURATED_ALIAS")
<1> DEFINE low == Score(r) < Minimum
           close == Separation(r) < Margin
           own == {"LANE_REPOSITORY_CURATED_ALIAS", "SHADOW_ONLY_NO_WRITE_AUTHORITY", "PROGRAMME_GATE_PASSED",
                   "REPOSITORY_CURATED_ALIAS_ALLOWLISTED"}
                  \cup Codes(low, {"REPOSITORY_CURATED_ALIAS_SCORE_OVERRIDE"})
                  \cup Codes(close, {"REPOSITORY_CURATED_ALIAS_MARGIN_OVERRIDE"})
<1>1. p.reasons = Base(r) \cup own \cup Advice(p) /\ p.state = "AUTO_ELIGIBLE"
  BY DEF InLane, Lane, Shadow
<1>2. Advice(p) \subseteq {"AI_SUPPORTS_LOCAL", "AI_DISAGREES"}
  BY DEF InLane, Advice, Codes
<1>3. /\ TopHas(r, REPOSITORY) /\ OneCurated(r) /\ ~CompetingFrozen(r) /\ TargetRouteAgrees(r)
      /\ r.alerts = TRUE /\ (low \/ close) /\ OneExplicitRoute(r) /\ ~TopHas(r, STORAGE)
      /\ REPOSITORY \in Top(r).methods
  BY Gates, Methods
<1>4. /\ Base(r) \subseteq BASE /\ Corroborated(p)
      /\ "MARKET_ROUTE_EXPLICIT" \in Base(r) /\ "MARKET_UNKNOWN" \notin Base(r)
      /\ "ALERT_SNAPSHOT_MISSING" \notin Base(r) /\ "TARGET_ROUTE_MISMATCH" \notin Base(r)
      /\ \A code \in MARGINS : code \notin Base(r)
  BY <1>1, <1>3, Bases, Margins DEF Corroborated, MARGINS
<1> HIDE DEF low, close
<1>5. /\ p.reasons \cap AutoLanes = {"LANE_REPOSITORY_CURATED_ALIAS"}
      /\ p.reasons \cap RepositoryCodes =
            {"LANE_REPOSITORY_CURATED_ALIAS", "REPOSITORY_CURATED_ALIAS_ALLOWLISTED"}
            \cup Codes(low, {"REPOSITORY_CURATED_ALIAS_SCORE_OVERRIDE"})
            \cup Codes(close, {"REPOSITORY_CURATED_ALIAS_MARGIN_OVERRIDE"})
      /\ p.reasons \cap {"CURATED_ALIAS_EXACT", STORAGE, "LEARNED_ALIAS_EXACT"} = {}
  BY <1>1, <1>2, <1>4 DEF BASE, AutoLanes, RepositoryCodes, Codes, STORAGE
<1>6. /\ {"PROGRAMME_GATE_PASSED", "MARKET_ROUTE_EXPLICIT", "SHADOW_ONLY_NO_WRITE_AUTHORITY"} \subseteq p.reasons
      /\ {"ALERT_SNAPSHOT_MISSING", "PROGRAMME_GATE_FAILED", "MARKET_UNKNOWN", "LOW_MARGIN",
          "AMBIGUOUS_CANDIDATES", "LANE_HUMAN_REVIEW", "MULTI_SIGNAL_STRONG_PROPOSAL"} \cap p.reasons = {}
      /\ "MARGIN_GATE_PASSED" \notin p.reasons /\ "TARGET_ROUTE_MISMATCH" \notin p.reasons
      /\ "STATIC_STORAGE_ROUTE_ALLOWLISTED" \notin p.reasons /\ "TRUSTED_ALIAS_SCORE_OVERRIDE" \notin p.reasons
      /\ "FROZEN_RESOLVER_EXACT_SCORE_OVERRIDE" \notin p.reasons
  BY <1>1, <1>2, <1>4 DEF BASE, MARGINS, Codes
<1> HIDE DEF own
<1>7. AutoLane(r, p, "LANE_REPOSITORY_CURATED_ALIAS")
  BY <1>3 DEF AutoLane
<1>8. AutoValidIn(r, p, "LANE_REPOSITORY_CURATED_ALIAS")
  BY <1>3, <1>4, <1>5, <1>6, <1>7 DEF AutoValidIn, Codes, low, close
<1> QED
  BY <1>1, <1>8

\* What a selection says whose lane needs no evidence of the resolver.
LEMMA IndependentBase ==
    ASSUME NEW r \in Evidence, Compatible(r) # <<>>, ~RepositoryReady(r), Independent(r)
    PROVE  /\ Base(r) \subseteq BASE
           /\ OneExplicitRoute(r) /\ Separation(r) >= Margin /\ RouteReady(r)
           /\ {"PROVIDER_REVALIDATION_REQUIRED", "CATALOG_CORROBORATED", "PROTECTED_SEMANTICS_COMPATIBLE",
               "MARKET_ROUTE_EXPLICIT", "MARGIN_GATE_PASSED"} \subseteq Base(r)
           /\ {"MARKET_UNKNOWN", "ALERT_SNAPSHOT_MISSING", "TARGET_ROUTE_MISMATCH", "LOW_MARGIN",
               "AMBIGUOUS_CANDIDATES"} \cap Base(r) = {}
<1>1. OneExplicitRoute(r) /\ r.alerts = TRUE /\ Separation(r) >= Margin /\ RouteReady(r)
  BY Gates
<1>2. ~(Separation(r) < Margin)
  BY <1>1, ScoreType
<1>3. TopHas(r, FROZEN) => TargetRouteAgrees(r)
  BY <1>1, Gates
<1>4. /\ "MARGIN_GATE_PASSED" \in MarginCodes(r)
      /\ "LOW_MARGIN" \notin MarginCodes(r) /\ "AMBIGUOUS_CANDIDATES" \notin MarginCodes(r)
  BY <1>2, Margins
<1>5. "MARGIN_GATE_PASSED" \in Base(r) /\ "LOW_MARGIN" \notin Base(r) /\ "AMBIGUOUS_CANDIDATES" \notin Base(r)
  BY <1>4, Bases DEF MARGINS
<1> QED
  BY <1>1, <1>3, <1>5, Bases

LEMMA TrustedLane ==
    ASSUME NEW r \in Evidence, Compatible(r) # <<>>, Top(r).programme = "PASS",
           ~RepositoryReady(r), TrustedAlias(r), NEW p, InLane(r, p)
    PROVE  p.state = "AUTO_ELIGIBLE" /\ AutoValidIn(r, p, "LANE_TRUSTED_ALIAS")
<1> DEFINE weak == Score(r) < Strong
           alias == IF TopHas(r, STORAGE) THEN STORAGE
                    ELSE IF TopHas(r, "CURATED_ALIAS_EXACT") THEN "CURATED_ALIAS_EXACT" ELSE "LEARNED_ALIAS_EXACT"
           own == {"LANE_TRUSTED_ALIAS", "SHADOW_ONLY_NO_WRITE_AUTHORITY", "PROGRAMME_GATE_PASSED", alias}
                  \cup Codes(TopHas(r, STORAGE), {"STATIC_STORAGE_ROUTE_ALLOWLISTED"})
                  \cup Codes(weak, {"TRUSTED_ALIAS_SCORE_OVERRIDE"})
<1>1. p.reasons = Base(r) \cup own \cup Advice(p) /\ p.state = "AUTO_ELIGIBLE"
  BY DEF InLane, Lane, Shadow, Codes
<1>2. Advice(p) \subseteq {"AI_SUPPORTS_LOCAL", "AI_DISAGREES"}
  BY DEF InLane, Advice, Codes
<1>3. Top(r).methods \cap ALIASES # {} /\ Independent(r)
  BY Gates
<1>4. /\ Base(r) \subseteq BASE
      /\ OneExplicitRoute(r) /\ Separation(r) >= Margin /\ RouteReady(r)
      /\ {"PROVIDER_REVALIDATION_REQUIRED", "CATALOG_CORROBORATED", "PROTECTED_SEMANTICS_COMPATIBLE",
          "MARKET_ROUTE_EXPLICIT", "MARGIN_GATE_PASSED"} \subseteq Base(r)
      /\ {"MARKET_UNKNOWN", "ALERT_SNAPSHOT_MISSING", "TARGET_ROUTE_MISMATCH", "LOW_MARGIN",
          "AMBIGUOUS_CANDIDATES"} \cap Base(r) = {}
  BY <1>3, IndependentBase
<1>5. alias \in {"CURATED_ALIAS_EXACT", STORAGE, "LEARNED_ALIAS_EXACT"}
  OBVIOUS
<1> HIDE DEF alias, weak
<1>6. /\ p.reasons \cap AutoLanes = {"LANE_TRUSTED_ALIAS"}
      /\ p.reasons \cap RepositoryCodes = {}
      /\ p.reasons \cap {"CURATED_ALIAS_EXACT", STORAGE, "LEARNED_ALIAS_EXACT"} = {alias}
  BY <1>1, <1>2, <1>4, <1>5 DEF BASE, AutoLanes, RepositoryCodes, Codes, STORAGE
<1>7. /\ Corroborated(p)
      /\ {"PROGRAMME_GATE_PASSED", "MARKET_ROUTE_EXPLICIT", "SHADOW_ONLY_NO_WRITE_AUTHORITY"} \subseteq p.reasons
      /\ "MARGIN_GATE_PASSED" \in p.reasons
  BY <1>1, <1>4 DEF Corroborated
<1>8. /\ {"ALERT_SNAPSHOT_MISSING", "PROGRAMME_GATE_FAILED", "MARKET_UNKNOWN", "LOW_MARGIN",
          "AMBIGUOUS_CANDIDATES", "LANE_HUMAN_REVIEW", "MULTI_SIGNAL_STRONG_PROPOSAL"} \cap p.reasons = {}
      /\ "TARGET_ROUTE_MISMATCH" \notin p.reasons /\ "FROZEN_RESOLVER_EXACT_SCORE_OVERRIDE" \notin p.reasons
  BY <1>1, <1>2, <1>4, <1>5 DEF BASE, Codes, STORAGE
<1>9. /\ TopHas(r, STORAGE) <=> "STATIC_STORAGE_ROUTE_ALLOWLISTED" \in p.reasons
      /\ "TRUSTED_ALIAS_SCORE_OVERRIDE" \in p.reasons <=> weak
  BY <1>1, <1>2, <1>4, <1>5 DEF BASE, Codes, STORAGE
<1> HIDE DEF own
<1>10. AutoLane(r, p, "LANE_TRUSTED_ALIAS")
  BY <1>3 DEF AutoLane
<1>11. AutoValidIn(r, p, "LANE_TRUSTED_ALIAS")
  BY <1>4, <1>6, <1>7, <1>8, <1>9, <1>10 DEF AutoValidIn, Codes, alias, weak
<1> QED
  BY <1>1, <1>11

LEMMA ConservativeLane ==
    ASSUME NEW r \in Evidence, Compatible(r) # <<>>, Top(r).programme = "PASS",
           ~RepositoryReady(r), ~TrustedAlias(r), ConservativeStrict(r), NEW p, InLane(r, p)
    PROVE  p.state = "AUTO_ELIGIBLE" /\ AutoValidIn(r, p, "LANE_CONSERVATIVE_STRICT_EXACT")
<1> DEFINE own == {"LANE_CONSERVATIVE_STRICT_EXACT", "SHADOW_ONLY_NO_WRITE_AUTHORITY", "PROGRAMME_GATE_PASSED",
                   "STRICT_EXACT_UNIQUE_CANDIDATE"}
<1>1. p.reasons = Base(r) \cup own \cup Advice(p) /\ p.state = "AUTO_ELIGIBLE"
  BY DEF InLane, Lane, Shadow
<1>2. Advice(p) \subseteq {"AI_SUPPORTS_LOCAL", "AI_DISAGREES"}
  BY DEF InLane, Advice, Codes
<1>3. /\ r.risk = TRUE /\ Single(r) /\ "STRICT_EXACT" \in Top(r).methods
      /\ Independent(r) /\ Top(r).methods \cap ALIASES = {} /\ ~TopHas(r, STORAGE)
      /\ Score(r) >= Strong /\ ~(Score(r) < Strong)
  <2>1. /\ Score(r) >= Strong /\ Separated(r) /\ r.risk = TRUE /\ TopHas(r, "STRICT_EXACT")
        /\ Single(r) /\ RouteReady(r) /\ Independent(r)
    BY Gates
  <2>2. Top(r).methods \cap ALIASES = {}
    BY <2>1, Gates
  <2>3. ~TopHas(r, STORAGE) /\ "STRICT_EXACT" \in Top(r).methods
    BY <2>1, Methods
  <2>4. ~(Score(r) < Strong)
    BY <2>1, ScoreType
  <2> QED
    BY <2>1, <2>2, <2>3, <2>4
<1>4. /\ Base(r) \subseteq BASE
      /\ OneExplicitRoute(r) /\ Separation(r) >= Margin /\ RouteReady(r)
      /\ {"PROVIDER_REVALIDATION_REQUIRED", "CATALOG_CORROBORATED", "PROTECTED_SEMANTICS_COMPATIBLE",
          "MARKET_ROUTE_EXPLICIT", "MARGIN_GATE_PASSED"} \subseteq Base(r)
      /\ {"MARKET_UNKNOWN", "ALERT_SNAPSHOT_MISSING", "TARGET_ROUTE_MISMATCH", "LOW_MARGIN",
          "AMBIGUOUS_CANDIDATES"} \cap Base(r) = {}
  BY <1>3, IndependentBase
<1>5. /\ p.reasons \cap AutoLanes = {"LANE_CONSERVATIVE_STRICT_EXACT"}
      /\ p.reasons \cap RepositoryCodes = {}
      /\ p.reasons \cap {"CURATED_ALIAS_EXACT", STORAGE, "LEARNED_ALIAS_EXACT"} = {}
  BY <1>1, <1>2, <1>4 DEF BASE, AutoLanes, RepositoryCodes, STORAGE
<1>6. /\ Corroborated(p) /\ "STRICT_EXACT_UNIQUE_CANDIDATE" \in p.reasons
      /\ {"PROGRAMME_GATE_PASSED", "MARKET_ROUTE_EXPLICIT", "SHADOW_ONLY_NO_WRITE_AUTHORITY"} \subseteq p.reasons
      /\ "MARGIN_GATE_PASSED" \in p.reasons
  BY <1>1, <1>4 DEF Corroborated
<1>7. /\ {"ALERT_SNAPSHOT_MISSING", "PROGRAMME_GATE_FAILED", "MARKET_UNKNOWN", "LOW_MARGIN",
          "AMBIGUOUS_CANDIDATES", "LANE_HUMAN_REVIEW", "MULTI_SIGNAL_STRONG_PROPOSAL"} \cap p.reasons = {}
      /\ "TARGET_ROUTE_MISMATCH" \notin p.reasons /\ "FROZEN_RESOLVER_EXACT_SCORE_OVERRIDE" \notin p.reasons
      /\ "STATIC_STORAGE_ROUTE_ALLOWLISTED" \notin p.reasons /\ "TRUSTED_ALIAS_SCORE_OVERRIDE" \notin p.reasons
  BY <1>1, <1>2, <1>4 DEF BASE
<1> HIDE DEF own
<1>8. AutoLane(r, p, "LANE_CONSERVATIVE_STRICT_EXACT")
  BY <1>3, <1>6 DEF AutoLane, TopHas
<1>9. AutoValidIn(r, p, "LANE_CONSERVATIVE_STRICT_EXACT")
  BY <1>3, <1>4, <1>5, <1>6, <1>7, <1>8 DEF AutoValidIn, Codes
<1> QED
  BY <1>1, <1>9

LEMMA StandardLane ==
    ASSUME NEW r \in Evidence, Compatible(r) # <<>>, Top(r).programme = "PASS",
           ~RepositoryReady(r), ~TrustedAlias(r), ~ConservativeStrict(r), StandardStrong(r), NEW p, InLane(r, p)
    PROVE  p.state = "AUTO_ELIGIBLE" /\ AutoValidIn(r, p, "LANE_STANDARD_STRONG")
<1> DEFINE own == {"LANE_STANDARD_STRONG", "SHADOW_ONLY_NO_WRITE_AUTHORITY", "PROGRAMME_GATE_PASSED",
                   "STANDARD_LANE_THRESHOLD_PASSED"}
<1>1. p.reasons = Base(r) \cup own \cup Advice(p) /\ p.state = "AUTO_ELIGIBLE"
  BY DEF InLane, Lane, Shadow
<1>2. Advice(p) \subseteq {"AI_SUPPORTS_LOCAL", "AI_DISAGREES"}
  BY DEF InLane, Advice, Codes
<1>3. /\ r.risk = FALSE
      /\ Independent(r) /\ Top(r).methods \cap ALIASES = {} /\ ~TopHas(r, STORAGE)
      /\ Score(r) >= Strong /\ ~(Score(r) < Strong)
  <2>1. Score(r) >= Strong /\ Separated(r) /\ r.risk = FALSE /\ RouteReady(r) /\ Independent(r)
    BY Gates
  <2>2. Top(r).methods \cap ALIASES = {}
    BY <2>1, Gates
  <2>3. ~TopHas(r, STORAGE)
    BY <2>2, Methods
  <2>4. ~(Score(r) < Strong)
    BY <2>1, ScoreType
  <2> QED
    BY <2>1, <2>2, <2>3, <2>4
<1>4. /\ Base(r) \subseteq BASE
      /\ OneExplicitRoute(r) /\ Separation(r) >= Margin /\ RouteReady(r)
      /\ {"PROVIDER_REVALIDATION_REQUIRED", "CATALOG_CORROBORATED", "PROTECTED_SEMANTICS_COMPATIBLE",
          "MARKET_ROUTE_EXPLICIT", "MARGIN_GATE_PASSED"} \subseteq Base(r)
      /\ {"MARKET_UNKNOWN", "ALERT_SNAPSHOT_MISSING", "TARGET_ROUTE_MISMATCH", "LOW_MARGIN",
          "AMBIGUOUS_CANDIDATES"} \cap Base(r) = {}
  BY <1>3, IndependentBase
<1>5. /\ p.reasons \cap AutoLanes = {"LANE_STANDARD_STRONG"}
      /\ p.reasons \cap RepositoryCodes = {}
      /\ p.reasons \cap {"CURATED_ALIAS_EXACT", STORAGE, "LEARNED_ALIAS_EXACT"} = {}
  BY <1>1, <1>2, <1>4 DEF BASE, AutoLanes, RepositoryCodes, STORAGE
<1>6. /\ Corroborated(p) /\ "STANDARD_LANE_THRESHOLD_PASSED" \in p.reasons
      /\ {"PROGRAMME_GATE_PASSED", "MARKET_ROUTE_EXPLICIT", "SHADOW_ONLY_NO_WRITE_AUTHORITY"} \subseteq p.reasons
      /\ "MARGIN_GATE_PASSED" \in p.reasons
  BY <1>1, <1>4 DEF Corroborated
<1>7. /\ {"ALERT_SNAPSHOT_MISSING", "PROGRAMME_GATE_FAILED", "MARKET_UNKNOWN", "LOW_MARGIN",
          "AMBIGUOUS_CANDIDATES", "LANE_HUMAN_REVIEW", "MULTI_SIGNAL_STRONG_PROPOSAL"} \cap p.reasons = {}
      /\ "TARGET_ROUTE_MISMATCH" \notin p.reasons /\ "FROZEN_RESOLVER_EXACT_SCORE_OVERRIDE" \notin p.reasons
      /\ "STATIC_STORAGE_ROUTE_ALLOWLISTED" \notin p.reasons /\ "TRUSTED_ALIAS_SCORE_OVERRIDE" \notin p.reasons
  BY <1>1, <1>2, <1>4 DEF BASE
<1> HIDE DEF own
<1>8. AutoLane(r, p, "LANE_STANDARD_STRONG")
  BY <1>3, <1>6 DEF AutoLane, TopHas
<1>9. AutoValidIn(r, p, "LANE_STANDARD_STRONG")
  BY <1>3, <1>4, <1>5, <1>6, <1>7, <1>8 DEF AutoValidIn, Codes
<1> QED
  BY <1>1, <1>9

LEMMA FrozenLane ==
    ASSUME NEW r \in Evidence, Compatible(r) # <<>>, Top(r).programme = "PASS",
           ~RepositoryReady(r), ~Independent(r), TopHas(r, FROZEN), FrozenReady(r), NEW p, InLane(r, p)
    PROVE  p.state = "AUTO_ELIGIBLE" /\ AutoValidIn(r, p, "LANE_FROZEN_RESOLVER_EXACT")
<1> DEFINE weak == Score(r) < Strong
           own == {"LANE_FROZEN_RESOLVER_EXACT", "SHADOW_ONLY_NO_WRITE_AUTHORITY", "PROGRAMME_GATE_PASSED"}
                  \cup Codes(weak, {"FROZEN_RESOLVER_EXACT_SCORE_OVERRIDE"})
<1>1. p.reasons = Base(r) \cup own \cup Advice(p) /\ p.state = "AUTO_ELIGIBLE"
  BY Gates DEF InLane, Lane, Shadow
<1>2. Advice(p) \subseteq {"AI_SUPPORTS_LOCAL", "AI_DISAGREES"}
  BY DEF InLane, Advice, Codes
<1>3. /\ r.alerts = TRUE /\ TargetRouteAgrees(r) /\ OneExplicitRoute(r) /\ ~TopHas(r, STORAGE)
      /\ FROZEN \in Top(r).methods
      /\ ~Single(r) => /\ ExactFamilies(r) = {1} /\ Separation(r) >= Margin /\ ~(Separation(r) < Margin)
                       /\ r.risk = FALSE /\ r.prefilled = FALSE
  <2>1. /\ r.alerts = TRUE /\ TargetRouteAgrees(r)
        /\ \/ Single(r)
           \/ ExactFamilies(r) = {1} /\ Separation(r) >= Margin /\ r.risk = FALSE /\ r.prefilled = FALSE
    BY Gates
  <2>2. OneExplicitRoute(r) /\ ~TopHas(r, STORAGE)
    BY <2>1, Gates
  <2>3. FROZEN \in Top(r).methods
    BY Methods
  <2>4. Separation(r) >= Margin => ~(Separation(r) < Margin)
    BY ScoreType
  <2> QED
    BY <2>1, <2>2, <2>3, <2>4
<1>4. /\ "MARGIN_GATE_PASSED" \in MarginCodes(r) <=> ~Single(r)
      /\ "LOW_MARGIN" \notin MarginCodes(r) /\ "AMBIGUOUS_CANDIDATES" \notin MarginCodes(r)
  BY <1>3, Margins
<1>5. /\ Base(r) \subseteq BASE /\ Corroborated(p)
      /\ {"MARKET_ROUTE_EXPLICIT", "TARGET_ROUTE_AGREES"} \subseteq Base(r)
      /\ {"MARKET_UNKNOWN", "ALERT_SNAPSHOT_MISSING", "TARGET_ROUTE_MISMATCH"} \cap Base(r) = {}
      /\ ~Single(r) => "PREFILLED_ID_UNTRUSTED_EVIDENCE" \notin Base(r)
  BY <1>1, <1>3, Bases DEF Corroborated
<1>6. /\ "MARGIN_GATE_PASSED" \in Base(r) <=> ~Single(r)
      /\ "LOW_MARGIN" \notin Base(r) /\ "AMBIGUOUS_CANDIDATES" \notin Base(r)
  BY <1>4, Bases DEF MARGINS
<1> HIDE DEF weak
<1>7. /\ p.reasons \cap AutoLanes = {"LANE_FROZEN_RESOLVER_EXACT"}
      /\ p.reasons \cap RepositoryCodes = {}
      /\ p.reasons \cap {"CURATED_ALIAS_EXACT", STORAGE, "LEARNED_ALIAS_EXACT"} = {}
  BY <1>1, <1>2, <1>5 DEF BASE, AutoLanes, RepositoryCodes, STORAGE, Codes
<1>8. /\ {"PROGRAMME_GATE_PASSED", "MARKET_ROUTE_EXPLICIT", "SHADOW_ONLY_NO_WRITE_AUTHORITY", "TARGET_ROUTE_AGREES"}
            \subseteq p.reasons
      /\ {"ALERT_SNAPSHOT_MISSING", "PROGRAMME_GATE_FAILED", "MARKET_UNKNOWN", "LOW_MARGIN",
          "AMBIGUOUS_CANDIDATES", "LANE_HUMAN_REVIEW", "MULTI_SIGNAL_STRONG_PROPOSAL"} \cap p.reasons = {}
      /\ "TARGET_ROUTE_MISMATCH" \notin p.reasons /\ "STATIC_STORAGE_ROUTE_ALLOWLISTED" \notin p.reasons
      /\ "TRUSTED_ALIAS_SCORE_OVERRIDE" \notin p.reasons
  BY <1>1, <1>2, <1>5, <1>6 DEF BASE, Codes
<1>9. /\ "MARGIN_GATE_PASSED" \in p.reasons <=> ~Single(r)
      /\ ~Single(r) => "PREFILLED_ID_UNTRUSTED_EVIDENCE" \notin p.reasons
      /\ "FROZEN_RESOLVER_EXACT_SCORE_OVERRIDE" \in p.reasons <=> weak
  BY <1>1, <1>2, <1>5, <1>6 DEF BASE, Codes
<1> HIDE DEF own
<1>10. AutoLane(r, p, "LANE_FROZEN_RESOLVER_EXACT")
  BY <1>3 DEF AutoLane
<1>11. AutoValidIn(r, p, "LANE_FROZEN_RESOLVER_EXACT")
  BY <1>3, <1>5, <1>7, <1>8, <1>9, <1>10 DEF AutoValidIn, Codes, weak
<1> QED
  BY <1>1, <1>11


-----------------------------------------------------------------------------
(* The checks that every proposal goes through.                              *)

\* What a selection may say besides its evidence and the answer it was given.
OWN ==
    {"LANE_REPOSITORY_CURATED_ALIAS", "LANE_TRUSTED_ALIAS", "LANE_CONSERVATIVE_STRICT_EXACT", "LANE_STANDARD_STRONG",
     "LANE_FROZEN_RESOLVER_EXACT", "LANE_HUMAN_REVIEW", "LANE_PROGRAMME_VERIFICATION",
     "SHADOW_ONLY_NO_WRITE_AUTHORITY", "REPOSITORY_CURATED_ALIAS_ALLOWLISTED",
     "REPOSITORY_CURATED_ALIAS_SCORE_OVERRIDE", "REPOSITORY_CURATED_ALIAS_MARGIN_OVERRIDE",
     "CURATED_STORAGE_ALIAS_EXACT", "STATIC_STORAGE_ROUTE_ALLOWLISTED", "CURATED_ALIAS_EXACT", "LEARNED_ALIAS_EXACT",
     "TRUSTED_ALIAS_SCORE_OVERRIDE", "STRICT_EXACT_UNIQUE_CANDIDATE", "STANDARD_LANE_THRESHOLD_PASSED",
     "FROZEN_RESOLVER_EXACT_SCORE_OVERRIDE", "FROZEN_RESOLVER_EXACT_GATES_FAILED", "MULTI_SIGNAL_STRONG_PROPOSAL",
     "PROGRAMME_GATE_PASSED", "PROGRAMME_GATE_FAILED"}

\* Nothing is said of a lane that the top target and the state do not bear out.
BorneOut(r, state, own) ==
    /\ own \subseteq OWN
    /\ own \cap {"FROZEN_RESOLVER_EXACT_SCORE_OVERRIDE", "LANE_FROZEN_RESOLVER_EXACT"} # {} =>
          state = "AUTO_ELIGIBLE" /\ TopHas(r, FROZEN)
    /\ "FROZEN_RESOLVER_EXACT_GATES_FAILED" \in own => state = "NEEDS_REVIEW" /\ TopHas(r, FROZEN)
    /\ own \cap StorageCodes # {} => state = "AUTO_ELIGIBLE" /\ TopHas(r, STORAGE)
    /\ own \cap RepositoryCodes # {} => state = "AUTO_ELIGIBLE" /\ TopHas(r, REPOSITORY)

LEMMA LaneBorneOut ==
    ASSUME NEW r \in Evidence, Compatible(r) # <<>>
    PROVE  /\ Lane(r).state \in {"AUTO_ELIGIBLE", "NEEDS_REVIEW"}
           /\ BorneOut(r, Lane(r).state, Lane(r).codes \cup {"PROGRAMME_GATE_PASSED"})
<1> DEFINE own == Lane(r).codes \cup {"PROGRAMME_GATE_PASSED"}
<1>1. CASE RepositoryReady(r)
  <2>1. Lane(r).state = "AUTO_ELIGIBLE" /\ TopHas(r, REPOSITORY)
    BY <1>1, Gates DEF Lane, Shadow
  <2>2. own \subseteq
          {"LANE_REPOSITORY_CURATED_ALIAS", "SHADOW_ONLY_NO_WRITE_AUTHORITY", "REPOSITORY_CURATED_ALIAS_ALLOWLISTED",
           "REPOSITORY_CURATED_ALIAS_SCORE_OVERRIDE", "REPOSITORY_CURATED_ALIAS_MARGIN_OVERRIDE", "PROGRAMME_GATE_PASSED"}
    BY <1>1 DEF Lane, Shadow, Codes
  <2> HIDE DEF own
  <2> QED
    BY <2>1, <2>2 DEF BorneOut, OWN, StorageCodes, RepositoryCodes, STORAGE, own
<1>2. CASE ~RepositoryReady(r) /\ TrustedAlias(r)
  <2>1. Lane(r).state = "AUTO_ELIGIBLE"
    BY <1>2 DEF Lane, Shadow
  <2>2. own \subseteq
          {"LANE_TRUSTED_ALIAS", "SHADOW_ONLY_NO_WRITE_AUTHORITY", "CURATED_ALIAS_EXACT", "LEARNED_ALIAS_EXACT",
           "TRUSTED_ALIAS_SCORE_OVERRIDE", "PROGRAMME_GATE_PASSED"} \cup StorageCodes
    BY <1>2 DEF Lane, Shadow, Codes, StorageCodes
  <2>3. own \cap StorageCodes # {} => TopHas(r, STORAGE)
    BY <1>2 DEF Lane, Shadow, Codes, StorageCodes, STORAGE
  <2> HIDE DEF own
  <2> QED
    BY <2>1, <2>2, <2>3 DEF BorneOut, OWN, StorageCodes, RepositoryCodes, STORAGE, own
<1>3. CASE ~RepositoryReady(r) /\ ~TrustedAlias(r) /\ (ConservativeStrict(r) \/ StandardStrong(r))
  <2>1. Lane(r).state = "AUTO_ELIGIBLE"
    BY <1>3 DEF Lane, Shadow
  <2>2. own \subseteq
          {"LANE_CONSERVATIVE_STRICT_EXACT", "STRICT_EXACT_UNIQUE_CANDIDATE", "SHADOW_ONLY_NO_WRITE_AUTHORITY",
           "LANE_STANDARD_STRONG", "STANDARD_LANE_THRESHOLD_PASSED", "PROGRAMME_GATE_PASSED"}
    BY <1>3 DEF Lane, Shadow
  <2> HIDE DEF own
  <2> QED
    BY <2>1, <2>2 DEF BorneOut, OWN, StorageCodes, RepositoryCodes, STORAGE, own
<1>4. CASE ~RepositoryReady(r) /\ ~Independent(r) /\ TopHas(r, FROZEN) /\ FrozenReady(r)
  <2>1. Lane(r).state = "AUTO_ELIGIBLE"
    BY <1>4, Gates DEF Lane, Shadow
  <2>2. own \subseteq
          {"LANE_FROZEN_RESOLVER_EXACT", "FROZEN_RESOLVER_EXACT_SCORE_OVERRIDE", "SHADOW_ONLY_NO_WRITE_AUTHORITY",
           "PROGRAMME_GATE_PASSED"}
    BY <1>4, Gates DEF Lane, Shadow, Codes
  <2> HIDE DEF own
  <2> QED
    BY <1>4, <2>1, <2>2 DEF BorneOut, OWN, StorageCodes, RepositoryCodes, STORAGE, own
<1>5. CASE ~RepositoryReady(r) /\ ~Independent(r) /\ ~(TopHas(r, FROZEN) /\ FrozenReady(r))
  <2>1. Lane(r).state = "NEEDS_REVIEW"
    BY <1>5, Gates DEF Lane
  <2>2. own \subseteq
          {"LANE_HUMAN_REVIEW", "FROZEN_RESOLVER_EXACT_GATES_FAILED", "MULTI_SIGNAL_STRONG_PROPOSAL",
           "PROGRAMME_GATE_PASSED"}
    BY <1>5, Gates DEF Lane, Codes
  <2>3. "FROZEN_RESOLVER_EXACT_GATES_FAILED" \in own => TopHas(r, FROZEN)
    BY <1>5, Gates DEF Lane, Codes
  <2> HIDE DEF own
  <2> QED
    BY <2>1, <2>2, <2>3 DEF BorneOut, OWN, StorageCodes, RepositoryCodes, STORAGE, own
<1> QED
  BY <1>1, <1>2, <1>3, <1>4, <1>5, Gates

\* One target has the repository's name, in a row of one explicit route.
LEMMA OneRepositoryName ==
    ASSUME NEW r \in Evidence, NEW i \in DOMAIN r.candidates, REPOSITORY \in r.candidates[i].methods
    PROVE  /\ {j \in DOMAIN r.candidates : REPOSITORY \in r.candidates[j].methods} = {i} /\ OneExplicitRoute(r)
           /\ "CURATED_ALIAS_EXACT" \in r.candidates[i].methods /\ STORAGE \notin r.candidates[i].methods
<1>1. \A j \in DOMAIN r.candidates :
        /\ j \in Nat \ {0}
        /\ STORAGE \in r.candidates[j].methods => r.candidates[j].methods = {STORAGE}
        /\ REPOSITORY \in r.candidates[j].methods => "CURATED_ALIAS_EXACT" \in r.candidates[j].methods
  BY CompatibleType, CandidateType
<1>2. ASSUME NEW j \in DOMAIN r.candidates, REPOSITORY \in r.candidates[j].methods, j # i
      PROVE  FALSE
  <2>1. "CURATED_ALIAS_EXACT" \in r.candidates[i].methods /\ "CURATED_ALIAS_EXACT" \in r.candidates[j].methods
    BY <1>1, <1>2
  <2>2. i < j \/ j < i
    BY <1>1, <1>2
  <2> QED
    BY <2>1, <2>2 DEF Evidence, Retrievable
<1>3. OneExplicitRoute(r)
  BY DEF Evidence, Retrievable, OneExplicitRoute
<1>4. STORAGE \notin r.candidates[i].methods
  BY <1>1 DEF STORAGE, REPOSITORY
<1> QED
  BY <1>1, <1>2, <1>3, <1>4

\* The checks that are not of one state.
Checks(r, p) ==
    /\ SelectionValid(r, p) /\ ConflictsValid(r, p) /\ FrozenValid(r, p)
    /\ AliasesValid(r, p) /\ CohortValid(r, p) /\ AdvisoryValid(r, p)

LEMMA SelectionChecks ==
    ASSUME NEW r \in Evidence, Compatible(r) # <<>>, ~ExactConflict(r, FROZEN), ~ExactConflict(r, STORAGE),
           NEW p, p.selected = 1, p.state \in {"AUTO_ELIGIBLE", "NEEDS_REVIEW", "PENDING_PROGRAMME"},
           p.ai \in {"unasked", "AI_SUPPORTS_LOCAL", "AI_DISAGREES"},
           p.ai # "unasked" => Len(Compatible(r)) \in 2 .. 8,
           p.ai = "AI_DISAGREES" => p.state # "AUTO_ELIGIBLE",
           NEW own, BorneOut(r, p.state, own), p.reasons = Base(r) \cup own \cup Advice(p)
    PROVE  Checks(r, p)
<1>1. own \subseteq OWN /\ Base(r) \subseteq BASE /\ Advice(p) \subseteq {"AI_SUPPORTS_LOCAL", "AI_DISAGREES"}
  BY Bases DEF BorneOut, Advice, Codes
<1>2. SelectionValid(r, p)
  BY DEF SelectionValid
<1>3. ConflictsValid(r, p)
  <2>1. /\ "FROZEN_RESOLVER_EXACT_SEMANTIC_CONFLICT" \notin p.reasons
        /\ "CURATED_STORAGE_ALIAS_SEMANTIC_CONFLICT" \notin p.reasons
    BY <1>1 DEF OWN, BASE
  <2> QED
    BY <2>1 DEF ConflictsValid
<1>4. FrozenValid(r, p)
  <2> DEFINE F == TopHas(r, FROZEN)
             A == TargetRouteAgrees(r)
  <2>1. /\ "FROZEN_RESOLVER_EXACT_TOP" \in p.reasons <=> F
        /\ "TARGET_ROUTE_AGREES" \in p.reasons <=> F /\ A
        /\ "TARGET_ROUTE_MISMATCH" \in p.reasons <=> F /\ ~A
    <3> HIDE DEF F, A
    <3>1. /\ "FROZEN_RESOLVER_EXACT_TOP" \in Base(r) <=> F
          /\ "TARGET_ROUTE_AGREES" \in Base(r) <=> F /\ A
          /\ "TARGET_ROUTE_MISMATCH" \in Base(r) <=> F /\ ~A
      BY Bases DEF F, A
    <3> QED
      BY <1>1, <3>1 DEF OWN
  <2>2. /\ "MARKET_ROUTE_EXPLICIT" \in p.reasons <=> OneExplicitRoute(r)
        /\ "MARKET_UNKNOWN" \in p.reasons <=> ~OneExplicitRoute(r)
    <3>1. /\ "MARKET_ROUTE_EXPLICIT" \in Base(r) <=> OneExplicitRoute(r)
          /\ "MARKET_UNKNOWN" \in Base(r) <=> ~OneExplicitRoute(r)
      BY Bases
    <3> QED
      BY <1>1, <3>1 DEF OWN
  <2>3. /\ {"FROZEN_RESOLVER_EXACT_SCORE_OVERRIDE", "LANE_FROZEN_RESOLVER_EXACT"} \cap p.reasons # {} =>
              p.state = "AUTO_ELIGIBLE" /\ F
        /\ "FROZEN_RESOLVER_EXACT_GATES_FAILED" \in p.reasons => p.state = "NEEDS_REVIEW" /\ F
    <3> HIDE DEF F
    <3>1. /\ own \cap {"FROZEN_RESOLVER_EXACT_SCORE_OVERRIDE", "LANE_FROZEN_RESOLVER_EXACT"} # {} =>
                p.state = "AUTO_ELIGIBLE" /\ F
          /\ "FROZEN_RESOLVER_EXACT_GATES_FAILED" \in own => p.state = "NEEDS_REVIEW" /\ F
      BY DEF BorneOut, F
    <3> QED
      BY <1>1, <3>1 DEF BASE
  <2>4. A => OneExplicitRoute(r)
    BY DEF TargetRouteAgrees
  <2>5. SelectedHas(r, p, FROZEN) <=> F
    BY DEF SelectedHas
  <2> HIDE DEF F, A
  <2>6. ASSUME F PROVE Cardinality({"TARGET_ROUTE_AGREES", "TARGET_ROUTE_MISMATCH"} \cap p.reasons) = 1
    <3>1. CASE A
      <4>1. {"TARGET_ROUTE_AGREES", "TARGET_ROUTE_MISMATCH"} \cap p.reasons = {"TARGET_ROUTE_AGREES"}
        BY <2>1, <2>6, <3>1
      <4> QED
        BY <4>1, FS_Singleton
    <3>2. CASE ~A
      <4>1. {"TARGET_ROUTE_AGREES", "TARGET_ROUTE_MISMATCH"} \cap p.reasons = {"TARGET_ROUTE_MISMATCH"}
        BY <2>1, <2>6, <3>2
      <4> QED
        BY <4>1, FS_Singleton
    <3> QED
      BY <3>1, <3>2
  <2>7. ~F => p.reasons \cap FrozenCodes = {}
    BY <2>1, <2>3 DEF FrozenCodes
  <2> QED
    BY <2>1, <2>2, <2>3, <2>4, <2>5, <2>6, <2>7 DEF FrozenValid, A
<1>5. AliasesValid(r, p)
  <2>1. p.reasons \cap StorageCodes # {} => p.state = "AUTO_ELIGIBLE" /\ SelectedHas(r, p, STORAGE)
    <3>1. p.reasons \cap StorageCodes = own \cap StorageCodes
      BY <1>1 DEF StorageCodes, STORAGE, BASE
    <3> QED
      BY <3>1 DEF BorneOut, SelectedHas
  <2>2. p.reasons \cap RepositoryCodes # {} => p.state = "AUTO_ELIGIBLE" /\ SelectedHas(r, p, REPOSITORY)
    <3>1. p.reasons \cap RepositoryCodes = own \cap RepositoryCodes
      BY <1>1 DEF RepositoryCodes, BASE
    <3> QED
      BY <3>1 DEF BorneOut, SelectedHas
  <2> QED
    BY <2>1, <2>2, OneRepositoryName DEF AliasesValid
<1>6. CohortValid(r, p)
  <2>1. r.risk \in BOOLEAN
    BY DEF Evidence
  <2>2. /\ "COHORT_CONSERVATIVE" \in Base(r) <=> r.risk = TRUE
        /\ "COHORT_STANDARD" \in Base(r) <=> r.risk = FALSE
    BY Bases
  <2>3. /\ "COHORT_CONSERVATIVE" \in p.reasons <=> r.risk = TRUE
        /\ "COHORT_STANDARD" \in p.reasons <=> r.risk = FALSE
    BY <1>1, <2>2 DEF OWN
  <2> QED
    BY <2>1, <2>3 DEF CohortValid
<1>7. AdvisoryValid(r, p)
  <2>1. p.reasons \cap {"AI_SUPPORTS_LOCAL", "AI_DISAGREES"} = Advice(p)
    BY <1>1 DEF OWN, BASE
  <2> QED
    BY <2>1 DEF AdvisoryValid, Advice
<1> QED
  BY <1>2, <1>3, <1>4, <1>5, <1>6, <1>7 DEF Checks

-----------------------------------------------------------------------------
(* The proposals.                                                            *)

\* Where a selection was made of the evidence.
Selectable(r) ==
    /\ Compatible(r) # <<>> /\ ~ExactConflict(r, FROZEN) /\ ~ExactConflict(r, STORAGE)
    /\ Score(r) >= Minimum \/ \E m \in {FROZEN, STORAGE, REPOSITORY} : TopHas(r, m)

\* The AI answers about a shortlist.
Asked(r, p) ==
    /\ p.ai \in {"unasked", "AI_SUPPORTS_LOCAL", "AI_DISAGREES"}
    /\ p.ai # "unasked" => Len(Compatible(r)) \in 2 .. 8

Refused(r, p) ==
    /\ p.selected = 0 /\ p.ai = "unasked"
    /\ \/ r.candidates = <<>> /\ p.state = "BLOCKED_ALERT" /\ p.reasons = {"OPEN_SYNC_ALERT"}
       \/ p.state \in {"CONFLICT", "ABSTAIN"}
    /\ p.reasons \subseteq
          {"OPEN_SYNC_ALERT", "ROW_NOT_DISABLED_REVIEW", "LANE_ABSTAIN", "LANE_CONFLICT", "PROTECTED_SEMANTICS_CONFLICT",
           "PREFILLED_ID_UNTRUSTED_EVIDENCE", "COHORT_CONSERVATIVE", "COHORT_STANDARD",
           "FROZEN_RESOLVER_EXACT_SEMANTIC_CONFLICT", "CURATED_STORAGE_ALIAS_SEMANTIC_CONFLICT"}
    /\ ~TwoConflicts(r) => ConflictsValid(r, p)

Unverified(r, p) ==
    /\ Selectable(r) /\ Top(r).programme = "FAIL"
    /\ Score(r) >= Minimum \/ TopHas(r, FROZEN) \/ TopHas(r, STORAGE)
    /\ p.selected = 1 /\ p.ai = "unasked" /\ p.state = "PENDING_PROGRAMME"
    /\ p.reasons = Base(r) \cup {"PROGRAMME_GATE_FAILED", "LANE_PROGRAMME_VERIFICATION"}

Placed(r, p) ==
    /\ Selectable(r) /\ Top(r).programme = "PASS" /\ InLane(r, p) /\ Asked(r, p)
    /\ p.ai = "AI_DISAGREES" => p.state = "NEEDS_REVIEW"

\* A selection that the AI took its lane back from.
Demoted(r, p) ==
    /\ Selectable(r) /\ Top(r).programme = "PASS" /\ Asked(r, p) /\ p.ai = "AI_DISAGREES"
    /\ p.selected = 1 /\ p.state = "NEEDS_REVIEW" /\ Lane(r).state = "AUTO_ELIGIBLE"
    /\ p.reasons = Base(r) \cup (((Lane(r).codes \cup {"PROGRAMME_GATE_PASSED"}) \ LaneCodes) \cup {"LANE_HUMAN_REVIEW"})
                   \cup Advice(p)

LEMMA RefusedValidates ==
    ASSUME NEW r \in Evidence, NEW p, Refused(r, p), ~TwoConflicts(r)
    PROVE  Validates(r, p)
<1>1. /\ p.selected = 0 /\ p.ai = "unasked" /\ p.state \in {"BLOCKED_ALERT", "CONFLICT", "ABSTAIN"}
      /\ p.state = "BLOCKED_ALERT" => p.reasons = {"OPEN_SYNC_ALERT"} /\ r.candidates = <<>>
      /\ ConflictsValid(r, p)
  BY DEF Refused
<1>2. p.reasons \subseteq
          {"OPEN_SYNC_ALERT", "ROW_NOT_DISABLED_REVIEW", "LANE_ABSTAIN", "LANE_CONFLICT", "PROTECTED_SEMANTICS_CONFLICT",
           "PREFILLED_ID_UNTRUSTED_EVIDENCE", "COHORT_CONSERVATIVE", "COHORT_STANDARD",
           "FROZEN_RESOLVER_EXACT_SEMANTIC_CONFLICT", "CURATED_STORAGE_ALIAS_SEMANTIC_CONFLICT"}
  BY DEF Refused
<1>3. SelectionValid(r, p) /\ CohortValid(r, p)
  BY <1>1 DEF SelectionValid, CohortValid
<1>4. FrozenValid(r, p)
  <2>1. p.reasons \cap FrozenCodes = {}
    BY <1>2 DEF FrozenCodes
  <2>2. /\ {"FROZEN_RESOLVER_EXACT_SCORE_OVERRIDE", "LANE_FROZEN_RESOLVER_EXACT"} \cap p.reasons = {}
        /\ "FROZEN_RESOLVER_EXACT_GATES_FAILED" \notin p.reasons
    BY <1>2
  <2>3. ~SelectedHas(r, p, FROZEN)
    BY <1>1 DEF SelectedHas
  <2> QED
    BY <2>1, <2>2, <2>3 DEF FrozenValid
<1>5. AliasesValid(r, p)
  <2>1. p.reasons \cap StorageCodes = {} /\ p.reasons \cap RepositoryCodes = {}
    BY <1>2 DEF StorageCodes, STORAGE, RepositoryCodes
  <2> QED
    BY <2>1, OneRepositoryName DEF AliasesValid
<1>6. AdvisoryValid(r, p)
  <2>1. p.reasons \cap {"AI_SUPPORTS_LOCAL", "AI_DISAGREES"} = {}
    BY <1>2
  <2> QED
    BY <1>1, <2>1 DEF AdvisoryValid, Codes
<1> QED
  BY <1>1, <1>3, <1>4, <1>5, <1>6 DEF Validates

LEMMA UnverifiedValidates ==
    ASSUME NEW r \in Evidence, NEW p, Unverified(r, p)
    PROVE  Validates(r, p)
<1> DEFINE own == {"PROGRAMME_GATE_FAILED", "LANE_PROGRAMME_VERIFICATION"}
<1>1. /\ Compatible(r) # <<>> /\ ~ExactConflict(r, FROZEN) /\ ~ExactConflict(r, STORAGE)
      /\ p.selected = 1 /\ p.ai = "unasked" /\ p.state = "PENDING_PROGRAMME" /\ Top(r).programme = "FAIL"
  BY DEF Unverified, Selectable
<1>2. BorneOut(r, p.state, own)
  BY DEF BorneOut, OWN, StorageCodes, STORAGE, RepositoryCodes
<1>3. p.reasons = Base(r) \cup own \cup Advice(p)
  BY <1>1 DEF Unverified, Advice, Codes
<1>4. Checks(r, p)
  BY <1>1, <1>2, <1>3, SelectionChecks
<1>5. PendingValid(r, p)
  <2>1. Base(r) \subseteq BASE /\ Corroborated(p)
    BY <1>3, Bases DEF Corroborated
  <2>2. "PROGRAMME_GATE_PASSED" \notin p.reasons /\ {"LANE_PROGRAMME_VERIFICATION", "PROGRAMME_GATE_FAILED"} \subseteq p.reasons
    BY <1>1, <1>3, <2>1 DEF BASE, Advice, Codes
  <2>3. Score(r) >= Minimum \/ TopHas(r, FROZEN) \/ TopHas(r, STORAGE)
    BY DEF Unverified
  <2> QED
    BY <1>1, <2>1, <2>2, <2>3 DEF PendingValid
<1> QED
  BY <1>1, <1>4, <1>5 DEF Validates, Checks

LEMMA ReviewLane ==
    ASSUME NEW r \in Evidence, NEW p, Placed(r, p), p.state = "NEEDS_REVIEW"
    PROVE  ReviewValid(r, p) /\ (TopHas(r, FROZEN) => FrozenReviewValid(r, p))
<1> DEFINE F == TopHas(r, FROZEN)
           own == Lane(r).codes \cup {"PROGRAMME_GATE_PASSED"}
<1>1. /\ Compatible(r) # <<>> /\ Top(r).programme = "PASS" /\ Lane(r).state = "NEEDS_REVIEW"
      /\ Score(r) >= Minimum \/ \E m \in {FROZEN, STORAGE, REPOSITORY} : TopHas(r, m)
      /\ p.ai \in {"unasked", "AI_SUPPORTS_LOCAL", "AI_DISAGREES"}
      /\ p.reasons = Base(r) \cup own \cup Advice(p)
  BY DEF Placed, Selectable, InLane
<1>2. ~RepositoryReady(r) /\ ~TrustedAlias(r) /\ ~ConservativeStrict(r) /\ ~StandardStrong(r) /\ ~(F /\ FrozenReady(r))
  BY <1>1 DEF Lane, Shadow
<1>3. /\ own \subseteq {"LANE_HUMAN_REVIEW", "FROZEN_RESOLVER_EXACT_GATES_FAILED", "MULTI_SIGNAL_STRONG_PROPOSAL",
                        "PROGRAMME_GATE_PASSED"}
      /\ {"LANE_HUMAN_REVIEW", "PROGRAMME_GATE_PASSED"} \subseteq own
      /\ F => "FROZEN_RESOLVER_EXACT_GATES_FAILED" \in own
  BY <1>2 DEF Lane, Codes
<1>4. Base(r) \subseteq BASE /\ Corroborated(p) /\ Advice(p) \subseteq {"AI_SUPPORTS_LOCAL", "AI_DISAGREES"}
  BY <1>1, Bases DEF Corroborated, Advice, Codes
<1> HIDE DEF own
<1>5. ReviewValid(r, p)
  <2>1. {"LANE_HUMAN_REVIEW", "PROGRAMME_GATE_PASSED"} \subseteq p.reasons /\ "PROGRAMME_GATE_FAILED" \notin p.reasons
    BY <1>1, <1>3, <1>4 DEF BASE
  <2> QED
    BY <1>1, <1>4, <2>1 DEF ReviewValid
<1>6. ASSUME F PROVE FrozenReviewValid(r, p)
  <2> DEFINE close == Separation(r) < Margin
  <2>1. ~FrozenReady(r) /\ "FROZEN_RESOLVER_EXACT_GATES_FAILED" \in p.reasons /\ ~Independent(r)
    BY <1>1, <1>2, <1>3, <1>6, Gates
  <2>2. r.alerts \in BOOLEAN /\ r.risk \in BOOLEAN /\ r.prefilled \in BOOLEAN /\ (Separation(r) >= Margin <=> ~close)
    BY ScoreType DEF Evidence
  <2>3. /\ "ALERT_SNAPSHOT_MISSING" \in Base(r) <=> r.alerts = FALSE
        /\ "TARGET_ROUTE_MISMATCH" \in Base(r) <=> F /\ ~TargetRouteAgrees(r)
        /\ "PREFILLED_ID_UNTRUSTED_EVIDENCE" \in Base(r) <=> r.prefilled = TRUE
    BY Bases
  <2>4. /\ "ALERT_SNAPSHOT_MISSING" \in p.reasons <=> r.alerts = FALSE
        /\ "TARGET_ROUTE_MISMATCH" \in p.reasons <=> ~TargetRouteAgrees(r)
        /\ "PREFILLED_ID_UNTRUSTED_EVIDENCE" \in p.reasons <=> r.prefilled = TRUE
    BY <1>1, <1>3, <1>4, <1>6, <2>3
  <2>5. \/ r.alerts = FALSE \/ ~TargetRouteAgrees(r)
        \/ ~Single(r) /\ (ExactFamilies(r) # {1} \/ close \/ r.risk = TRUE \/ r.prefilled = TRUE)
    <3>1. FrozenReady(r) <=>
             /\ r.alerts = TRUE /\ TargetRouteAgrees(r)
             /\ \/ Single(r)
                \/ ExactFamilies(r) = {1} /\ Separation(r) >= Margin /\ r.risk = FALSE /\ r.prefilled = FALSE
      BY <1>1, Gates
    <3> QED
      BY <2>1, <2>2, <3>1
  <2>6. /\ "AMBIGUOUS_CANDIDATES" \in Base(r) <=> ~Single(r) /\ ExactFamilies(r) # {1}
        /\ "LOW_MARGIN" \in Base(r) <=> ~Single(r) /\ close
        /\ "MARGIN_GATE_PASSED" \in Base(r) <=> ~Single(r) /\ ~close
    <3>1. /\ "AMBIGUOUS_CANDIDATES" \in MarginCodes(r) <=> ~Single(r) /\ ExactFamilies(r) # {1}
          /\ "LOW_MARGIN" \in MarginCodes(r) <=> ~Single(r) /\ close
          /\ "MARGIN_GATE_PASSED" \in MarginCodes(r) <=> ~Single(r) /\ ~close
      BY <1>2, <1>6, <2>1, Margins
    <3>2. \A code \in MARGINS : code \in Base(r) <=> code \in MarginCodes(r)
      BY Bases
    <3> QED
      BY <3>1, <3>2 DEF MARGINS
  <2>7. /\ "AMBIGUOUS_CANDIDATES" \in p.reasons <=> ~Single(r) /\ ExactFamilies(r) # {1}
        /\ "LOW_MARGIN" \in p.reasons <=> ~Single(r) /\ close
        /\ "MARGIN_GATE_PASSED" \in p.reasons <=> ~Single(r) /\ ~close
    BY <1>1, <1>3, <1>4, <2>6
  <2>8. \/ {"ALERT_SNAPSHOT_MISSING", "MARKET_UNKNOWN", "TARGET_ROUTE_MISMATCH"} \cap p.reasons # {}
        \/ ~Single(r) /\ ExactFamilies(r) # {1}
        \/ ~Single(r) /\ close
        \/ ~Single(r) /\ (r.risk \/ "PREFILLED_ID_UNTRUSTED_EVIDENCE" \in p.reasons)
    <3>1. CASE r.alerts = FALSE \/ ~TargetRouteAgrees(r)
      BY <2>4, <3>1
    <3>2. CASE ~Single(r) /\ (ExactFamilies(r) # {1} \/ close)
      BY <3>2
    <3>3. CASE ~Single(r) /\ r.risk = TRUE
      BY <3>3
    <3>4. CASE ~Single(r) /\ r.prefilled = TRUE
      BY <2>4, <3>4
    <3> QED
      BY <2>5, <3>1, <3>2, <3>3, <3>4
  <2> QED
    BY <2>1, <2>7, <2>8 DEF FrozenReviewValid, close
<1> QED
  BY <1>5, <1>6

LEMMA AutomaticLane ==
    ASSUME NEW r \in Evidence, NEW p, Placed(r, p), p.state = "AUTO_ELIGIBLE"
    PROVE  AutoValid(r, p)
<1>1. Compatible(r) # <<>> /\ Top(r).programme = "PASS" /\ InLane(r, p) /\ Lane(r).state = "AUTO_ELIGIBLE"
  BY DEF Placed, Selectable, InLane
<1>2. CASE RepositoryReady(r)
  BY <1>1, <1>2, RepositoryLane DEF AutoValid, AutoLanes
<1>3. CASE ~RepositoryReady(r) /\ TrustedAlias(r)
  BY <1>1, <1>3, TrustedLane DEF AutoValid, AutoLanes
<1>4. CASE ~RepositoryReady(r) /\ ~TrustedAlias(r) /\ ConservativeStrict(r)
  BY <1>1, <1>4, ConservativeLane DEF AutoValid, AutoLanes
<1>5. CASE ~RepositoryReady(r) /\ ~TrustedAlias(r) /\ ~ConservativeStrict(r) /\ StandardStrong(r)
  BY <1>1, <1>5, StandardLane DEF AutoValid, AutoLanes
<1>6. CASE ~RepositoryReady(r) /\ ~Independent(r) /\ TopHas(r, FROZEN) /\ FrozenReady(r)
  BY <1>1, <1>6, FrozenLane DEF AutoValid, AutoLanes
<1>7. CASE ~RepositoryReady(r) /\ ~Independent(r) /\ ~(TopHas(r, FROZEN) /\ FrozenReady(r))
  BY <1>1, <1>7, Gates DEF Lane
<1> QED
  BY <1>1, <1>2, <1>3, <1>4, <1>5, <1>6, <1>7, Gates

LEMMA PlacedValidates ==
    ASSUME NEW r \in Evidence, NEW p, Placed(r, p)
    PROVE  Validates(r, p)
<1> DEFINE own == Lane(r).codes \cup {"PROGRAMME_GATE_PASSED"}
<1>1. /\ Compatible(r) # <<>> /\ ~ExactConflict(r, FROZEN) /\ ~ExactConflict(r, STORAGE)
      /\ p.selected = 1 /\ p.state = Lane(r).state /\ p.reasons = Base(r) \cup own \cup Advice(p)
      /\ p.ai \in {"unasked", "AI_SUPPORTS_LOCAL", "AI_DISAGREES"}
      /\ p.ai # "unasked" => Len(Compatible(r)) \in 2 .. 8
      /\ p.ai = "AI_DISAGREES" => p.state # "AUTO_ELIGIBLE"
  BY DEF Placed, Selectable, InLane, Asked
<1>2. p.state \in {"AUTO_ELIGIBLE", "NEEDS_REVIEW"} /\ BorneOut(r, p.state, own)
  BY <1>1, LaneBorneOut
<1> HIDE DEF own
<1>3. Checks(r, p)
  BY <1>1, <1>2, SelectionChecks
<1> QED
  BY <1>2, <1>3, ReviewLane, AutomaticLane DEF Validates, Checks

LEMMA DemotedValidates ==
    ASSUME NEW r \in Evidence, NEW p, Demoted(r, p)
    PROVE  Validates(r, p)
<1> DEFINE placed == Lane(r).codes \cup {"PROGRAMME_GATE_PASSED"}
           own == (placed \ LaneCodes) \cup {"LANE_HUMAN_REVIEW"}
<1>1. /\ Compatible(r) # <<>> /\ ~ExactConflict(r, FROZEN) /\ ~ExactConflict(r, STORAGE)
      /\ Top(r).programme = "PASS"
      /\ Score(r) >= Minimum \/ \E m \in {FROZEN, STORAGE, REPOSITORY} : TopHas(r, m)
      /\ p.selected = 1 /\ p.state = "NEEDS_REVIEW" /\ p.reasons = Base(r) \cup own \cup Advice(p)
      /\ p.ai = "AI_DISAGREES" /\ Len(Compatible(r)) \in 2 .. 8
  BY DEF Demoted, Selectable, Asked
<1>2. BorneOut(r, "AUTO_ELIGIBLE", placed)
  BY <1>1, LaneBorneOut DEF Demoted
<1>3. "PROGRAMME_GATE_PASSED" \in placed /\ "FROZEN_RESOLVER_EXACT_GATES_FAILED" \notin placed /\ placed \subseteq OWN
  BY <1>2 DEF BorneOut
<1>4. "PROGRAMME_GATE_FAILED" \notin placed
  BY DEF Lane, Shadow, Codes, STORAGE
<1> HIDE DEF placed
<1>5. /\ own \subseteq OWN /\ {"LANE_HUMAN_REVIEW", "PROGRAMME_GATE_PASSED"} \subseteq own
      /\ "FROZEN_RESOLVER_EXACT_GATES_FAILED" \notin own /\ "PROGRAMME_GATE_FAILED" \notin own
      /\ own \cap {"FROZEN_RESOLVER_EXACT_SCORE_OVERRIDE", "LANE_FROZEN_RESOLVER_EXACT"} = {}
      /\ own \cap StorageCodes = {} /\ own \cap RepositoryCodes = {}
  BY <1>3, <1>4 DEF LaneCodes, OWN, StorageCodes, STORAGE, RepositoryCodes
<1> HIDE DEF own
<1>6. BorneOut(r, p.state, own)
  BY <1>5 DEF BorneOut
<1>7. Checks(r, p)
  BY <1>1, <1>6, SelectionChecks
<1>8. Base(r) \subseteq BASE /\ Corroborated(p) /\ Advice(p) \subseteq {"AI_SUPPORTS_LOCAL", "AI_DISAGREES"}
  BY <1>1, Bases DEF Corroborated, Advice, Codes
<1>9. /\ {"LANE_HUMAN_REVIEW", "PROGRAMME_GATE_PASSED"} \subseteq p.reasons
      /\ "PROGRAMME_GATE_FAILED" \notin p.reasons /\ "FROZEN_RESOLVER_EXACT_GATES_FAILED" \notin p.reasons
  BY <1>1, <1>5, <1>8 DEF BASE
<1>10. ReviewValid(r, p) /\ FrozenReviewValid(r, p)
  BY <1>1, <1>8, <1>9 DEF ReviewValid, FrozenReviewValid
<1> QED
  BY <1>1, <1>7, <1>10 DEF Validates, Checks

-----------------------------------------------------------------------------
(* Decisions are validated.                                                  *)

LEMMA NoConflict ==
    ASSUME NEW r, NEW p, ~ExactConflict(r, FROZEN), ~ExactConflict(r, STORAGE),
           "FROZEN_RESOLVER_EXACT_SEMANTIC_CONFLICT" \notin p.reasons,
           "CURATED_STORAGE_ALIAS_SEMANTIC_CONFLICT" \notin p.reasons
    PROVE  ConflictsValid(r, p)
BY DEF ConflictsValid

LEMMA DecisionCases ==
    ASSUME NEW r \in Evidence
    PROVE  LET p == Decision(r) IN
           \/ Refused(r, p)
           \/ Unverified(r, p)
           \/ /\ Placed(r, p) /\ p.ai = "unasked"
              /\ p = [state |-> p.state, reasons |-> p.reasons, selected |-> p.selected, ai |-> p.ai]
<1> DEFINE p == Decision(r)
           evidence == Codes(r.prefilled, {"PREFILLED_ID_UNTRUSTED_EVIDENCE"})
                       \cup {IF r.risk THEN "COHORT_CONSERVATIVE" ELSE "COHORT_STANDARD"}
           conflict == {"LANE_CONFLICT", "PROTECTED_SEMANTICS_CONFLICT"}
<1>1. evidence \subseteq {"PREFILLED_ID_UNTRUSTED_EVIDENCE", "COHORT_CONSERVATIVE", "COHORT_STANDARD"}
  BY DEF Codes
<1>2. r.excluded \in {"no", "blocked", "ineligible", "unsupported"}
  BY DEF Evidence
<1>3. CASE r.excluded # "no"
  <2>1. r.candidates = <<>> /\ ~ExactConflict(r, FROZEN) /\ ~ExactConflict(r, STORAGE)
    BY <1>3 DEF Evidence, ExactConflict
  <2>2. p.selected = 0 /\ p.ai = "unasked"
    BY <1>2, <1>3 DEF Decision, NoProposal
  <2>3. \/ p.state = "BLOCKED_ALERT" /\ p.reasons = {"OPEN_SYNC_ALERT"}
        \/ p.state = "CONFLICT" /\ p.reasons = {"ROW_NOT_DISABLED_REVIEW"}
        \/ p.state = "ABSTAIN" /\ p.reasons = evidence \cup {"LANE_ABSTAIN"}
    BY <1>2, <1>3 DEF Decision, NoProposal
  <2> HIDE DEF p, evidence
  <2>4. ConflictsValid(r, p)
    BY <1>1, <2>1, <2>3, NoConflict
  <2> QED
    BY <1>1, <2>1, <2>2, <2>3, <2>4 DEF Refused, p
<1>4. CASE r.excluded = "no" /\ ExactConflict(r, FROZEN)
  <2>1. /\ p.selected = 0 /\ p.ai = "unasked" /\ p.state = "CONFLICT"
        /\ p.reasons = evidence \cup {"FROZEN_RESOLVER_EXACT_SEMANTIC_CONFLICT"} \cup conflict
    BY <1>4 DEF Decision, NoProposal
  <2> HIDE DEF p, evidence
  <2>2. ~TwoConflicts(r) => ConflictsValid(r, p)
    BY <1>1, <1>4, <2>1 DEF ConflictsValid, TwoConflicts
  <2> QED
    BY <1>1, <2>1, <2>2 DEF Refused, p
<1>5. CASE r.excluded = "no" /\ ~ExactConflict(r, FROZEN) /\ ExactConflict(r, STORAGE)
  <2>1. /\ p.selected = 0 /\ p.ai = "unasked" /\ p.state = "CONFLICT"
        /\ p.reasons = evidence \cup {"CURATED_STORAGE_ALIAS_SEMANTIC_CONFLICT"} \cup conflict
    BY <1>5 DEF Decision, NoProposal
  <2> HIDE DEF p, evidence
  <2>2. ConflictsValid(r, p)
    BY <1>1, <1>5, <2>1 DEF ConflictsValid
  <2> QED
    BY <1>1, <2>1, <2>2 DEF Refused, p
<1> DEFINE low == Score(r) < Minimum /\ ~TopHas(r, FROZEN) /\ ~TopHas(r, STORAGE) /\ ~RepositoryReady(r)
           free == r.excluded = "no" /\ ~ExactConflict(r, FROZEN) /\ ~ExactConflict(r, STORAGE)
<1>6. CASE free /\ (r.candidates = <<>> \/ Compatible(r) = <<>> \/ low)
  <2>1. /\ p.selected = 0 /\ p.ai = "unasked"
        /\ \/ p.state = "ABSTAIN" /\ p.reasons = evidence \cup {"LANE_ABSTAIN"}
           \/ p.state = "CONFLICT" /\ p.reasons = evidence \cup {} \cup conflict
    <3> HIDE DEF evidence, conflict
    <3> QED
      BY <1>6 DEF Decision, NoProposal, evidence, conflict
  <2> HIDE DEF p, evidence
  <2>2. ConflictsValid(r, p)
    BY <1>1, <1>6, <2>1, NoConflict
  <2> QED
    BY <1>1, <2>1, <2>2 DEF Refused, p
<1>7. CASE free /\ r.candidates # <<>> /\ Compatible(r) # <<>> /\ ~low
  <2>1. Selectable(r) /\ (Score(r) >= Minimum \/ TopHas(r, FROZEN) \/ TopHas(r, STORAGE) \/ RepositoryReady(r))
    <3>1. Score(r) >= Minimum \/ TopHas(r, FROZEN) \/ TopHas(r, STORAGE) \/ RepositoryReady(r)
      BY <1>7, ScoreType
    <3>2. RepositoryReady(r) => TopHas(r, REPOSITORY)
      BY DEF RepositoryReady
    <3> QED
      BY <1>7, <3>1, <3>2 DEF Selectable
  <2>2. CASE Top(r).programme = "FAIL"
    <3>1. /\ p.selected = 1 /\ p.ai = "unasked" /\ p.state = "PENDING_PROGRAMME"
          /\ p.reasons = evidence \cup SelectedCodes(r) \cup {"PROGRAMME_GATE_FAILED", "LANE_PROGRAMME_VERIFICATION"}
      BY <1>7, <2>2 DEF Decision
    <3>2. p.reasons = Base(r) \cup {"PROGRAMME_GATE_FAILED", "LANE_PROGRAMME_VERIFICATION"}
      BY <3>1 DEF Base
    <3>3. ~RepositoryReady(r)
      BY <2>2 DEF RepositoryReady
    <3> QED
      BY <2>1, <2>2, <3>1, <3>2, <3>3 DEF Unverified
  <2>3. CASE Top(r).programme = "PASS"
    <3>1. /\ p.selected = 1 /\ p.ai = "unasked" /\ p.state = Lane(r).state
          /\ p.reasons = evidence \cup SelectedCodes(r) \cup (Lane(r).codes \cup {"PROGRAMME_GATE_PASSED"})
      BY <1>7, <2>3 DEF Decision
    <3>2. p.reasons = Base(r) \cup Lane(r).codes \cup {"PROGRAMME_GATE_PASSED"} \cup Advice(p)
      <4>1. Advice(p) = {}
        BY <3>1 DEF Advice, Codes
      <4> HIDE DEF p
      <4> QED
        BY <3>1, <4>1 DEF Base
    <3>3. p = [state |-> p.state, reasons |-> p.reasons, selected |-> p.selected, ai |-> p.ai]
      BY <1>7, <2>3 DEF Decision
    <3> HIDE DEF p
    <3>4. InLane(r, p)
      BY <3>1, <3>2 DEF InLane
    <3>5. Placed(r, p)
      BY <2>1, <2>3, <3>1, <3>4 DEF Placed, Asked
    <3> QED
      BY <3>1, <3>3, <3>5 DEF p
  <2> QED
    BY <1>7, <2>2, <2>3, Methods
<1> QED
  BY <1>3, <1>4, <1>5, <1>6, <1>7

\* What the answer makes of a selection.
LEMMA AdvisedCases ==
    ASSUME NEW r \in Evidence, NEW p, Placed(r, p), p.ai = "unasked",
           p = [state |-> p.state, reasons |-> p.reasons, selected |-> p.selected, ai |-> p.ai],
           Len(Compatible(r)) \in 2 .. 8, NEW answer \in {"AI_SUPPORTS_LOCAL", "AI_DISAGREES"}
    PROVE  Advised(p, answer).ai # "unasked" /\ (Placed(r, Advised(p, answer)) \/ Demoted(r, Advised(p, answer)))
<1> DEFINE q == Advised(p, answer)
           codes == Lane(r).codes \cup {"PROGRAMME_GATE_PASSED"}
<1>1. /\ Selectable(r) /\ Top(r).programme = "PASS" /\ p.selected = 1 /\ p.state = Lane(r).state
      /\ p.reasons = Base(r) \cup codes
  <2>1. Advice(p) = {}
    BY DEF Advice, Codes
  <2> QED
    BY <2>1 DEF Placed, InLane
<1>2. p.state \in {"AUTO_ELIGIBLE", "NEEDS_REVIEW"}
  BY <1>1, LaneBorneOut DEF Selectable
<1> HIDE DEF codes
<1>3. CASE answer # "AI_SUPPORTS_LOCAL" /\ p.state = "AUTO_ELIGIBLE"
  <2>1. /\ q.ai = "AI_DISAGREES" /\ q.selected = 1 /\ q.state = "NEEDS_REVIEW"
        /\ q.reasons = (p.reasons \ LaneCodes) \cup {"LANE_HUMAN_REVIEW", answer}
    BY <1>1, <1>3 DEF Advised
  <2> HIDE DEF q
  <2>2. Base(r) \subseteq BASE
    BY Bases
  <2>3. Advice(q) = {answer}
    BY <1>3, <2>1 DEF Advice, Codes
  <2>4. (p.reasons \ LaneCodes) \cup {"LANE_HUMAN_REVIEW", answer}
          = Base(r) \cup ((codes \ LaneCodes) \cup {"LANE_HUMAN_REVIEW"}) \cup {answer}
    BY <1>1, <2>2 DEF BASE, LaneCodes, STORAGE
  <2>5. Demoted(r, q)
    BY <1>1, <1>3, <2>1, <2>3, <2>4 DEF Demoted, Asked, codes
  <2> QED
    BY <2>1, <2>5 DEF q
<1>4. CASE ~(answer # "AI_SUPPORTS_LOCAL" /\ p.state = "AUTO_ELIGIBLE")
  <2>1. q.ai = answer /\ q.selected = 1 /\ q.state = p.state /\ q.reasons = p.reasons \cup {answer}
    BY <1>1, <1>4 DEF Advised
  <2> HIDE DEF q
  <2>2. Advice(q) = {answer}
    BY <2>1 DEF Advice, Codes
  <2>3. InLane(r, q)
    BY <1>1, <2>1, <2>2 DEF InLane, codes
  <2>4. Placed(r, q)
    BY <1>1, <1>2, <1>4, <2>1, <2>3 DEF Placed, Asked
  <2> QED
    BY <2>1, <2>4 DEF q
<1> QED
  BY <1>3, <1>4

LabInv ==
    /\ retrieved \in Evidence
    /\ \/ proposal = NoProposal
       \/ proposal = Decision(retrieved)
       \/ proposal.ai # "unasked" /\ (Placed(retrieved, proposal) \/ Demoted(retrieved, proposal))

LEMMA LabInvInit == LabInit => LabInv
BY DEF LabInit, LabInv, Evidence

LEMMA LabInvStep == LabInv /\ [LabNext]_labVars => LabInv'
<1> SUFFICES ASSUME LabInv, [LabNext]_labVars PROVE LabInv'
  OBVIOUS
<1>1. CASE Decide
  BY <1>1 DEF LabInv, Decide
<1>2. CASE Advise
  <2>1. PICK answer \in {"AI_SUPPORTS_LOCAL", "AI_DISAGREES"} : proposal' = Advised(proposal, answer)
    BY <1>2 DEF Advise
  <2>2. /\ retrieved \in Evidence /\ retrieved' = retrieved /\ proposal.ai = "unasked"
        /\ proposal.state \in {"AUTO_ELIGIBLE", "NEEDS_REVIEW"} /\ Len(Compatible(retrieved)) \in 2 .. 8
    BY <1>2 DEF Advise, LabInv
  <2>3. proposal = Decision(retrieved)
    BY <2>2 DEF LabInv, NoProposal
  <2>4. /\ Placed(retrieved, proposal)
        /\ proposal = [state |-> proposal.state, reasons |-> proposal.reasons,
                       selected |-> proposal.selected, ai |-> proposal.ai]
    BY <2>2, <2>3, DecisionCases DEF Refused, Unverified
  <2>5. LET q == Advised(proposal, answer) IN
        q.ai # "unasked" /\ (Placed(retrieved, q) \/ Demoted(retrieved, q))
    BY <2>2, <2>4, AdvisedCases
  <2> QED
    BY <2>1, <2>2, <2>5 DEF LabInv
<1>3. CASE UNCHANGED labVars
  BY <1>3 DEF LabInv, labVars
<1> QED
  BY <1>1, <1>2, <1>3 DEF LabNext

LEMMA LabInvariant == LabSpec => []LabInv
BY LabInvInit, LabInvStep, PTL DEF LabSpec

\* Whatever was retrieved for a row, the validator accepts the decision the pipeline
\* makes of it and every demotion by the AI's answer after it: the bundle of a run is
\* never refused for a proposal of its own.
THEOREM DecisionsAreValidated == LabSpec => []DecisionsValidate
<1>1. LabInv => DecisionsValidate
  <2> SUFFICES ASSUME LabInv, proposal # NoProposal, ~TwoConflicts(retrieved) PROVE Validates(retrieved, proposal)
    BY DEF DecisionsValidate
  <2>1. CASE proposal = Decision(retrieved)
    BY <2>1, DecisionCases, RefusedValidates, UnverifiedValidates, PlacedValidates DEF LabInv
  <2>2. CASE Placed(retrieved, proposal) \/ Demoted(retrieved, proposal)
    BY <2>2, PlacedValidates, DemotedValidates DEF LabInv
  <2> QED
    BY <2>1, <2>2 DEF LabInv
<1> QED
  BY <1>1, LabInvariant, PTL

-----------------------------------------------------------------------------
(* Evidence of the resolver takes nothing away.                              *)

\* What is left of a target that the resolver does not find.
Unfound(c) == [c EXCEPT !.methods = @ \ {FROZEN}]

LEMMA UnfoundType ==
    ASSUME NEW c \in Candidates, FROZEN \in c.methods
    PROVE  /\ Unfound(c) \in Candidates /\ Unfound(c).methods = c.methods \ {FROZEN}
           /\ Unfound(c).conflict = c.conflict /\ Unfound(c).score = c.score /\ Unfound(c).programme = c.programme
<1>1. c \in [methods : MethodSets, conflict : BOOLEAN, score : Scores, programme : {"PASS", "FAIL"}]
  BY DEF Candidates
<1>2. c.methods \ {FROZEN} \in MethodSets
  <2>1. c.methods # {STORAGE}
    BY DEF STORAGE, FROZEN
  <2>2. PICK name \in {{"STRICT_EXACT"}, {"RELAXED_EXACT"}, {Fuzzy}}, frozen \in {{}, {FROZEN}},
             human \in {{}, {"HUMAN_ALIAS_EXACT"}}, curated \in {{}, {"CURATED_ALIAS_EXACT"}, {"CURATED_ALIAS_EXACT", REPOSITORY}} :
             c.methods = name \cup frozen \cup human \cup curated
    BY <1>1, <2>1 DEF MethodSets
  <2>3. FROZEN \notin name \cup human \cup curated
    BY DEF Fuzzy, FROZEN, REPOSITORY
  <2>4. c.methods \ {FROZEN} = name \cup {} \cup human \cup curated
    BY <2>2, <2>3
  <2> QED
    BY <2>2, <2>4 DEF MethodSets
<1>3. /\ Unfound(c) \in [methods : MethodSets, conflict : BOOLEAN, score : Scores, programme : {"PASS", "FAIL"}]
      /\ Unfound(c).methods = c.methods \ {FROZEN}
      /\ Unfound(c).conflict = c.conflict /\ Unfound(c).score = c.score /\ Unfound(c).programme = c.programme
  BY <1>1, <1>2 DEF Unfound
<1> QED
  BY <1>3 DEF Candidates

LEMMA WithoutFrozenType ==
    ASSUME NEW r \in Evidence, TopHas(r, FROZEN), Retrievable(WithoutFrozen(r).candidates, r.route)
    PROVE  LET q == WithoutFrozen(r) IN
           /\ q \in Evidence /\ DOMAIN q.candidates = DOMAIN r.candidates
           /\ 1 \in DOMAIN r.candidates /\ q.candidates[1] = Unfound(r.candidates[1])
           /\ \A i \in DOMAIN r.candidates : i # 1 => q.candidates[i] = r.candidates[i]
           /\ q.route = r.route /\ q.alerts = r.alerts /\ q.risk = r.risk
           /\ q.prefilled = r.prefilled /\ q.excluded = r.excluded
<1> DEFINE q == WithoutFrozen(r)
           list == r.candidates
<1>1. Compatible(r) # <<>> /\ FROZEN \in Top(r).methods
  BY DEF TopHas
<1>2. 1 \in DOMAIN list /\ list[1] \in Candidates /\ FROZEN \in list[1].methods
  BY <1>1, TopType
<1>3. PICK m \in 0 .. MaxCandidates : list \in [1 .. m -> Candidates]
  BY DEF Evidence, Lists
<1>4. q.candidates = [list EXCEPT ![1] = Unfound(@)]
  BY DEF WithoutFrozen, Unfound, Evidence
<1>5. q.candidates \in [1 .. m -> Candidates]
  BY <1>2, <1>3, <1>4, UnfoundType
<1>6. /\ q.route = r.route /\ q.alerts = r.alerts /\ q.risk = r.risk
      /\ q.prefilled = r.prefilled /\ q.excluded = r.excluded
  BY DEF WithoutFrozen, Evidence
<1>7. q = [candidates |-> q.candidates, route |-> r.route, alerts |-> r.alerts, risk |-> r.risk,
           prefilled |-> r.prefilled, excluded |-> r.excluded]
  <2> DEFINE new == [list EXCEPT ![1] = Unfound(@)]
  <2>1. q = [r EXCEPT !.candidates = new]
    BY DEF WithoutFrozen, Unfound
  <2>2. [r EXCEPT !.candidates = new]
          = [candidates |-> new, route |-> r.route, alerts |-> r.alerts, risk |-> r.risk,
             prefilled |-> r.prefilled, excluded |-> r.excluded]
    <3> HIDE DEF new
    <3> QED
      BY DEF Evidence
  <2> QED
    BY <1>4, <2>1, <2>2
<1>8. r.excluded = "no"
  BY <1>2 DEF Evidence
<1>9. DOMAIN q.candidates = DOMAIN list /\ q.candidates[1] = Unfound(list[1])
      /\ \A i \in DOMAIN list : i # 1 => q.candidates[i] = list[i]
  BY <1>2, <1>3, <1>4
<1> HIDE DEF q, list
<1>10. q.candidates \in Lists
  BY <1>5 DEF Lists
<1>11. q \in Evidence
  BY <1>6, <1>7, <1>8, <1>10 DEF Evidence, q
<1> QED
  BY <1>2, <1>6, <1>9, <1>11 DEF q, list

\* The evidence that the lanes other than the resolver's read is the same.
LEMMA SameEvidence ==
    ASSUME NEW r \in Evidence, TopHas(r, FROZEN), Retrievable(WithoutFrozen(r).candidates, r.route)
    PROVE  LET q == WithoutFrozen(r) IN
           /\ Compatible(r) # <<>> /\ Compatible(q) # <<>>
           /\ Len(Compatible(q)) = Len(Compatible(r))
           /\ Score(q) = Score(r) /\ Separation(q) = Separation(r) /\ Top(q).programme = Top(r).programme
           /\ \A m : TopHas(q, m) <=> m # FROZEN /\ TopHas(r, m)
           /\ OneCurated(q) <=> OneCurated(r)
           /\ CompetingFrozen(q) <=> CompetingFrozen(r)
           /\ ExactConflict(q, STORAGE) <=> ExactConflict(r, STORAGE)
           /\ ~ExactConflict(r, FROZEN)
<1> DEFINE q == WithoutFrozen(r)
           n == Len(Compatible(r))
<1>1. Compatible(r) # <<>> /\ FROZEN \in Top(r).methods
  BY DEF TopHas
<1>2. /\ Top(r) = r.candidates[1] /\ 1 \in DOMAIN r.candidates /\ n \in Nat /\ n >= 1
      /\ Top(r) \in Candidates /\ ~Top(r).conflict
  BY <1>1, TopType
<1>3. /\ q \in Evidence /\ DOMAIN q.candidates = DOMAIN r.candidates
      /\ q.candidates[1] = Unfound(r.candidates[1])
      /\ \A i \in DOMAIN r.candidates : i # 1 => q.candidates[i] = r.candidates[i]
  BY WithoutFrozenType
<1>4. /\ Unfound(Top(r)).methods = Top(r).methods \ {FROZEN} /\ Unfound(Top(r)).conflict = Top(r).conflict
      /\ Unfound(Top(r)).score = Top(r).score /\ Unfound(Top(r)).programme = Top(r).programme
  BY <1>1, <1>2, UnfoundType
<1> HIDE DEF q, n
<1>5. \A i \in DOMAIN r.candidates :
        /\ q.candidates[i].conflict = r.candidates[i].conflict /\ q.candidates[i].score = r.candidates[i].score
        /\ q.candidates[i].methods = IF i = 1 THEN Top(r).methods \ {FROZEN} ELSE r.candidates[i].methods
        /\ q.candidates[i].programme = r.candidates[i].programme
  BY <1>2, <1>3, <1>4
<1>6. Len(Compatible(q)) = n
  <2>1. {i \in DOMAIN q.candidates : ~q.candidates[i].conflict} = {i \in DOMAIN r.candidates : ~r.candidates[i].conflict}
    BY <1>3, <1>5
  <2>2. Len(Compatible(q)) = Cardinality({i \in DOMAIN q.candidates : ~q.candidates[i].conflict})
    BY <1>3, CompatibleType
  <2>3. n = Cardinality({i \in DOMAIN r.candidates : ~r.candidates[i].conflict})
    BY CompatibleType DEF n
  <2> QED
    BY <2>1, <2>2, <2>3
<1>7. \A i \in 1 .. n : /\ i \in DOMAIN r.candidates
                        /\ Compatible(r)[i] = r.candidates[i] /\ Compatible(q)[i] = q.candidates[i]
  <2>1. \A i \in 1 .. n : i \in DOMAIN r.candidates /\ Compatible(r)[i] = r.candidates[i]
    BY CompatibleType DEF n
  <2>2. \A i \in 1 .. n : Compatible(q)[i] = q.candidates[i]
    BY <1>3, <1>6, CompatibleType
  <2> QED
    BY <2>1, <2>2
<1>8. DOMAIN Compatible(r) = 1 .. n /\ DOMAIN Compatible(q) = 1 .. n /\ Compatible(q) # <<>>
  <2>1. DOMAIN Compatible(r) = 1 .. n
    BY CompatibleType DEF n
  <2>2. DOMAIN Compatible(q) = 1 .. n
    BY <1>3, <1>6, CompatibleType
  <2>3. Compatible(q) # <<>>
    BY <1>2, <1>6
  <2> QED
    BY <2>1, <2>2, <2>3
<1>9. 1 \in 1 .. n
  BY <1>2
<1>10. /\ Top(q).methods = Top(r).methods \ {FROZEN} /\ Top(q).score = Top(r).score
       /\ Top(q).programme = Top(r).programme
  BY <1>5, <1>7, <1>9 DEF Top
<1>11. Score(q) = Score(r)
  BY <1>1, <1>8, <1>10 DEF Score
<1>12. Separation(q) = Separation(r)
  <2>1. CASE n < 2
    BY <1>6, <1>11, <2>1 DEF Separation, n
  <2>2. CASE ~(n < 2)
    <3>1. 2 \in 1 .. n
      BY <1>2, <2>2
    <3>2. Compatible(q)[2].score = Compatible(r)[2].score
      BY <1>5, <1>7, <3>1
    <3> QED
      BY <1>6, <1>11, <2>2, <3>2 DEF Separation, n
  <2> QED
    BY <2>1, <2>2
<1>13. \A m : TopHas(q, m) <=> m # FROZEN /\ TopHas(r, m)
  BY <1>1, <1>8, <1>10 DEF TopHas
<1>14. OneCurated(q) <=> OneCurated(r)
  <2>1. \A i \in DOMAIN r.candidates :
          "CURATED_ALIAS_EXACT" \in q.candidates[i].methods <=> "CURATED_ALIAS_EXACT" \in r.candidates[i].methods
    BY <1>2, <1>5 DEF FROZEN
  <2>2. {i \in DOMAIN q.candidates : "CURATED_ALIAS_EXACT" \in q.candidates[i].methods}
          = {i \in DOMAIN r.candidates : "CURATED_ALIAS_EXACT" \in r.candidates[i].methods}
    BY <1>3, <2>1
  <2> QED
    BY <2>2 DEF OneCurated
<1>15. CompetingFrozen(q) <=> CompetingFrozen(r)
  <2>1. \A i \in 1 .. n : i # 1 => Compatible(q)[i].methods = Compatible(r)[i].methods
                                   /\ Compatible(q)[i].programme = Compatible(r)[i].programme
    BY <1>5, <1>7
  <2> QED
    BY <1>8, <2>1 DEF CompetingFrozen
<1>16. ExactConflict(q, STORAGE) <=> ExactConflict(r, STORAGE)
  <2>1. \A i \in DOMAIN r.candidates : STORAGE \in q.candidates[i].methods <=> STORAGE \in r.candidates[i].methods
    BY <1>2, <1>5 DEF FROZEN, STORAGE
  <2> QED
    BY <1>3, <1>5, <2>1 DEF ExactConflict
<1>17. ~ExactConflict(r, FROZEN)
  <2> SUFFICES ASSUME NEW i \in DOMAIN r.candidates, r.candidates[i].conflict, FROZEN \in r.candidates[i].methods
               PROVE  FALSE
    BY DEF ExactConflict
  <2>1. i # 1 /\ i \in Nat \ {0}
    BY <1>2, CompatibleType
  <2>2. 1 < i
    BY <2>1
  <2> QED
    BY <1>1, <1>2, <2>2 DEF Evidence, Retrievable
<1> QED
  BY <1>1, <1>6, <1>8, <1>10, <1>11, <1>12, <1>13, <1>14, <1>15, <1>16, <1>17 DEF q, n

\* Every lane but the resolver's own is as open with its evidence as without.
LEMMA SameLanes ==
    ASSUME NEW r \in Evidence, TopHas(r, FROZEN), Retrievable(WithoutFrozen(r).candidates, r.route)
    PROVE  LET q == WithoutFrozen(r) IN
           /\ RepositoryReady(q) <=> RepositoryReady(r)
           /\ Independent(q) <=> Independent(r)
<1> DEFINE q == WithoutFrozen(r)
<1>1. /\ Compatible(r) # <<>> /\ Compatible(q) # <<>>
      /\ Len(Compatible(q)) = Len(Compatible(r))
      /\ Score(q) = Score(r) /\ Separation(q) = Separation(r) /\ Top(q).programme = Top(r).programme
      /\ \A m : TopHas(q, m) <=> m # FROZEN /\ TopHas(r, m)
      /\ OneCurated(q) <=> OneCurated(r)
      /\ CompetingFrozen(q) <=> CompetingFrozen(r)
  BY SameEvidence
<1>2. q \in Evidence /\ q.route = r.route /\ q.alerts = r.alerts /\ q.risk = r.risk
  BY WithoutFrozenType
<1>3. FROZEN \notin {REPOSITORY, "CURATED_ALIAS_EXACT", STORAGE, "STRICT_EXACT", "HUMAN_ALIAS_EXACT"}
  BY DEF FROZEN, REPOSITORY, STORAGE
<1>4. /\ TopHas(q, REPOSITORY) <=> TopHas(r, REPOSITORY)
      /\ TopHas(q, "CURATED_ALIAS_EXACT") <=> TopHas(r, "CURATED_ALIAS_EXACT")
      /\ TopHas(q, STORAGE) <=> TopHas(r, STORAGE)
      /\ TopHas(q, "STRICT_EXACT") <=> TopHas(r, "STRICT_EXACT")
      /\ TopHas(q, "HUMAN_ALIAS_EXACT") <=> TopHas(r, "HUMAN_ALIAS_EXACT")
      /\ ~TopHas(q, FROZEN)
  BY <1>1, <1>3
<1>5. TargetRouteAgrees(q) <=> TargetRouteAgrees(r)
  BY <1>2, <1>4 DEF TargetRouteAgrees, OneExplicitRoute
<1> HIDE DEF q
<1>6. RepositoryReady(q) <=> RepositoryReady(r)
  BY <1>1, <1>2, <1>4, <1>5 DEF RepositoryReady
<1>7. Separated(q) <=> Separated(r)
  BY <1>1, <1>2 DEF Separated, OneExplicitRoute
<1>8. RouteReady(q) /\ (Separated(r) => RouteReady(r))
  <2>1. ~TopHas(r, STORAGE)
    BY <1>1, Methods
  <2> QED
    BY <1>4, <2>1 DEF RouteReady, Separated, TargetRouteAgrees
<1>9. Single(q) <=> Single(r)
  BY <1>1 DEF Single
<1>10. Top(q).methods \cap ALIASES # {} <=> Top(r).methods \cap ALIASES # {}
  <2>1. Top(q).methods \cap ALIASES # {} <=>
          TopHas(q, STORAGE) \/ TopHas(q, "CURATED_ALIAS_EXACT") \/ TopHas(q, "HUMAN_ALIAS_EXACT")
    BY <1>1, <1>2, Methods
  <2>2. Top(r).methods \cap ALIASES # {} <=>
          TopHas(r, STORAGE) \/ TopHas(r, "CURATED_ALIAS_EXACT") \/ TopHas(r, "HUMAN_ALIAS_EXACT")
    BY <1>1, Methods
  <2> QED
    BY <1>4, <2>1, <2>2
<1>11. TrustedAlias(q) <=> TrustedAlias(r)
  BY <1>7, <1>8, <1>10 DEF TrustedAlias
<1>12. ConservativeStrict(q) <=> ConservativeStrict(r)
  BY <1>1, <1>2, <1>4, <1>7, <1>8, <1>9 DEF ConservativeStrict, StrongMatch
<1>13. StandardStrong(q) <=> StandardStrong(r)
  BY <1>1, <1>2, <1>7, <1>8 DEF StandardStrong, StrongMatch
<1> QED
  BY <1>6, <1>11, <1>12, <1>13 DEF Independent, q

LEMMA AutomaticDecision ==
    ASSUME NEW r \in Evidence
    PROVE  Decision(r).state = "AUTO_ELIGIBLE" <=>
              /\ r.excluded = "no" /\ ~ExactConflict(r, FROZEN) /\ ~ExactConflict(r, STORAGE)
              /\ Compatible(r) # <<>> /\ Top(r).programme # "FAIL" /\ Lane(r).state = "AUTO_ELIGIBLE"
              /\ ~(Score(r) < Minimum) \/ TopHas(r, FROZEN) \/ TopHas(r, STORAGE) \/ RepositoryReady(r)
<1>1. Compatible(r) # <<>> => r.candidates # <<>>
  BY TopType
<1>2. r.excluded \in {"no", "blocked", "ineligible", "unsupported"}
  BY DEF Evidence
<1> QED
  BY <1>1, <1>2 DEF Decision, NoProposal

\* A target that is automatic without the resolver's answer is automatic with it: the
\* answer opens one lane and closes none.
THEOREM ExactEvidenceOnlyAdds == LabSpec => []ExactEvidenceNeverDowngrades
<1>1. ASSUME NEW r \in Evidence, TopHas(r, FROZEN), Retrievable(WithoutFrozen(r).candidates, r.route),
             Decision(WithoutFrozen(r)).state = "AUTO_ELIGIBLE"
      PROVE  Decision(r).state = "AUTO_ELIGIBLE"
  <2> DEFINE q == WithoutFrozen(r)
  <2>1. q \in Evidence /\ q.excluded = r.excluded
    BY <1>1, WithoutFrozenType
  <2>2. /\ Compatible(r) # <<>> /\ Top(q).programme = Top(r).programme /\ ~TopHas(q, FROZEN)
        /\ ExactConflict(q, STORAGE) <=> ExactConflict(r, STORAGE)
        /\ ~ExactConflict(r, FROZEN)
    BY <1>1, SameEvidence
  <2>3. (RepositoryReady(q) <=> RepositoryReady(r)) /\ (Independent(q) <=> Independent(r))
    BY <1>1, SameLanes
  <2>4. Decision(q).state = "AUTO_ELIGIBLE"
    BY <1>1
  <2> HIDE DEF q
  <2>5. /\ q.excluded = "no" /\ ~ExactConflict(q, STORAGE)
        /\ Top(q).programme # "FAIL" /\ Lane(q).state = "AUTO_ELIGIBLE"
    BY <2>1, <2>4, AutomaticDecision
  <2>6. RepositoryReady(q) \/ Independent(q)
    BY <2>2, <2>5 DEF Lane, Independent
  <2>7. Lane(r).state = "AUTO_ELIGIBLE"
    BY <2>3, <2>6 DEF Lane, Shadow, Independent
  <2> QED
    BY <1>1, <2>1, <2>2, <2>5, <2>7, AutomaticDecision
<1>2. LabInv => ExactEvidenceNeverDowngrades
  BY <1>1 DEF LabInv, ExactEvidenceNeverDowngrades
<1> QED
  BY <1>2, LabInvariant, PTL

=============================================================================
