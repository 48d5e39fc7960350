------------------------------ MODULE SheetSync ------------------------------
(***************************************************************************)
(* The daily synchronization of the provider's channel lineup with the     *)
(* private Google Sheet (scripts/sync_channel_inventory.py), as the main   *)
(* workflow runs it: "apply" (REVIEW recheck with verified writes) or      *)
(* "existing" (existing mappings only, no writes).  A run reads the        *)
(* Mappings and Sync Alerts tabs, compares them with the lineup, opens an  *)
(* alert for every stream ID that seems to be reused, appends the new      *)
(* channels, updates REVIEW rows and leaves a snapshot bundle, from which  *)
(* the guide is built.                                                     *)
(*                                                                         *)
(* The Sheet has no transactions.  Between any two calls of a run an       *)
(* editor may change it and the provider may change its lineup, a request  *)
(* may fail before or after it took effect, and the run may be killed.     *)
(* One server; the workflows' concurrency group keeps runs apart.          *)
(***************************************************************************)
EXTENDS Naturals, FiniteSets, SequencesExt

CONSTANTS
    Keys,        \* stream identities (server_id, stream_id), numbers
    Names,       \* channel identities; any two of them are POSSIBLE_ reuse
    Modes,       \* of {"apply", "existing"}
    Sheets,      \* contents the Mappings tab may start with
    ChunkRows,   \* rows of one append request
    BatchRows,   \* rows of one REVIEW update request
    MaxEdits, MaxDrifts, MaxFailures, \* bounds on the environment
    Absent, Blank, Review, Manual, NoKey, NoJob, NoRequest, NoBundle

\* A mapping row: its guide is Review (undecided), the one the matcher decided
\* for a name, or Manual (an editor's choice).
Guides == Names \cup {Review, Manual}

ASSUME SheetSyncAssumption ==
    /\ Keys \subseteq Nat /\ IsFiniteSet(Keys) /\ NoKey \notin Keys
    /\ Absent \notin Names /\ Blank \notin Names
    /\ ChunkRows \in Nat \ {0} /\ BatchRows \in Nat \ {0}
    /\ {MaxEdits, MaxDrifts, MaxFailures} \subseteq Nat
    /\ \A tab \in Sheets :   \* they parse
          /\ tab \in Seq([key : Keys, name : Names, guide : Guides])
          /\ \A i, j \in 1 .. Len(tab) : tab[i].key = tab[j].key => i = j

Rows == [key : Keys \cup {NoKey}, name : Names \cup {NoKey}, guide : Guides]
Alerts == [key : Keys, was : Names, now : Names, open : BOOLEAN]
Updates == [row : Nat, key : Keys, guide : Names]
Lineups == [Keys -> Names \cup {Absent, Blank}]

VARIABLES
    mappings,  \* the Mappings tab, in its physical order
    alerts,    \* the Sync Alerts tab
    provider,  \* the provider's lineup
    late,      \* a request given up by its run that will still take effect
    job,       \* the run's own state
    bundle,    \* the newest snapshot bundle
    edits, drifts, failures

environment == <<provider, edits, drifts>>
vars == <<mappings, alerts, late, job, bundle, failures, environment>>

Steps == {"fetching", "reading", "matching", "deduplicating", "alerting", "confirming",
          "revalidating", "comparing", "clearing", "appending", "appended", "updating",
          "checking", "rereading", "rechecking", "patching", "patched", "terminal", "bundling"}

Jobs == [step : Steps, mode : Modes, inventory : Lineups, base : Seq(Rows), table : Seq(Rows),
         blocked : SUBSET Keys, pending : Seq(Alerts), alerted : Nat, proposals : Seq(Rows), sent : Nat,
         updates : Seq(Updates), done : Nat]

TypeOK ==
    /\ mappings \in Seq(Rows) /\ alerts \in Seq(Alerts) /\ provider \in Lineups
    /\ job \in Jobs \cup {NoJob}
    /\ \/ late = NoRequest
       \/ late.kind = "rows" /\ late.body \in Seq(Rows)
       \/ late.kind = "alerts" /\ late.body \in Seq(Alerts)
       \/ late.kind = "updates" /\ late.body \in Seq(Updates)
    /\ bundle = NoBundle \/ bundle \in [rows : Seq(Rows), quarantined : SUBSET Keys, inventory : Lineups]
    /\ edits \in 0 .. MaxEdits /\ drifts \in 0 .. MaxDrifts /\ failures \in 0 .. MaxFailures

Init ==
    /\ mappings \in Sheets /\ alerts = << >>
    /\ provider \in [Keys -> Names \cup {Absent}]
    /\ late = NoRequest /\ job = NoJob /\ bundle = NoBundle
    /\ edits = 0 /\ drifts = 0 /\ failures = 0

-----------------------------------------------------------------------------
KeysOf(rows) == {row.key : row \in ToSet(rows)}
RowOf(rows, k) == CHOOSE row \in ToSet(rows) : row.key = k

\* What an update request for rows that no longer exist leaves behind.
Fragment == [key |-> NoKey, name |-> NoKey, guide |-> Review]

\* Whether the tab parses: every row has an identity, and no two the same.
Readable(rows) ==
    /\ NoKey \notin KeysOf(rows)
    /\ Cardinality(KeysOf(rows)) = Len(rows)

OpenKeys == {a.key : a \in {x \in ToSet(alerts) : x.open}}

\* Rows whose provider identity seems to have been reused.
Reused(rows, inventory) ==
    {k \in KeysOf(rows) : inventory[k] \in Names /\ inventory[k] # RowOf(rows, k).name}

\* Mutant of BlankKeys: streams the Sheet does not know, too.
UnknownBlankKeys(rows, inventory) == {k \in Keys : inventory[k] = Blank}

\* Streams listed without a name, of those the Sheet knows.
BlankKeys(rows, inventory) == {k \in KeysOf(rows) : inventory[k] = Blank}

\* What is one per stream, in the order of the streams.
InKeyOrder(rows) ==
    LET keys == {r.key : r \in rows}
    IN  [i \in 1 .. Cardinality(keys) |->
           CHOOSE r \in rows : Cardinality({k \in keys : k < r.key}) = i - 1]

\* The rows an update request finds at the row numbers it was prepared for.
Updated(rows, batch) ==
    LET at(i) == {u \in ToSet(batch) : u.row = i}
        last == Max({Len(rows)} \cup {u.row : u \in ToSet(batch)})
    IN  [i \in 1 .. last |->
           IF i > Len(rows) THEN Fragment
           ELSE IF at(i) = {} THEN rows[i]
           ELSE [rows[i] EXCEPT !.guide = (CHOOSE u \in at(i) : TRUE).guide]]

-----------------------------------------------------------------------------
(***************************************************************************)
(* The environment.                                                        *)
(***************************************************************************)
Edited == edits < MaxEdits /\ edits' = edits + 1

\* An editor decides a row, returns it to REVIEW, or accepts another identity.
EditRow(i) ==
    /\ Edited
    /\ \E n \in Names, g \in {Review, Manual} :
         mappings' = [mappings EXCEPT ![i] = [key |-> @.key, name |-> n, guide |-> g]]
    /\ mappings' # mappings
    /\ UNCHANGED <<alerts, late, job, bundle, failures, provider, drifts>>

\* An editor sorts rows, or deletes one.
SwapRows(i, j) ==
    /\ Edited /\ i < j
    /\ mappings' = [mappings EXCEPT ![i] = mappings[j], ![j] = mappings[i]]
    /\ UNCHANGED <<alerts, late, job, bundle, failures, provider, drifts>>

DeleteRow(i) ==
    /\ Edited
    /\ mappings' = RemoveAt(mappings, i)
    /\ UNCHANGED <<alerts, late, job, bundle, failures, provider, drifts>>

ResolveAlert(j) ==
    /\ Edited /\ alerts[j].open
    /\ alerts' = [alerts EXCEPT ![j].open = FALSE]
    /\ UNCHANGED <<mappings, late, job, bundle, failures, provider, drifts>>

Drift(k) ==
    /\ drifts < MaxDrifts /\ drifts' = drifts + 1
    /\ \E listed \in Names \cup {Absent, Blank} : provider' = [provider EXCEPT ![k] = listed]
    /\ provider' # provider
    /\ UNCHANGED <<mappings, alerts, late, job, bundle, failures, edits>>

\* A request nobody waits for any more takes effect.
Land ==
    /\ late # NoRequest /\ late' = NoRequest
    /\ \/ /\ late.kind = "rows"
          /\ mappings' = mappings \o late.body
          /\ UNCHANGED alerts
       \/ /\ late.kind = "alerts"
          /\ alerts' = alerts \o late.body
          /\ UNCHANGED mappings
       \/ /\ late.kind = "updates"
          /\ mappings' = Updated(mappings, late.body)
          /\ UNCHANGED alerts
    /\ UNCHANGED <<job, bundle, failures, environment>>

-----------------------------------------------------------------------------
(***************************************************************************)
(* One run.  A check that fails ends it (SyncError).                       *)
(***************************************************************************)
Stop == job' = NoJob

GoTo(step) == job' = [job EXCEPT !.step = step]

At(step) == job # NoJob /\ job.step = step

\* A read or a check: the Sheet is left alone.
Reads == UNCHANGED <<mappings, alerts, late, bundle, failures, environment>>

\* The job is cancelled or times out, or a read of the Sheet or of the
\* provider fails.
Interrupt ==
    /\ job # NoJob
    /\ failures < MaxFailures /\ failures' = failures + 1
    /\ Stop
    /\ UNCHANGED <<mappings, alerts, late, bundle, environment>>

Start(mode) ==
    /\ job = NoJob /\ late = NoRequest /\ Readable(mappings)
    /\ job' = [step |-> "fetching", mode |-> mode, inventory |-> [k \in Keys |-> Absent],
               base |-> mappings, table |-> mappings, blocked |-> {}, pending |-> << >>, alerted |-> 0,
               proposals |-> << >>, sent |-> 0, updates |-> << >>, done |-> 0]
    /\ Reads

Fetch ==
    /\ At("fetching")
    /\ job' = [job EXCEPT !.inventory = provider,
                          !.step = IF job.mode = "apply" THEN "reading" ELSE "matching"]
    /\ Reads

\* A run that may write reads the Mappings again, after the lineup.
ReadMappings ==
    /\ At("reading")
    /\ \/ ~Readable(mappings) /\ Stop
       \/ /\ Readable(mappings)
          /\ job' = [job EXCEPT !.base = mappings, !.table = mappings, !.step = "matching"]
    /\ Reads

\* compare_inventory, pending_sync_alert_rows and select_review_recheck_rows;
\* then the matcher decides what it can.
Pending(rows, inventory) ==
    InKeyOrder({[key |-> k, was |-> RowOf(rows, k).name, now |-> inventory[k], open |-> TRUE] :
                  k \in Reused(rows, inventory) \ OpenKeys})

\* What the lanes of the matcher (rules, native guides, fallbacks, reviewed
\* suggestions) may agree on and a run may apply: any of the listed channels.
Approvals(inventory) == SUBSET {k \in Keys : inventory[k] \in Names}

Decided(names, approved) == [k \in Keys |-> IF k \in approved THEN names[k] ELSE Review]

\* Mutant of Proposed: streams without a name, too.
ProposedUnnamed(rows, inventory, approved) ==
    InKeyOrder({[key |-> k, name |-> inventory[k], guide |-> Decided(inventory, approved)[k]] :
                  k \in {x \in Keys : inventory[x] # Absent} \ KeysOf(rows)})

Proposed(rows, inventory, approved) ==
    InKeyOrder({[key |-> k, name |-> inventory[k], guide |-> Decided(inventory, approved)[k]] :
                  k \in {x \in Keys : inventory[x] \in Names} \ KeysOf(rows)})

Rechecked(rows, inventory, blocked) ==
    {i \in 1 .. Len(rows) : /\ rows[i].guide = Review
                            /\ rows[i].name = inventory[rows[i].key]
                            /\ rows[i].key \notin blocked}

\* Mutant of Quarantined: what the alerts say only.
QuarantinedByAlerts(rows, blocked) == blocked

Quarantined(rows, blocked) ==
    Reused(job.base, job.inventory) \cup blocked \cup BlankKeys(rows, job.inventory)

\* write_private_mapping_snapshot_bundle: refused when the Sheet is empty or a
\* quarantined stream has no row.  Either way the run is over.
Finish(rows, blocked) ==
    /\ IF rows # << >> /\ Quarantined(rows, blocked) \subseteq KeysOf(rows)
         THEN bundle' = [rows |-> rows, quarantined |-> Quarantined(rows, blocked), inventory |-> job.inventory]
         ELSE UNCHANGED bundle
    /\ Stop
    /\ UNCHANGED <<mappings, alerts, late, failures, environment>>

MatchWith(approved) ==
    LET pending == Pending(job.base, job.inventory)
        blocked == OpenKeys \cup BlankKeys(job.base, job.inventory) \cup KeysOf(pending)
        rechecked == {i \in Rechecked(job.base, job.inventory, blocked) : job.base[i].key \in approved}
    IN  job' = [job EXCEPT
           !.blocked = blocked, !.pending = pending, !.step = "deduplicating",
           !.proposals = Proposed(job.base, job.inventory, approved \ blocked),
           !.updates = InKeyOrder({[row |-> i, key |-> job.base[i].key, guide |-> job.base[i].name] :
                                     i \in rechecked})]

Match ==
    /\ At("matching") /\ job.mode = "apply"
    /\ \E approved \in Approvals(job.inventory) : MatchWith(approved)
    /\ Reads

\* A run without writes reads the alerts once, and bundles what it read.
BundleExisting ==
    /\ At("matching") /\ job.mode = "existing"
    /\ Finish(job.base, OpenKeys \cup BlankKeys(job.base, job.inventory))

-----------------------------------------------------------------------------
(***************************************************************************)
(* Alerts first: they must be seen in the Sheet before anything is mapped. *)
(***************************************************************************)
\* An incident somebody else opened meanwhile keeps its row.
Deduplicate ==
    /\ At("deduplicating")
    /\ LET pending == InKeyOrder({p \in ToSet(job.pending) : p.key \notin OpenKeys})
       IN  job' = [job EXCEPT !.pending = pending,
                              !.step = IF pending = << >> THEN "confirming" ELSE "alerting"]
    /\ Reads

Chunk(rows, sent, size) == SubSeq(rows, sent + 1, Min({sent + size, Len(rows)}))

\* The request failed, or its answer never came.
Failed == failures < MaxFailures /\ failures' = failures + 1

\* Mutant of AfterFailedAlert and of AfterFailedAppend: send the chunk again.
SendAgain == UNCHANGED job

\* The Sheet tells what was stored.
AfterFailedAlert == GoTo("confirming")

AppendAlerts ==
    /\ At("alerting")
    /\ LET chunk == Chunk(job.pending, job.alerted, ChunkRows)
           alerted == job.alerted + Len(chunk)
       IN  \/ /\ alerts' = alerts \o chunk
              /\ job' = [job EXCEPT !.alerted = alerted,
                                    !.step = IF alerted = Len(job.pending) THEN "confirming" ELSE @]
              /\ UNCHANGED <<late, failures>>
           \/ /\ Failed /\ AfterFailedAlert
              /\ \/ UNCHANGED <<alerts, late>>
                 \/ alerts' = alerts \o chunk /\ UNCHANGED late
                 \/ late' = [kind |-> "alerts", body |-> chunk] /\ UNCHANGED alerts
    /\ UNCHANGED <<mappings, bundle, environment>>

\* verify_pending_alerts_are_open, and nothing else is quarantined, or no
\* longer quarantined, than when the rows were matched.
AlertsAgree ==
    /\ \A i \in 1 .. Len(job.pending) : job.pending[i] \in ToSet(alerts)
    /\ OpenKeys \cup BlankKeys(job.base, job.inventory) = job.blocked

NextWrite ==
    IF job.proposals # << >> /\ job.sent = 0 THEN "revalidating"
    ELSE IF job.updates # << >> THEN "updating" ELSE "terminal"

ConfirmAlerts ==
    /\ At("confirming")
    /\ \/ AlertsAgree /\ GoTo(NextWrite)
       \/ ~AlertsAgree /\ Stop
    /\ Reads

-----------------------------------------------------------------------------
(***************************************************************************)
(* The append of new channels.                                             *)
(***************************************************************************)
StillListed(keys) == \A k \in keys : provider[k] = job.inventory[k]

\* revalidate_auto_enabled_new_rows: rows still in REVIEW need no check.
RevalidateNew ==
    /\ At("revalidating")
    /\ LET decided == {row.key : row \in {r \in ToSet(job.proposals) : r.guide # Review}}
       IN  \/ StillListed(decided) /\ GoTo("comparing")
           \/ ~StillListed(decided) /\ Stop
    /\ Reads

\* mapping_table_fingerprint: order, row numbers and values.
Unchanged(expected) == Readable(mappings) /\ mappings = expected

CompareBeforeAppend ==
    /\ At("comparing")
    /\ \/ Unchanged(job.base) /\ GoTo("clearing")
       \/ ~Unchanged(job.base) /\ Stop
    /\ Reads

ClearAppend ==
    /\ At("clearing")
    /\ \/ AlertsAgree /\ GoTo("appending")
       \/ ~AlertsAgree /\ Stop
    /\ Reads

\* A chunk is never sent twice.  Google answers where the rows went; rows above
\* those the run knows of end it too.
AfterFailedAppend == Stop

AppendRows ==
    /\ At("appending")
    /\ LET chunk == Chunk(job.proposals, job.sent, ChunkRows)
           sent == job.sent + Len(chunk)
       IN  \/ /\ mappings' = mappings \o chunk
              /\ \/ /\ Len(mappings) >= Len(job.base) + job.sent
                    /\ job' = [job EXCEPT !.sent = sent,
                                          !.step = IF sent = Len(job.proposals) THEN "appended" ELSE @]
                 \/ Len(mappings) < Len(job.base) + job.sent /\ Stop
              /\ UNCHANGED <<late, failures>>
           \/ /\ Failed /\ AfterFailedAppend
              /\ \/ UNCHANGED <<mappings, late>>
                 \/ mappings' = mappings \o chunk /\ UNCHANGED late
                 \/ late' = [kind |-> "rows", body |-> chunk] /\ UNCHANGED mappings
    /\ UNCHANGED <<alerts, bundle, environment>>

\* verify_mapping_append_transition
AppendVerified ==
    /\ Readable(mappings) /\ Len(mappings) >= Len(job.base)
    /\ SubSeq(mappings, 1, Len(job.base)) = job.base
    /\ ToSet(mappings) = ToSet(job.base) \cup ToSet(job.proposals)

VerifyAppend ==
    /\ At("appended")
    /\ \/ AppendVerified /\ job' = [job EXCEPT !.table = mappings, !.step = NextWrite]
       \/ ~AppendVerified /\ Stop
    /\ Reads

-----------------------------------------------------------------------------
(***************************************************************************)
(* update_google_sheet_review_rows: a batch is prepared for the row        *)
(* numbers of the table it was proposed for.                               *)
(***************************************************************************)
Batch == Chunk(job.updates, job.done, BatchRows)

ClearUpdates ==
    /\ At("updating")
    /\ \/ AlertsAgree /\ GoTo("checking")
       \/ ~AlertsAgree /\ Stop
    /\ Reads

RevalidateBatch ==
    /\ At("checking")
    /\ \/ StillListed(KeysOf(Batch)) /\ GoTo("rereading")
       \/ ~StillListed(KeysOf(Batch)) /\ Stop
    /\ Reads

CompareBeforeBatch ==
    /\ At("rereading")
    /\ \/ Unchanged(job.table) /\ GoTo("rechecking")
       \/ ~Unchanged(job.table) /\ Stop
    /\ Reads

ClearBatch ==
    /\ At("rechecking")
    /\ \/ AlertsAgree /\ GoTo("patching")
       \/ ~AlertsAgree /\ Stop
    /\ Reads

\* Whatever the answer, the table is read again.
PatchRows ==
    /\ At("patching") /\ GoTo("patched")
    /\ \/ mappings' = Updated(mappings, Batch) /\ UNCHANGED <<late, failures>>
       \/ /\ Failed
          /\ \/ UNCHANGED <<mappings, late>>
             \/ late' = [kind |-> "updates", body |-> Batch] /\ UNCHANGED mappings
    /\ UNCHANGED <<alerts, bundle, environment>>

VerifyBatch ==
    /\ At("patched")
    /\ LET done == job.done + Len(Batch)
           verified == Unchanged(Updated(job.table, Batch))
       IN  \/ /\ verified
              /\ job' = [job EXCEPT !.table = mappings, !.done = done,
                                    !.step = IF done = Len(job.updates) THEN "terminal" ELSE "checking"]
           \/ ~verified /\ Stop
    /\ Reads

-----------------------------------------------------------------------------
(***************************************************************************)
(* The terminal reads and the bundle.                                      *)
(***************************************************************************)
\* Mutant of TerminalAgrees: any table that parses.
TerminalReadable == Readable(mappings) /\ mappings # << >>

TerminalAgrees == Unchanged(job.table)

CompareTerminal ==
    /\ At("terminal")
    /\ \/ TerminalAgrees /\ job' = [job EXCEPT !.table = mappings, !.step = "bundling"]
       \/ ~TerminalAgrees /\ Stop
    /\ Reads

Bundle ==
    /\ At("bundling")
    /\ \/ AlertsAgree /\ Finish(job.table, job.blocked)
       \/ ~AlertsAgree /\ Stop /\ Reads

Edit ==
    \/ \E i \in 1 .. Len(mappings) : EditRow(i) \/ DeleteRow(i)
    \/ \E i, j \in 1 .. Len(mappings) : SwapRows(i, j)
    \/ \E j \in 1 .. Len(alerts) : ResolveAlert(j)

Work ==
    \/ Fetch \/ ReadMappings \/ Match \/ BundleExisting
    \/ Deduplicate \/ AppendAlerts \/ ConfirmAlerts
    \/ RevalidateNew \/ CompareBeforeAppend \/ ClearAppend \/ AppendRows \/ VerifyAppend
    \/ ClearUpdates \/ RevalidateBatch \/ CompareBeforeBatch \/ ClearBatch \/ PatchRows \/ VerifyBatch
    \/ CompareTerminal \/ Bundle

Next == Edit \/ (\E k \in Keys : Drift(k)) \/ Land \/ Interrupt
        \/ (\E mode \in Modes : Start(mode)) \/ Work

Spec == Init /\ [][Next]_vars

\* A run that writes is scheduled daily, whatever else is started meanwhile, and
\* never waits for anybody; a request in flight is over before the next run.
FairSpec == Spec /\ SF_vars(Start("apply")) /\ WF_vars(Work) /\ WF_vars(Land)

-----------------------------------------------------------------------------
(***************************************************************************)
(* Properties.                                                             *)
(***************************************************************************)
\* Appends are not idempotent and a failed one may have taken effect, or still
\* will: no rerun gives a stream a second row, whatever fails (append_raw_sheet_rows).
OneRowPerStream ==
    \A i, j \in 1 .. Len(mappings) :
      mappings[i].key = mappings[j].key /\ mappings[i].key # NoKey => i = j

\* Nor does it open an incident that is open (pending_sync_alert_rows).
OneOpenAlertPerStream ==
    \A i, j \in 1 .. Len(alerts) :
      alerts[i].key = alerts[j].key /\ alerts[i].open /\ alerts[j].open => i = j

SheetInv == TypeOK /\ OneRowPerStream /\ OneOpenAlertPerStream

OwnWork ==
    LET decided(k) == {u \in ToSet(job.updates) : u.key = k}
    IN  {IF decided(row.key) = {} THEN row
         ELSE [row EXCEPT !.guide = (CHOOSE u \in decided(row.key) : TRUE).guide] :
           row \in ToSet(job.base \o job.proposals)}

\* A run that writes bundles what it read plus its own confirmed writes: an
\* edit made in between, or a write that hit other rows, ends the run instead
\* (_run_sync_review_mode).
BundleIsOwnWork ==
    [][bundle' # bundle /\ job.mode = "apply" =>
         /\ Len(bundle'.rows) = Len(job.base) + Len(job.proposals)
         /\ ToSet(bundle'.rows) = OwnWork]_vars

\* In a new bundle every stream whose name in the Sheet is not the one the
\* provider listed, that has no name there, or has an open alert, is
\* quarantined; a run that writes has alerted every reused one.
BundleQuarantines ==
    [][bundle' # bundle =>
         LET rows == ToSet(bundle'.rows)
             blank == {r \in rows : bundle'.inventory[r.key] = Blank}
             reused == {r \in rows : bundle'.inventory[r.key] \in Names \ {r.name}}
         IN  /\ KeysOf(bundle'.rows) \cap OpenKeys \subseteq bundle'.quarantined
             /\ {r.key : r \in blank \cup reused} \subseteq bundle'.quarantined
             /\ job.mode = "apply" => {r.key : r \in reused} \subseteq OpenKeys]_vars

\* "Its only optional writes are verified additions or bounded REVIEW-row
\* updates in the Mappings tab" (channel_inventory_sync.yml): a row an editor
\* has decided is not updated.
OnlyReviewRowsUpdated ==
    [][PatchRows => \A i \in 1 .. Len(mappings) :
         mappings'[i] # mappings[i] => mappings[i].guide = Review]_vars

\* Once the Sheet, the provider and the network are quiet, every listed channel
\* gets its row and the bundle shows the Sheet: unless the tab is empty or does
\* not parse any more, or an open alert's row is gone.
Settles ==
    <>[](\/ mappings = << >> \/ ~Readable(mappings) \/ ~(OpenKeys \subseteq KeysOf(mappings))
         \/ /\ bundle # NoBundle /\ bundle.rows = mappings
            /\ {k \in Keys : provider[k] \in Names} \subseteq KeysOf(mappings))
==============================================================================
