# SkyTV EPG: verification project

SkyTV EPG builds a television guide and a VOD catalogue from several private
panels and publishes both as one GitHub Pages site. It is a set of Python
programs that GitHub Actions workflows start on schedules and by dispatch.
Nothing runs for longer than a job. What one run knows of the ones before it lies
in workflow artifacts, caches, a Google Sheet and the deployed site, each of which
can be stale, missing, expired, or be changed by somebody else while it is used.
This directory models those hand-overs in TLA+, checks them with TLC and proves
the most important ones with TLAPS.

Paths below are those of the repository. `PROJECT.json` lists components, runs,
mutants, hazards and theorems, and maps every definition to the lines it models.

## 1. Inventory

### Components

**Independent publication** (`main.yml`, `vod.yml`, `publish-component.yml`,
`scripts/component_artifacts.py`, `scripts/publication_snapshots.py`).
*State*: snapshot artifacts with their retention, the conclusion of each build
job, the publication lock, the deployed site and the CDN's copy of it.
*Operations*: build and upload a component; under the lock restore the run's own
component or a newer validated one, restore the counterpart, compose, check,
deploy; re-run a whole run or only its publisher. *Interactions*: two workflows,
each with its concurrency group, share one lock; the artifact list is shared with
every other workflow. *Hard*: artifact ids do not order builds, an artifact is
visible before its job concludes, a waiting publisher can be cancelled by another,
snapshots expire, the CDN lags. *Correct if*: what is deployed was validated, is as
fresh as what was known when the lock was taken, fits together, and never goes back.

**TMDB request gate** (`scripts/vod_verification_rate_limit.py`). *State*: the
time of the next permit, the shared pause, counters, and a durable snapshot of
them. *Operations*: acquire, save before the wire, send, 429, resume. *Hard*:
threads share it, saves fail or run concurrently, a batch is killed anywhere.
*Correct if*: permits keep their distance and obey every pause, the durable counter
covers every request sent, and a save never overwrites a newer one.

**Rolling VOD enrichment** (`enrich-vod.yml`, `scripts/vod_enrichment_queue.py`,
`scripts/enrich_vod_catalog.py`, `scripts/vod_enrichment_artifacts.py`). *State*: a
queue database, proof caches, a report, sealed together into an artifact, the
current validated VOD component. *Operations*: prepare (or skip as idle),
reconcile the queue with the component, warm from caches, select, look up with a
thread pool, record, defer, reopen poster collisions, report, seal. *Hard*: the
component changes between batches, items share results, a later match can refute an
earlier one, batches fail or die after any step and are sealed all the same.
*Correct if*: outcomes belong to the record they were found for, idleness is
justified, progress is never lost, refuted poster matches stay refuted.

**Frozen VOD verification** (`verify-vod.yml`,
`scripts/vod_verification_checkpoint.py`, `scripts/verify_vod_catalog.py`,
`scripts/vod_verification_artifacts.py`). *State*: a checkpoint (SQLite) of one
frozen component with attempts and outcomes, caches, a report; sealed checkpoints.
*Operations*: initialize (replayable), warm, select, look up, record, defer, reopen
collisions, report, seal, dispatch the next run. *Hard*: a kill between any two
transactions, resuming under another revision, a chain that dispatches itself.
*Correct if*: one pass never mixes revisions, a replay charges nothing twice,
completed outcomes are final, collisions are reopened for good, the chain ends.

**Channel inventory synchronization** (`main.yml`, `channel_inventory_sync.yml`,
`scripts/sync_channel_inventory.py`). *State*: the Mappings and Sync Alerts tabs of
a Google Sheet that people edit too, the provider's lineup, the snapshot bundle that
the guide is built from. *Operations*: read, compare, alert, append new channels,
update REVIEW rows, verify every write by reading, bundle. *Hard*: the Sheet has no
transactions, requests are not idempotent and may take effect late, editors and the
provider change everything meanwhile. *Correct if*: a bundle shows what the run
read and wrote and nothing else, streams whose identity is in doubt are quarantined,
reruns repeat nothing, and quiet leads to a settled Sheet.

**Automatic channel matching** (`scripts/auto_match_inventory.py`,
`src/skytv_epg_auto_match_v1.py`, and the lanes of `sync_channel_inventory.py` that
call it). *State*: the cells of a Mappings row (target, action, reason, notes), which
are all that a run has of the runs before. *Operations*: select REVIEW rows and local
guides to look at again, match, confirm with the provider's guide, approve, give a
local guide, take it back, put approvals of a large batch off. *Hard*: recognising
one's own earlier work in cells that people edit too, limits shared by all rows over
many days. *Correct if*: editors' decisions stay, a local guide can be taken back,
every waiting row gets its turn.

**Native guide cache and recovery** (`scripts/private_panel_cache.py`,
`recover_native_epg.py`, `diagnose_provider_transport.py`, the native sources of
`build_epg_streaming.py`, `native-epg-recovery.yml`). *State*: last-good provider
guides with metadata and cooldowns, sealed into one bundle that two workflows hand on;
the site's health report. *Operations*: review, build with live or saved guides, save
(two writes), seal, publish; plan, select, probe, request a refresh. *Hard*: torn pairs
of guide and metadata, a newer bundle hiding an older guide, a step or a runner lost
anywhere, decisions from a health report the CDN still serves. *Correct if*: a good
guide is used as long as it is young enough, a provider is not asked before the time it
gave, a recovery requests a refresh only for a provider that answered, and one that is
back is listed again.

**VOD resolution queue** (`scripts/vod_resolution_queue.py`, its prewarm in
`build_skytvplayer_catalog.py`, the caches of `vod_tmdb.py`). *State*: a JSON queue of
unmatched titles with failures and due times, positive and negative caches, stop
proofs for titles without artwork. *Operations*: load, select, ask, probe the provider,
record, save at the end. *Hard*: budgets and kills cut every batch, a cache outlives the
queue's row and the reverse, a stop proof is written before what confirms it. *Correct
if*: while titles are asked about, no open one is left out for ever, and no title is
stopped by a proof that failed.

**Human approval lane** (`scripts/matching_lab_approvals.py`,
`apply_matching_lab_approvals.py`). *State*: a package bound to a snapshot of the
Sheet; the Sheet. *Operations*: read, check, read again, one atomic update addressed by
row numbers, read a third time. *Hard*: the window between read and write, requests that
land late or whose answer is lost, recognising a batch already committed. *Correct if*: a
batch takes rows from the proposed original to the approved form and touches nothing else,
and a stream renamed or alerted before the last look is refused.

**Matching Lab** (`matching_lab/`). *Operations*: retrieve candidates, decide a row,
let an advisory answer demote it, validate the decision again from the evidence alone.
*Hard*: the pipeline and the validator state the same rules in different words, and one
row that fails the validator costs the whole bundle. *Correct if*: every decision
validates, and advice never weakens exact evidence.

**Guide build** (`scripts/build_epg_streaming.py`). *State*: mapping rows, provider
links, retained programmes, the published directory and its backup. *Operations*: load,
overlay event titles, prove links, read sources, settle what is published under each ID,
account, exchange directories. *Hard*: aliases, names and IDs of several streams meet
after some schedules turned out missing; every source can fail. *Correct if*: each
schedule was decided and is current, is reported bound only where it is, loses no ID but a
name that is another's ID, and a failure leaves the guide before.

**VOD catalogue build and TMDB client** (`build_vod_catalogs.py`, `vod_tmdb.py`,
...): parse, look up, render. **Official aliases and poster identity**
(`vod_poster_index.py`, `vod_official_aliases.py`): the index of poster paths whose
owners decide collisions. **Selection of programmes and the engine behind it**
(`src/skytv_epg_engine.py`, ...): one pure pass over one input. **Live sports feed**,
**SkyTV player catalogue and icons**, **AI-assisted review**, **health, secret scan and
diagnostics**, **backlog analysis**: derived outputs and read-only checks; no state that
a later run decides from.

### How the components interact

    panels, Sheet --> SheetSync --> bundle --> GuideBuild --> live artifact ----+
       |      ^   ReviewQueue                    ^    |                         v
       |      |                        NativeGuide <--+ health <------ Publication (lock, Pages)
       |   ApprovalLane <-- LabDecision                                         ^
       |                                                                        |
       +--> TitleQueue, TMDB --> RateLimiter --> EnrichmentQueue --> caches --> VOD build
                                     |                 ^                        |
                                     v                 +-- validated component -+
                                 VerificationPass <------- validated component -+

Hand-overs are artifacts and caches (asynchronous, at most as new as the last seal),
a job's files (within one run), the Sheet (shared with editors) and the
concurrency groups: `skytv-epg-v1` (`main.yml`, `channel_inventory_sync.yml`,
`native-epg-recovery.yml`; every waiting run is kept), `skytv-vod-v1` (`vod.yml`;
one waiting run), the publication lock (one waiting publisher), one group for each
enrichment mode and for each verification test.

## 2. The modules and their correspondence to the code

| module | what it is |
|---|---|
| `PublishedSite` | abstract: what the deployed site promises its readers |
| `Publication` | runs, artifacts, lock, publish job, Pages, CDN; implements `PublishedSite` |
| `RateLimiter` | the request gate shared by worker threads, and its durable snapshot |
| `EnrichmentQueue` | the rolling enrichment: queue, batch, artifacts |
| `VerificationPass` | the frozen verification: checkpoint, batch, chain of runs |
| `SheetSync` | the requests of a synchronization run, the Sheet, its editors, the provider |
| `ReviewQueue` | the REVIEW queue of the Sheet over many days; a run is one step |
| `NativeGuide` | the saved native guides, refreshes and recoveries under one lock |
| `GuideBuild` | one build of one server's guide |
| `TitleQueue` | the resolution queue of movie titles, its caches and its prewarm |
| `ApprovalLane` | the approval package and the command that applies it |
| `LabDecision` | one row of the lab: evidence, decision, advice, validator |
| `PublicationProofs`, `RateLimiterProofs`, `EnrichmentQueueProofs`, `VerificationPassProofs`, `SheetSyncProofs`, `NativeGuideProofs`, `GuideBuildProofs` | theorems about the module of that name and their proofs; `SheetSyncProofs` also those about `ReviewQueue` |
| `BacklogProofs` | theorems about `ApprovalLane`, `TitleQueue` and `LabDecision` and their proofs |
| `MCPublication`, `MCGuidePublication`, `MCEnrichmentQueue`, `MCVerification`, `MCEndings`, `MCSheetSync`, `MCSheet`, `MCReviewQueue`, `MCNativeGuide`, `MCBacklogs` | instances for TLC: values of the constants, symmetries, several programs in one run |

Definitions named as mutants ("Mutant of X") are not part of a specification: they
are X with a plausible bug, and each is there to show that some property notices it.

**Publication.** A run goes `queued, building, uploaded, built` (its build job) and
`holding, current, restored, composed, deployed` (its publish job), with `pending`
for the lock's waiting place and `requeued` for a re-run of the publisher only.
Artifacts are named by their upload time (`clock`); `valid` holds those whose build
job succeeded, `horizon` is what has expired, `Listed` what the five scanned pages
show. `Current` and `Previous` are the two restores of `component_artifacts.py`,
`Compose` is `publication_snapshots.py` with its refreshed guide references, and
`served` is what the CDN still shows of `site`.

**RateLimiter.** `pc[w]` is the place of a thread in `PacedSession.get`. A save is
two steps (snapshot taken inside the save lock, then stored), so that saves of two
threads could overlap if the lock were not there. `Resume` is the end or the kill of
a batch and the next batch's construction from the saved state.

**EnrichmentQueue.** One phase variable follows the workflow run: `Prepare`,
`Reconcile` (which is one deterministic preparation up to the selection of the work),
the pool (`Submit`, `Enriched`, `RecordResult`, `StopSubmitting`), then `Number` or
`Fail`, `WriteReport`, and `Upload` or `Discard`. The queue's rows keep the state,
attempt time, due time and the record (`proof`) their outcome was found for.

**VerificationPass.** One action per transaction of the checkpoint, because the
state directory survives a killed process: `Start`, `Freeze`, `Warm`, `Ready`,
`Open`/`Select` and `Close`/`Number` (each pair is the two transactions of
`reopen_collided_posters`), the pool, `WriteReport`, `Upload`, `Continue`. `Restore`
is the operator's choice between the last sealed checkpoint and a new test.

**SheetSync.** A run is a sequence of requests, one action for each read and each
write of the Sheet and each read of the provider. Between any two of them an
`Edit` or a `Drift` may happen. A write may succeed, fail, take effect although its
answer was lost, or take effect later (`late`, `Land`).

**ReviewQueue.** The same program from further away: a `Run` is one step that selects
rows, settles each by the verdict of the matcher and of the provider's guide, gives
and takes back local guides within the limits, and stores what it wrote, or only a prefix
of it when it fails. Between runs editors edit, names drift, catalogues change. A row is its
cells as the code tells them apart: the target, the action, the reason and the marks in
the notes.

**NativeGuide.** `job` is the run that holds the lock, with its kind and step; `dir` is
its private directory, `bundle` the newest sealed one, `health` the site's report and the
one before it. A refresh reviews, builds, saves (the guide, then its metadata), seals
and publishes; a recovery plans from the report, selects and probes providers, seals, and
may request one refresh. Each step may fail, and a run may be lost with everything it has
not sealed. `told` and `kept` are history: what a provider still has a right to, and the
youngest guide that was sealed.

**GuideBuild.** One server's build as the stages `build_epg_streaming.py` goes through,
from rows and inventory to the exchange of directories; its inputs are chosen at the
start and the sources answer as they like.

**TitleQueue.** `file` is the saved queue, `run` the prewarm with the rows it loaded and
the titles it still has to ask about. A cache is written at once, the file only at the
end. `torn` holds the titles whose stop proof outlived a kill or a failed write.

**ApprovalLane.** `lane` is the command with the table it read and the batch it computed;
`wire` holds updates sent and neither landed nor lost. Others edit, insert and delete
rows, rename streams and raise alerts between any two steps.

**LabDecision.** Two steps: `Decide` takes any evidence the retrieval can produce,
`Advise` any answer. The validator is an operator of its own, translated from
`validation.py`, and not from the pipeline it checks.

## 3. What the runs check

All runs are exhaustive on the instance their `.cfg` describes.

| run | states | question |
|---|---|---|
| `pub_safety` | 921 thousand | Is every deployed pair validated, fresh, consistent and never older than the one before, with re-runs, failures everywhere, expiry and CDN lag? Does `Publication` implement `PublishedSite`? Can the lock cancel a publisher? And of one guide build: was each schedule decided, is it current, bound only where it is reported so, and does it lose its place only to the owner of an ID? |
| `enrichment_queue` | 2.8 million | Do outcomes fit their records, is idleness justified, is progress kept? Are colliding poster matches reopened and never made again? |
| `verification` | 2.1 million | Does a pass keep to one revision, does a replay charge nothing twice, are completed outcomes final but for collisions, which stay revoked? |
| `endings` | 764 thousand | Spacing, pauses, durable counts and monotonic saves of the request gate with two threads over several batches; does the chain of batches end? |
| `sheet_sync` | 1.0 million | Does a bundle show exactly the run's own view with everything doubtful quarantined; do reruns repeat nothing, and settle? Over many days: are editors respected, can local guides be taken back, does each run decide something as long as a row waits? |
| `native_guide` | 549 thousand | Are young guides found, providers spared, requests for a refresh needed; does a provider that is back get listed again? Does every validated build reach the site or end in a failure? |
| `backlogs` | 663 thousand | The approval lane: only approved transitions, stale targets refused. The lab: every decision validates. The title queue: no stop without confirmation, and no open title left out while others are asked about. |
| `pub_listing_window` | violated | Can an old publisher's retry roll back a component when newer uploads exceed the scanned pages? It can (finding 1). |
| `sheet_update_window` | violated | Can a REVIEW update hit a row that is not REVIEW? It can (finding 2). |
| `guide_accounting` | violated | Does the accounting accept every guide the build makes? It does not (finding 3). |
| `guide_exclusions` | violated | Does a row set to IGNORE stay excluded? Not with an open alert (finding 4). |
| `review_deferred` | violated | Does a deferred approval resume? Not an exact placeholder (finding 5). |

Some runs hold two or three programs. These share no state in the system and none in
the model: a variable `which` is chosen at the start, a behaviour takes steps of that
program only, and the variables of the others stay as they began. Each property is that
of one program, stated for its behaviours. A program about which theorems are proved is
EXTENDed by the module of its run, so that the theorem and the run name one definition.

### Bounds, and why they are enough

* *Publication*: two live runs and one VOD run with two attempts each, three uploads
  (four in the window run), a listing of two artifacts. Two runs of one component are
  needed for a rollback, a third of the other for the counterpart and the lock's
  waiting place, the second attempt for a retry, and the third upload for an own,
  a newer and a counterpart artifact at once. The liveness instance (in `native_guide`)
  has two runs of each workflow, so that both groups and the waiting place are contended.
  The safety results are proved without these bounds.
* *RateLimiter*: two threads, six ticks, batches of four ticks, a gap of two, pauses
  of 0, 1 and 3 ticks (shorter and longer than the gap), two requests on the wire.
  Proved without bounds.
* *EnrichmentQueue*: the queue has two items and two contents (a record can change,
  disappear or equal another's), two publications with one change, a clock of two ticks,
  one worker, one movie. The posters have two movies that share one poster and two workers,
  but no time passes and retries are left out. Two items and two batches are what the
  shortest violations of the mutants need. Proved without bounds.
* *VerificationPass*: two items, two lookup keys and every map between them, posters
  shared by two movies, two workers, every seed cache with at most one proof, two
  revisions. Kills, restores and batches are unbounded; deferrals are bounded by
  `MaxInterruptions`. The chain has two attempts per item and one worker. Safety is proved
  without bounds.
* *SheetSync*: two streams, two names, chunks of one row (so that two new channels
  take two requests), one edit, one drift and one failure, of which any two can be combined.
  The properties but `RunSettles` are proved without these bounds.
* *ReviewQueue*: two streams, of server 2 or of two servers, limits of one row each (so
  that rows compete for them), a large batch of two, a rotation of two days. Edits, failed
  runs and changes of the world are one in all; runs are unbounded. Everything but
  `DeferredResumes`, which is refuted, is proved without these bounds.
* *NativeGuide*: two servers, one of them back for good, a guide that is too old after one
  tick, delays of one tick, recent means one tick, a recovery may last one tick, one fault.
  The properties but `Recovers` are proved without these bounds.
* *GuideBuild*: two streams of one server. Server 1 was never published and has no native
  guide, Server 2 has a guide before. Each row is one of twelve decisions, each listing one
  of six shapes, and two guide IDs suffice for two schedules to meet under one; the local
  channel named `x` meets the schedules whose ID is `x`. Proved without
  these bounds, for any streams, inputs and reviewed candidates.
* *TitleQueue*: two titles without artwork, a selection of both, delays and lifetimes of
  one day, no two failures told apart, one upset (a kill, a failed write, a change from
  outside). Days and runs are unbounded. `StopInv` is proved without bounds.
* *ApprovalLane*: two proposals and one other row, batches of one, two edits by others,
  two requests in flight. Proved without bounds.
* *LabDecision*: no, one or two retained candidates with every set of methods that the
  retrieval can give them, and one score below each threshold and one at it. Proved for
  any scores, any thresholds and up to eight candidates, the pipeline's largest number.

Symmetry permutes only values that the other program of the run does not contain, and is
used in no run with a liveness property.

### Fairness

* `Publication!FairSpec`: a publish job that can take its next step takes it or is
  ended by a failure, since its steps have no waits and its time limit is 30
  minutes. Nothing is assumed of builds, triggers, expiry or the CDN.
* `VerificationPass!ChainSpec`: the chain's own runs make their steps and a retry
  falls due when its time comes. Kills, restores and deployments are excluded, for
  each of them ends the chain by hand or starts another; deferrals are finitely many
  (see the hazard at `verify_vod_catalog.py:233`: nothing in the code bounds batches
  that spend all their time warming).
* `SheetSync!FairSpec`: runs are scheduled and never wait, a request in flight ends.
  Nothing is assumed of editors or of the provider but that the bounds make them
  quiet eventually; interruptions are bounded too.
* `NativeGuide!FairSpec`: the steps of the run that holds the lock are taken, time
  passes, and runs of both workflows start again and again (strongly, for each waits for the
  other), which is their schedule. Providers answer as they like, except the `Steady`
  ones once they are back; faults are bounded.

`TitleQueue` has no fairness. The scheduled workflow passes `--max-tmdb-requests 0`
(`vod.yml:135`) and the backfill is started by hand, so nothing in the code assures that TMDB
is asked at all. `NoTitleStarves` therefore compares titles: in a behaviour in which titles are
asked about again and again, whoever starts those runs, every title that stays open is among
them. It needs that upsets end, which is their bound: a queue that can never be
saved forgets whom it asked. `ReviewQueue` has no fairness either: `RunsDecide` says of each
step what others would say of the long run.

### Deadlock

`CHECK_DEADLOCK FALSE` is used where a behaviour really stops: a build is done, a row is
decided, a lane is idle, or a counter (uploads, time, attempts, edits) has reached its
bound. The verification runs alone have no such end and are checked for deadlock, the
waiting state being one from which `Start` is possible.

## 4. What is proved

`tlapm` checks these for every value of the constants that satisfies the modules'
assumptions. Each proof rests on an inductive invariant (`IInv`), which TLC had checked
on the run's instance before.

**Publication** (`PublicationProofs`). `TypeCorrect` and `PublishersWait` hold
without further assumption; the rest assume `WindowCovers`, that is, that the
listing reaches every unexpired artifact (finding 1 is what happens otherwise).

* `PublishersWait`: the lock never cancels a waiting publisher. It rests on
  `LockInv`: each workflow's group is held until its publisher ends, so behind the
  holder there is at most one active run, that of the other workflow.
* `Invariance`: `IInv = TypeOK /\ LockInv /\ ClockInv /\ SiteInv /\ RestoreInv`.
  The properties are not inductive by themselves: that a deployed component is fresh
  depends on what the holder restored some steps before, and on nobody having
  deployed or validated something it should have seen in between. `RestoreInv` says what a
  restored snapshot is worth at each phase of the holder, `SiteInv` why reading an
  expired component back through the CDN is safe, and `ClockInv` ties uploads,
  expiry and the listing together.
* `DeployedIsValidated`, `DeployedIsFresh`, `NeverRollsBack`: consequences of it. `SiteChange`
  reduces each to the one step that deploys.
* `Refinement`: `Publication` implements `PublishedSite`; a successful build maps to
  `Validate`, a deployment to `Publish`, all else to stuttering.

**RateLimiter** (`RateLimiterProofs`). `Durability` (`DurableInv`, the inductive
invariant `TypeOK /\ SaveInv /\ CountInv /\ PacedInv`), `CountsEveryRequest`
(`DurableCountCoversWire`), `SavesNeverGoBack`, `PermitsAlwaysPaced`. `SaveInv`
places every snapshot being saved between the durable and the current state;
`CountInv` counts the threads that are about to send, which is why a saved counter
covers a request before it leaves; `PacedInv` says that each pause still owed is in
every snapshot that counts its 429.

**EnrichmentQueue** (`EnrichmentQueueProofs`). `QueueIsSound` is the inductive invariant,
`OutcomesStayCurrent` (`QueueInv`), `IdleVerdictIsRight` (`IdleIsJustified`),
`PosterProofsAreSound` (`PosterProofsHold`) and `NothingIsForgotten` (`ProgressIsKept`)
follow from it. A state is copied between a job's directory and the artifacts, and after a
kill it is sealed beside the report of an earlier batch; so the invariant says what a state
is worth wherever it lies (`StateInv`), what the open work of a pool holds against the rows
it came from (`WorkInv`), that every report is either true of the rows beside it or one
that no `Prepare` takes for idle (`ReportInv`), and which state descends from which
(`ChainInv`). A batch that ends well has reopened all collisions its own index shows
(`CollisionsReopened`). Assumed (`EnrichmentAssumption`): finitely many records, and the
types of the constants. The proof showed that two arms of a CASE in the model overlapped;
they were made exclusive, as in the code.

**VerificationPass** (`VerificationPassProofs`). `PassIsSound`, `OneRevisionOncePerItem`
(`PassInv`), `PosterProofsAreSound` (`PosterProofsHold`), `OutcomesAreFinal`
(`CompletedIsFinal`). The invariant has one part for each place where a kill can leave
something: `CheckpointInv` for what a checkpoint may be trusted for wherever it lies,
`PhaseInv` for how far an initialization is, `WorkInv` for open lookups against the rows,
`PosterInv` for revocations against the cache and the index, `ReportInv` for what a sealed
report claims. A replay of the initialization charges an item once because its counter says
whether it did before. Assumed (`VerificationAssumption`): finitely many movies, and the types
of the seed caches and key maps.

**SheetSync** (`SheetSyncProofs`). `InductiveInvariant`, `SheetInvHolds` (`SheetInv`),
`BundleIsOwnWorkHolds` (`BundleIsOwnWork`) and `BundleQuarantinesHolds`
(`BundleQuarantines`), the last two action properties. The Sheet has no compare-and-set and
no transaction, so that no stream gets a second row rests on what a run knows while others
write: `DecisionInv` says that its proposals are streams without a row in what it read, and
its updates rows of the stream they name; `ProgressInv` how much of that it has sent, and
that from its last batch to its bundle its own table is what it read, with the proposals behind
and the updates inside (`Worked`); `RunOK` that every stream of the Sheet was there when it read
or is one it has sent itself, and that what it has yet to alert is not open; `LateOK` that a
request that failed and still takes effect repeats nothing, no run being on that could send it
again. That a bundle has each row once then needs counting: as many rows as streams, and
each stream there. Assumed (`SheetSyncAssumption`): finitely many streams, numbered, and a
Sheet that parses at first.

**ReviewQueue** (in `SheetSyncProofs`). `ReplacedTargetsAreRestored` (`ReviewInv`),
`EditorsDecisionsStand` (`RunsRespectEditors`), `WaitingRowsAreDecided` (`RunsDecide`) and
`RunsKeepTheirLimits`. A run tells its own work from an editor's by the marks of a row, so
the inductive invariant (`ReviewIInv`) adds to the types and to `FallbackRestores` that no
mark approves anything but a schedule that was found (`SheetSound`): then a row that is
bound to the machine cannot hold an editor's target (`BoundTarget`), whatever was edited in
between. `RunsDecide` needs that a lane somebody is on writes somebody, and the limits that
no two streams have the same turn; both are facts about the rotation (`InTurnSome`,
`InTurnBound`), for which `InTurn` says who comes before whom instead of sorting a sequence,
so that no induction over sequences is needed; the reachable states are the same. That no
lane spends another's share is then counting (`UpdatesBound`, `GuidesBound`).
Assumed (`ReviewQueueAssumption`): finitely many numbered streams of three servers, positive
limits and cycle; no bound on edits, failed runs and changes but that they are finitely many.

The proof attempts changed two things. `RunsRespectEditors` had said that a run takes back a
row only if nobody wrote it since its local guide; this held on the instance only because
one edit is not enough: a row renamed, accepted, renamed back and accepted is whole again,
and a run may take its guide back, as the code means it to. It now asks for a whole local
guide, which is what the code looks at. And the arms of a CASE in `FallbackClass` overlapped,
so that the definition left open what TLC, taking the first, had decided; it is a
chain of conditions now, as in the code, and so is `EnrichmentQueue!Warmed`.

**NativeGuide** (`NativeGuideProofs`). `RunsAreSound` is the inductive invariant,
`SavedGuidesAreUsed` (`NativeInv`) and `NobodyIsAskedEarly` (`ProvidersSpared`, an action
property) follow. `StepInv` says which steps a run can be at; `FilesInv` that no sealed
bundle is torn, that a run's directory is torn only between the two writes of a save unless
something failed, and that no history claims more than the bundle holds. `CooldownInv` says
at each step which of the two places carries every delay that providers still have a right
to: before the restore the bundle, then the directory too, at the end the bundle again;
after a fault none may. `GuideInv` says that a build's directory has the sealed guides of
the servers still to serve, and that it took placeholders only for guides that cannot be used
any more. `ReportInv` says why a request from a stale health report is impossible: past its
plan a recovery knows that no refresh ended within `Window`, and the CDN serves the
report before only for `Lag <= Window`. This relation of two constants is an assumption
(`NativeGuideAssumption`); the rest of it are types, and that delays are positive.

**ApprovalLane** (`BacklogProofs`). `LaneIsChecked` (`LaneInv`, inductive as it
stands), `StaleTargetsAreRefused` (`StaleTargetsRefused`), `ApprovesOnlyProposals`
(`OnlyApprovedTransitions`). They rest on lemmas about what the command computes from
a table: a stream has one row in a table it accepts, so a row number found for a target
names that target's row; and a batch patches just these.

**TitleQueue** (`BacklogProofs`). `StopProofsAreConfirmed` (`StopInv`): a stop proof outlives
the run that wrote it only if the evidence it waits for did not fail, or that run was killed
or could not write. The invariant (`TitleIInv`) says why: the code writes the proof before it
asks for the evidence, so that between two runs no proof may be unconfirmed but a torn one, and
within a run only that of the title being probed (`StopsAwaited`), which is the first of
those still to ask about; and an empty cache holds no proof (`EmptyCaches`). Assumed
(`TitleAssumption`): finitely many titles, and delays and lifetimes that are numbers.

**LabDecision** (`BacklogProofs`). `DecisionsAreValidated` (`DecisionsValidate`),
`ExactEvidenceOnlyAdds` (`ExactEvidenceNeverDowngrades`). The invariant (`LabInv`) only says
how a proposal came about: decided from evidence that the retrieval can produce, then as it
was, placed or demoted by the answer. The work is in the lemmas, one for each way the
pipeline can end and each rule of the validator, which state the same in different words: the
codes a decision carries, the state they put it in, and the lanes that may
follow. Nothing is assumed of the scores, and of the thresholds only their order
(`PolicyAssumption`).

**GuideBuild** (`GuideBuildProofs`). `Invariance` (the inductive invariant),
`FailedBuildsKeepTheGuide` (`GuideInv`), `SchedulesAreDecided` (`ScheduleIsDecided`),
`BoundIdsAreBound` (`BoundMeansBound`), `OnlyOwnersHide` (`HiddenOnlyByOwner`). A build changes
its rows and links four times before it writes, so the invariant says where a row comes from
and what a link is worth between these steps. `Origin`: a row is as it was decided, set aside,
a proven event or heading, or a reviewed connection; a connection can only come of a row as
decided, for the other kinds have other names or reasons. `Trusty`: an ID that the inventory
hands out is claimed by its stream alone, one that it calls shared is claimed by the stream too;
from this follows `Truth`, that an ID proven after the sharing is the ID of every stream to which
the provider gives it, because members that are as many as the claims are all of them.
`NativeIsCurrent` holds from the fetch on, `Exchange` follows the two renames. That only an
owner hides a stream is then a fact about the contest alone: of the owners of an ID the best
level wins, and among equals the one that leads or the least number, so there is always
a winner, and it is an owner (`OwnersAreShown`); and a name that no schedule owns belongs to the
local stream that alone has it. Where the name is another's ID the stream is under none
(remark 5). Assumed (`GuideAssumption`): finitely many numbered streams,
candidates that are guide IDs, and inputs of the form the Sheet's snapshot has: no reserved
reason, and a guide's ID or none unless the row is a dummy's. For the proof the best usable
candidate became the one at the least place, where a sequence was filtered before; the
states are the same.

### What stays with TLC, and why

* *Liveness* (`PublisherResolves`, `ChainEnds`, `RunSettles`, `Recovers`,
  `TitlesTried`): temporal reasoning of this kind, fairness and `ENABLED` are out of this prover's reach. What they need
  at each step is partly proved: `PublishersWait` for the lock, `WaitingRowsAreDecided` for
  the REVIEW queue.
* The five refuted properties (section 6) are TLC's counterexamples.

Every safety invariant and every action property of a passing run is the statement of a theorem.
No module uses a `RECURSIVE` operator.

## 5. Assumptions of the models

*Publication.* Retention (7 days) is much longer than a publisher (30 minutes) and
the CDN's lag, so what a publisher holds or has deployed expires only after the CDN
serves it (`Expire`). One listing is read atomically. Artifact contents, checksums
and the many checks of the publish job appear as the possibility to fail
(`PublisherFails`).

*RateLimiter.* Time is in ticks, and the monotonic and the wall clock agree. Parsing
of `Retry-After` is the choice of a pause. A kill and a normal end of a batch look
the same to the next one.

*EnrichmentQueue.* A component is identified by its artifact. A service's cooldown
only delays. Trending lists matter only by their due time. One server and kind: the
rotation between them and the priority hint are not modelled. Looking a title up is
a choice of an outcome among those the rules allow (a poster match only when the poster
belongs to the movie and to no other known one).

*VerificationPass.* `rule`, `hits` and `revoked` are history: no step decides from
them. The state directory survives the process (a local rerun); a workflow run that is
killed loses it, which is `Kill` followed by `Restore`. A pass started afresh is a new
test id, to which older sealed checkpoints do not belong (`restore_state` compares
test id and revision). `keyOf` is fixed for a pass, for its component is frozen. One server
and kind.

*SheetSync.* One server. `Names` are brand identities of which any two count as a
possible reuse; mere drift of a name's spelling is left out. The matcher is an
arbitrary choice of what it approves (`Approvals`), whichever of its lanes does. Editors edit,
decide, sort and delete rows and resolve alerts; they add no rows and reopen no alerts. A
request that its run gave up takes effect, if at all, before the next run starts (the
concurrency group keeps runs apart), and one such request is in flight at a time.
`Interrupt` is the 85-minute limit, a kill or a failed read. A late update whose row is gone
leaves a row without identity (`Fragment`), which makes the tab unparsable; `Settles`
excludes that. Not modelled: the overlap and size limits, the finalization of table range and
filters, the reads that single lanes of the matcher make between the comparison and the writes
(native guides, the AI lane's own terminal read), and the append without recheck that only the
manual repair workflow uses (`sync_channel_inventory.py:8959`).

*ReviewQueue.* A run is one step, and the steps inside it are SheetSync's. A target is its
class, a verdict what the catalogues would say today. An outage and a miss of the provider's
guide are one answer, given for each stream. Left out: the AI lane, the
route-repair allowlist, rollback records longer than the notes cell, the enabled
cell, the recognition of adult channels and headings, the approval limit of single
servers. `RunsDecide` excludes a run that aborts (remark 3 below).

*NativeGuide.* No time passes within a refresh, which reads the clock once. A guide of an
account configured before counts as too old and its cooldown as over: the code
compares fingerprints. `MaxFaults` bounds failing steps, lost runners, lost bundles and
changes of account together.

*GuideBuild.* One server per behaviour: the servers meet only in the accounting, whose
checks of a row are here. A name stands for its spellings, an EPGShare ID for its; streams
that no row maps and rows of adult channels are left out. How good the retained
programmes are is a level from 0 to 2, and `leaning` decides between equals. Only the first
stream is ever in quarantine, the two being alike. A name may equal a guide ID; the IDs that
local streams of one name get beside it equal nothing else.

*TitleQueue.* Every title has an identity; reviewed corrections, the retry of posters and the
bound on the queue's size are left out, as are titles for which no request can be made
(remark 6). The provider is asked for evidence only after an answer TMDB has just given. Other
writers of the caches (`Elsewhere`) are bounded with the upsets. A client that refuses a
request ends the run: its clock started after the run's and has the same length.

*ApprovalLane.* A row is whose it is, its review, its guide and the version of its reason and
notes. The checks of the catalogue and of the provider are one fact each, `current` and
`renamed`, that others change at any time. Editors are bounded for TLC only.

*LabDecision.* Every retained candidate is checked for programmes. The relaxed, compact and
bag-of-words methods are one, as are the fuzzy tiers, the codes of protected conflicts and
the answers that do not support the selection; codes that only word a reason are left
out. `DecisionsValidate` excludes a row with both a frozen and a storage conflict
(`TwoConflicts`): there `pipeline.py:242-260` returns before it adds the storage code that
`validation.py:1235-1251` demands. Whether any real row has both is not established.

## 6. Findings

1. **A retried publisher can roll back a component** (`pub_listing_window`,
   `RetryCannotRollBack`). `component_artifacts.py:201` stops after five pages of 100
   artifacts without an error; the run's own artifact is read by id. When more than
   500 artifacts were uploaded since a newer build, a retried older publisher does not
   see that build and deploys its own. `docs/INDEPENDENT_PUBLICATION.md:16-17` says
   that "an old publisher retry cannot roll back a newer component".
   `vod_enrichment_artifacts.py` raises in the corresponding case.
2. **A REVIEW update can overwrite a decision** (`sheet_update_window`,
   `OnlyReviewRowsUpdated`). Between the last read of the Mappings (5795) and the
   request (5851) a row can be decided, or another channel can move into it; the
   request is addressed by row numbers and states nothing of what they must hold. When
   only the patched cells differed, the read after the write accepts the outcome;
   otherwise the run ends, the cells being changed already.
   `channel_inventory_sync.yml:74-76` promises "bounded REVIEW-row updates".
3. **An event slot can stop every build** (`guide_accounting`, `AccountingHolds`). A row
   of Server 1 under review that had the provider's own guide becomes the local guide of
   its event slot; its `requested_source` stays "panel", and `build_guide_coverage`
   (`build_epg_streaming.py:5396`) takes it for a forbidden provider guide and raises. The
   overlay is meant to "give an unresolved slot its own local synthetic schedule"
   (`:1290`).
4. **An excluded row can be published** (`guide_exclusions`, `IgnoredStaysExcluded`).
   `write_mapping_snapshot` (`sync_channel_inventory.py:3926`) turns the action of every row
   with an open alert into REVIEW; `build_epg_streaming.py:1471` then gives an IGNORE row of
   an event slot a local guide. Its comment (`:1465`) says that "Explicit IGNORE/SKIP/REJECTED
   decisions remain excluded."
5. **A deferred placeholder never resumes** (`review_deferred`, `DeferredResumes`). An
   approval that a large batch puts off keeps its proposed target. For an exact placeholder
   that target has only the unbound note, so that the selection
   (`sync_channel_inventory.py:3162-3189`) takes it for an operator's and no run looks at
   the row again. `auto_match_inventory.py:1427` says: "Retain a safe first batch; disabled
   REVIEW rows resume on later runs."

Remarks, met while modelling, that no run states:

1. `provider_guide_links` gives event aliases before the native panels are read. When a
   provider is down afterwards, streams that share one proven ID each get a placeholder of
   their own under it, though the code says "Share an ID only when every authenticated member
   selects one schedule".
2. The uniqueness of an event's ID alias is decided among the playlist's claims only; the
   API's claims do not count.
3. A row of Server 2 or 3 under REVIEW, with a stored native candidate that the provider's
   guide does not confirm, whose match is an exact placeholder, makes
   `terminal_coverage_fallback_updates` raise (`auto_match_inventory.py:1991-1999`): every daily
   run then stops before it writes anything, until the row or the catalogue changes. The
   comment at 2103-2105 expects such a row to be passed over.
4. A row that gets a local guide a second time has two coverage marks, which together are
   recognised as none; it is never restored or upgraded. `FallbackRestores` is stated for the
   first.
5. A local stream whose name is the EPG ID of another stream's schedule is under no XMLTV ID at
   all. Names and IDs share one dictionary, in which a `canonical_epg_id` (priority 2) takes the
   place of a local `channel_name` (0) (`build_epg_streaming.py:4247-4252`, `4279-4297`), and
   only streams whose name is a duplicate get a `synthetic_stream_id` (4364-4377).
   `HiddenOnlyByOwner` says that this is the only way to be hidden; without its last
   alternative it is violated.
6. A title whose name needs corroboration and that has no poster to use and no further evidence
   is answered without a request (`vod_tmdb.py:1230-1231`). `record_result` counts no attempt then, so
   the title stays due and keeps its early place; more such titles than `--resolution-limit`
   would keep all others out. How many a catalogue has is not established.

## 7. Plan

1. `Publication`, `RateLimiter`, `EnrichmentQueue`, `VerificationPass`, `SheetSync`,
   `NativeGuide`, `ApprovalLane`, `GuideBuild`: **modelled, checked, proved** (but for liveness).
2. `TitleQueue`, `ReviewQueue`, `LabDecision`: **modelled, checked, proved** (but for
   liveness and for finding 5).
3. What would come next: the liveness properties by hand-made ranking arguments, step by step as
   for `RunsDecide`; the decision memo of the matcher and its sealed cache
   (`scripts/matcher_decision_cache.py`, `private_matcher_cache.py`).

Not modelled, and why: the map covers about 14 % of the repository's lines. Most of
the rest is text (matching and ranking of names and titles), parsing and rendering of guides
and catalogues, clients of external services, media and icons, offline diagnostics, and an
engine of which each layer redefines the one before (`skytv_epg_engine.py`): the hazards there
are those of one function's inputs, which the repository's tests address, and no state outlives
the process. `PROJECT.json` gives the reason for each component.

## 8. Running

    tlc -workers 2 -config pub_safety.cfg MCGuidePublication.tla
    tlapm NativeGuideProofs.tla

Each run finishes within four minutes on two cores; `tlapm` needs about two minutes
for a proof module, and eight for `SheetSyncProofs`.
