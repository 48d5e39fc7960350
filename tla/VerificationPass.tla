-------------------------- MODULE VerificationPass --------------------------
(***************************************************************************)
(* The resumable verification of one frozen VOD component: the checkpoint  *)
(* of scripts/vod_verification_checkpoint.py, the batch of                 *)
(* scripts/verify_vod_catalog.py and the chain of workflow runs that hand  *)
(* the sealed checkpoint on (scripts/vod_verification_artifacts.py,        *)
(* .github/workflows/verify-vod.yml).                                      *)
(*                                                                         *)
(* The state directory survives its process: a batch killed between two    *)
(* transactions may be run again over what it left, or the operator goes   *)
(* back to the last sealed checkpoint, or starts the pass afresh.  Items   *)
(* of one identity key share a lookup and its result.                      *)
(***************************************************************************)
EXTENDS Naturals, FiniteSets

CONSTANTS
    Items,        \* content ids of the frozen component
    Keys, KeyMaps, \* identity keys; which the items may have
    PosterOf,     \* PosterOf[k]: poster path in a key's source record, or NoPoster
    Movies,       \* TMDB identities
    Official,     \* Official[m]: the official poster paths of a movie
    SeedCaches,   \* what the seed cache may prove: keys -> [status, movie]
    MaxAttempts,  \* attempts at an item that finds no answer
    BatchRecords, \* items selected by a batch
    Workers,      \* worker threads
    MaxCode, MaxInterruptions, \* bounds on the deployments and the interruptions
    NoPoster, NoMovie, NoCode, NoState

Codes == 0 .. MaxCode
Statuses == {"none", "no_match", "unavailable", "matched", "matched_poster"}
MATCHED == {"matched", "matched_poster"}
Posters == UNION {Official[m] : m \in Movies}
NotCached == [status |-> "none", movie |-> NoMovie]
Caches == [Keys -> [status : Statuses, movie : Movies \cup {NoMovie}]]

ASSUME VerificationAssumption ==
    /\ MaxAttempts \in Nat \ {0} /\ MaxCode \in Nat /\ MaxInterruptions \in Nat
    /\ IsFiniteSet(Movies)
    /\ KeyMaps \subseteq [Items -> Keys] /\ SeedCaches \subseteq Caches

VARIABLES
    keyOf,     \* keyOf[i]: the identity key of an item
    seed,      \* the production cache the pass is seeded with
    code,      \* revision on the branch
    store,     \* the newest sealed checkpoint, or NoState
    disk,      \* the state directory
    interruptions, \* deferrals, and batches cut short before any work, so far
    phase,     \* where the batch stands
    using,     \* revision its run checked out
    warm,      \* items whose cached proof is still to be recorded
    known,     \* movies in the poster index its clients share
    work,      \* groups still to submit
    submitted, \* the batch has submitted a group
    running,   \* groups a worker is looking up
    results,   \* results not yet recorded
    fatal      \* what stopped the batch

memory == <<warm, known, work, submitted, running, results, fatal>>
pass == <<store, disk, interruptions, phase, using, memory>>
input == <<keyOf, seed>>
vars == <<input, code, pass>>

NewRow == [state |-> "pending", due |-> FALSE, attempts |-> 0, status |-> "none", rule |-> NoCode]

\* rule is history: the revision that found the row's outcome.  So are hits, the
\* cache hits charged to an item, and revoked, the posters of reopened matches.
Rows == [state : {"pending", "retry", "done"}, due : BOOLEAN, attempts : 0 .. MaxAttempts,
         status : Statuses, rule : Codes \cup {NoCode}]
Reports == [unfinished : BOOLEAN, fatal : BOOLEAN]
Disks == [stage : {"new", "initializing", "frozen", "ready"}, config : Codes \cup {NoCode},
          items : [Items -> Rows], cache : Caches,
          tombstones : SUBSET Posters, ahead : BOOLEAN, report : Reports \cup {NoState},
          hits : [Items -> Nat], revoked : SUBSET Posters]

EmptyDisk ==
    [stage |-> "new", config |-> NoCode, items |-> [i \in Items |-> NewRow],
     cache |-> [k \in Keys |-> NotCached], tombstones |-> {}, ahead |-> FALSE,
     report |-> NoState, hits |-> [i \in Items |-> 0], revoked |-> {}]

Groups == [key : Keys, ids : SUBSET Items]
Results == [key : Keys, ids : SUBSET Items, status : Statuses]
Phases == {"stopped", "initializing", "warming", "opening", "reopening", "working",
           "closing", "numbered", "reported", "continuing"}

TypeOK ==
    /\ keyOf \in KeyMaps /\ seed \in SeedCaches
    /\ code \in Codes /\ using \in Codes \cup {NoCode} /\ interruptions \in 0 .. MaxInterruptions
    /\ store \in Disks \cup {NoState} /\ disk \in Disks /\ phase \in Phases
    /\ warm \subseteq Items /\ known \subseteq Movies /\ work \subseteq Groups
    /\ running \subseteq Groups /\ results \subseteq Results
    /\ submitted \in BOOLEAN /\ fatal \in {"none", "rejected", "exception"}

NoMemory ==
    /\ warm' = {} /\ known' = {} /\ work' = {} /\ running' = {} /\ results' = {}
    /\ submitted' = FALSE /\ fatal' = "none"

Init ==
    /\ keyOf \in KeyMaps /\ seed \in SeedCaches
    /\ code = 0 /\ store = NoState /\ disk = EmptyDisk /\ interruptions = 0
    /\ phase = "stopped" /\ using = NoCode
    /\ warm = {} /\ known = {} /\ work = {} /\ running = {} /\ results = {}
    /\ submitted = FALSE /\ fatal = "none"

Due(row) == row.state = "pending" \/ (row.state = "retry" /\ row.due)

Collided(poster, movies, tombstones) ==
    \/ poster \in tombstones
    \/ Cardinality({m \in movies : poster \in Official[m]}) > 1

Poster(i) == PosterOf[keyOf[i]]

-----------------------------------------------------------------------------
(***************************************************************************)
(* The environment: deployments, time, the operator.                       *)
(***************************************************************************)
Deploy ==
    /\ code < MaxCode
    /\ code' = code + 1
    /\ UNCHANGED <<input, pass>>

\* A retry falls due.
FallDue(i) ==
    /\ disk.items[i].state = "retry" /\ ~disk.items[i].due
    /\ disk' = [disk EXCEPT !.items[i].due = TRUE]
    /\ UNCHANGED <<input, code, store, interruptions, phase, using, memory>>

\* The operator resumes the last sealed checkpoint, of the same revision, or
\* starts a test of a new id, which none of the old checkpoints belongs to.
Restore ==
    /\ phase = "stopped"
    /\ \/ store # NoState /\ store.config = code /\ disk' = store /\ UNCHANGED store
       \/ disk' = EmptyDisk /\ store' = NoState
    /\ disk' # disk
    /\ UNCHANGED <<input, code, interruptions, phase, using, memory>>

\* A batch dies between two of its transactions.
Kill ==
    /\ phase # "stopped"
    /\ interruptions < MaxInterruptions /\ interruptions' = interruptions + 1
    /\ phase' = "stopped" /\ using' = NoCode
    /\ NoMemory
    /\ UNCHANGED <<input, code, store, disk>>

-----------------------------------------------------------------------------
(***************************************************************************)
(* run_batch: the initialization                                           *)
(***************************************************************************)
Begin ==
    /\ using' = code
    /\ IF disk.stage = "ready"
       THEN phase' = "opening" /\ UNCHANGED disk
       ELSE /\ phase' = "initializing"
            /\ disk' = [disk EXCEPT !.stage = IF @ = "new" THEN "initializing" ELSE @,
                                    !.config = IF disk.stage = "new" THEN code ELSE @]
    /\ NoMemory
    /\ UNCHANGED <<input, code, store, interruptions>>

\* Mutant of ConfigAgrees: an initialization that was cut short is not compared.
ConfigComparedWhenReady(d, revision) == d.stage = "ready" => d.config = revision

\* The configuration, code identity included, is that of the interrupted pass.
ConfigAgrees(d, revision) == d.stage # "new" => d.config = revision

Start ==
    /\ phase = "stopped"
    /\ ConfigAgrees(disk, code)
    /\ Begin

\* prepare_records, initialize: the seed cache is copied, all its proofs are read
\* into the poster index and the fresh ones are then believed, unless they collide;
\* the inputs are frozen in one transaction, or found to be the frozen ones.
Freeze ==
    /\ phase = "initializing"
    /\ LET movies == {seed[k].movie : k \in Keys} \ {NoMovie}
           believed(k) == /\ seed[k].status # "none"
                          /\ seed[k].status = "matched_poster" => ~Collided(PosterOf[k], movies, {})
       IN  /\ disk' = [disk EXCEPT !.stage = "frozen", !.cache = seed,
               !.tombstones = {Poster(i) : i \in {j \in Items : Collided(Poster(j), movies, {})}}]
           /\ \E fresh \in SUBSET Keys :
                 warm' = {i \in Items : keyOf[i] \in fresh /\ believed(keyOf[i])}
           /\ known' = movies
    /\ phase' = "warming"
    /\ UNCHANGED <<input, code, store, interruptions, using, work, submitted, running, results, fatal>>

\* Mutant of Warmed: a replayed outcome is written again.
WarmedAgain(d, i, revision) ==
    [d EXCEPT !.hits[i] = @ + 1,
              !.items[i] = [state |-> "done", due |-> FALSE, attempts |-> 1,
                            status |-> d.cache[keyOf[i]].status, rule |-> revision]]

\* record_result of a cached proof; an exact replay changes nothing.
Warmed(d, i, revision) ==
    IF d.items[i].state = "done" THEN d
    ELSE [d EXCEPT !.hits[i] = @ + 1,
                   !.items[i] = [state |-> "done", due |-> FALSE, attempts |-> @.attempts + 1,
                                 status |-> d.cache[keyOf[i]].status, rule |-> revision]]

Warm(i) ==
    /\ phase = "warming" /\ i \in warm
    /\ disk' = Warmed(disk, i, using)
    /\ warm' = warm \ {i}
    /\ UNCHANGED <<input, code, store, interruptions, phase, using, known, work, submitted, running, results, fatal>>

\* verificationConfig marks the initialization as complete.
Ready ==
    /\ phase = "warming" /\ warm = {}
    /\ disk' = [disk EXCEPT !.stage = "ready"]
    /\ phase' = "opening"
    /\ UNCHANGED <<input, code, store, interruptions, using, memory>>

-----------------------------------------------------------------------------
(***************************************************************************)
(* run_batch: the work                                                     *)
(***************************************************************************)
\* Mutant of CollidedRow: every match that shows the poster is reopened.
AnyCollidedRow(d, i, movies) ==
    /\ d.items[i].state = "done" /\ d.items[i].status \in MATCHED
    /\ Collided(Poster(i), movies, d.tombstones)

\* Only a completed poster match can be reopened.
CollidedRow(d, i, movies) ==
    /\ d.items[i].state = "done" /\ d.items[i].status = "matched_poster"
    /\ Collided(Poster(i), movies, d.tombstones)

\* reopen_collided_posters, its first transaction: the paths are saved ...
Entombed(d, movies) ==
    [d EXCEPT !.tombstones = @ \cup {Poster(i) : i \in {j \in Items : CollidedRow(d, j, movies)}}]

\* ... and its second: the matches start afresh.
Reopened(d, movies) ==
    LET collided == {i \in Items : CollidedRow(d, i, movies)}
    IN  [d EXCEPT !.items = [i \in Items |-> IF i \in collided THEN NewRow ELSE d.items[i]],
                  !.revoked = @ \cup {Poster(i) : i \in collided}]

\* Mutant of Open: the index is not rebuilt from the completed matches.
OpenForgetting ==
    /\ phase = "opening" /\ phase' = "reopening"
    /\ disk' = Entombed(disk, known)
    /\ UNCHANGED <<input, code, store, interruptions, using, memory>>

\* warm_completed rebuilds the index from the completed matches' caches.
IndexOf(d) ==
    {d.cache[keyOf[i]].movie :
        i \in {j \in Items : d.items[j].state = "done" /\ d.items[j].status \in MATCHED}} \ {NoMovie}

Open ==
    /\ phase = "opening" /\ phase' = "reopening"
    /\ known' = known \cup IndexOf(disk)
    /\ disk' = Entombed(disk, known')
    /\ UNCHANGED <<input, code, store, interruptions, using, warm, work, submitted, running, results, fatal>>

\* The second transaction, then pending: the due rows, the least attempted
\* first, and pending_group: with each, all the due rows of its key.  One server and
\* kind is modelled, so the rotation between them is not.
Select ==
    /\ phase = "reopening" /\ phase' = "working"
    /\ disk' = Reopened(disk, known)
    /\ LET due == {i \in Items : Due(disk'.items[i])}
       IN  \E S \in SUBSET due :
             /\ Cardinality(S) = IF Cardinality(due) <= BatchRecords
                                 THEN Cardinality(due) ELSE BatchRecords
             /\ \A i \in S, j \in due \ S : disk'.items[i].attempts <= disk'.items[j].attempts
             /\ work' = {[key |-> keyOf[i], ids |-> {j \in due : keyOf[j] = keyOf[i]}] : i \in S}
    /\ UNCHANGED <<input, code, store, interruptions, using, warm, known, submitted, running, results, fatal>>

Submit(group) ==
    /\ phase = "working" /\ group \in work
    /\ Cardinality(running) + Cardinality(results) < Workers
    /\ work' = work \ {group} /\ submitted' = TRUE
    /\ running' = running \cup {group}
    /\ UNCHANGED <<input, code, store, disk, interruptions, phase, using, warm, known, results, fatal>>

\* The deadline, a deferral or a rejected credential stops submission.
StopSubmitting ==
    /\ phase = "working" /\ work # {}
    /\ work' = {}
    /\ \/ submitted /\ fatal' = "none" /\ UNCHANGED interruptions
       \/ /\ ~submitted /\ fatal' = "none"
          /\ interruptions < MaxInterruptions /\ interruptions' = interruptions + 1
       \/ fatal' = "rejected" /\ UNCHANGED interruptions
    /\ UNCHANGED <<input, code, store, disk, phase, using, warm, known, submitted, running, results>>

\* Mutant of MayMatchPoster: the saved collisions are not restored to the index.
MayMatchPosterUnsaved(d, k, m, movies) ==
    PosterOf[k] \in Official[m] /\ ~Collided(PosterOf[k], movies, {})

MayMatchPoster(d, k, m, movies) ==
    PosterOf[k] \in Official[m] /\ ~Collided(PosterOf[k], movies, d.tombstones)

\* A worker's client answers: a match is cached, its movie joins the index.
Verify(group) ==
    /\ phase = "working" /\ group \in running
    /\ running' = running \ {group}
    /\ \/ \E m \in Movies, status \in MATCHED :
            /\ known' = known \cup {m}
            /\ status = "matched_poster" => MayMatchPoster(disk, group.key, m, known')
            /\ disk' = [disk EXCEPT !.cache[group.key] = [status |-> status, movie |-> m]]
            /\ results' = results \cup
                 {[key |-> group.key, ids |-> group.ids, status |-> status]}
       \/ /\ \E status \in {"no_match", "unavailable"} :
               results' = results \cup
                 {[key |-> group.key, ids |-> group.ids, status |-> status]}
          /\ UNCHANGED <<disk, known>>
    /\ UNCHANGED <<input, code, store, interruptions, phase, using, warm, work, submitted, fatal>>

\* Mutant of Recorded: an attempt that found no answer is not counted.
RecordedUncounted(row, status, definitive, revision) ==
    IF status \in MATCHED \/ definitive
    THEN [row EXCEPT !.state = "done", !.status = status, !.rule = revision]
    ELSE [row EXCEPT !.state = "retry", !.due = FALSE, !.status = "unavailable", !.rule = revision]

\* record_result: an outcome that is not definitive is retried, up to MaxAttempts.
Recorded(row, status, definitive, revision) ==
    LET final == status \in MATCHED \/ definitive
    IN  [state    |-> IF final \/ row.attempts + 1 = MaxAttempts THEN "done" ELSE "retry",
         due      |-> FALSE,
         attempts |-> row.attempts + 1,
         status   |-> IF final THEN status ELSE "unavailable",
         rule     |-> revision]

RecordResult(r) ==
    /\ phase = "working" /\ r \in results
    /\ results' = results \ {r}
    /\ \E definitive \in {FALSE, r.status = "no_match"} :
         disk' = [disk EXCEPT !.items = [i \in Items |->
             IF i \in r.ids THEN Recorded(@[i], r.status, definitive, using) ELSE @[i]]]
    /\ UNCHANGED <<input, code, store, interruptions, phase, using, warm, known, work, submitted, running, fatal>>

\* defer: the batch's deadline or a cooldown of the service spends no attempt.
Defer(r) ==
    /\ phase = "working" /\ r \in results /\ r.status = "unavailable"
    /\ interruptions < MaxInterruptions /\ interruptions' = interruptions + 1
    /\ results' = results \ {r}
    /\ \E due \in BOOLEAN :
         disk' = [disk EXCEPT !.items = [i \in Items |->
             IF i \in r.ids THEN [@[i] EXCEPT !.state = "retry", !.due = due,
                                              !.status = "unavailable", !.rule = using]
             ELSE @[i]]]
    /\ UNCHANGED <<input, code, store, phase, using, warm, known, work, submitted, running, fatal>>

Close ==
    /\ phase = "working" /\ work = {} /\ running = {} /\ results = {}
    /\ phase' = "closing"
    /\ disk' = Entombed(disk, known)
    /\ UNCHANGED <<input, code, store, interruptions, using, memory>>

Number ==
    /\ phase = "closing" /\ phase' = "numbered"
    /\ disk' = [Reopened(disk, known) EXCEPT !.ahead = TRUE]
    /\ UNCHANGED <<input, code, store, interruptions, using, memory>>

\* Once the inputs are frozen, an exception still writes a report.
Fail ==
    /\ phase \in {"opening", "reopening", "working", "closing"}
    /\ phase' = "numbered" /\ fatal' = "exception"
    /\ disk' = [disk EXCEPT !.ahead = TRUE]
    /\ work' = {} /\ running' = {} /\ results' = {}
    /\ UNCHANGED <<input, code, store, interruptions, using, warm, known, submitted>>

WriteReport ==
    /\ phase = "numbered" /\ phase' = "reported"
    /\ disk' = [disk EXCEPT
         !.ahead = FALSE,
         !.report = [unfinished |-> \E i \in Items : disk.items[i].state # "done",
                     fatal |-> fatal # "none"]]
    /\ UNCHANGED <<input, code, store, interruptions, using, memory>>

-----------------------------------------------------------------------------
(***************************************************************************)
(* seal, upload and continue                                               *)
(***************************************************************************)
\* A killed batch does not get here: its step fails, and the steps after it are
\* not run.
Upload ==
    /\ phase = "reported"
    /\ disk.report # NoState /\ ~disk.ahead
    /\ store' = disk
    /\ phase' = IF disk.report.unfinished /\ ~disk.report.fatal THEN "continuing" ELSE "stopped"
    /\ using' = NoCode
    /\ NoMemory
    /\ UNCHANGED <<input, code, disk, interruptions>>

\* The next run restores the checkpoint when a row is due; it refuses one sealed
\* by another revision.
Continue ==
    /\ phase = "continuing"
    /\ \E i \in Items : Due(disk.items[i])
    /\ IF store.config = code THEN Begin
       ELSE /\ phase' = "stopped"
            /\ UNCHANGED <<input, code, store, disk, interruptions, using, memory>>

\* A service cooldown of more than half an hour ends the chain.
GiveUp ==
    /\ phase = "continuing" /\ phase' = "stopped"
    /\ UNCHANGED <<input, code, store, disk, interruptions, using, memory>>

-----------------------------------------------------------------------------
Batch ==
    \/ Freeze \/ (\E i \in Items : Warm(i)) \/ Ready
    \/ Open \/ Select
    \/ (\E group \in work : Submit(group)) \/ StopSubmitting
    \/ (\E group \in running : Verify(group))
    \/ (\E r \in results : RecordResult(r) \/ Defer(r))
    \/ Close \/ Number \/ Fail \/ WriteReport
    \/ Upload \/ Continue

Next ==
    \/ Deploy \/ (\E i \in Items : FallDue(i)) \/ Restore \/ Kill \/ Start
    \/ Batch \/ GiveUp

Spec == Init /\ [][Next]_vars

\* A chain that nobody kills or takes back: its runs make their steps, and time
\* passes.
Chain == (\E i \in Items : FallDue(i)) \/ Start \/ Batch \/ GiveUp

ChainSpec ==
    /\ Init /\ [][Chain]_vars
    /\ WF_vars(Batch)
    /\ \A i \in Items : WF_vars(FallDue(i))

-----------------------------------------------------------------------------
(***************************************************************************)
(* Properties                                                              *)
(***************************************************************************)

\* "A changed code/configuration or frozen input is rejected rather than silently
\* mixing passes": every outcome was found by the revision the pass began with.
FrozenRules ==
    /\ \A i \in Items : disk.items[i].rule \in {NoCode, disk.config}
    /\ phase \notin {"stopped", "continuing"} => using = disk.config

\* No completed result is overwritten: what a worker was given is still open when
\* its result is recorded, for all the items that share it.
ResultsApply ==
    \A g \in running \cup results : \A i \in g.ids :
        disk.items[i].state # "done" /\ keyOf[i] = g.key

\* An initialization cut short and replayed, however often, charges an item's
\* cache hit once.
ChargedOnce == \A i \in Items : disk.hits[i] <= 1

PassInv == TypeOK /\ FrozenRules /\ ResultsApply /\ ChargedOnce

\* A poster match revoked for a collision is not made again: by another thread,
\* the next batch, or after a kill between the two transactions.
RevokedStaysRevoked ==
    \A i \in Items :
        disk.items[i].state = "done" /\ disk.items[i].status = "matched_poster" =>
            Poster(i) \notin disk.revoked

\* In a checkpoint sealed without a fatal error, no accepted poster match is
\* refuted by the matches accepted beside it or by a collision found before.
CollisionsReopened ==
    store # NoState /\ ~store.report.fatal =>
        \A i \in Items : ~CollidedRow(store, i, IndexOf(store))

\* No poster proves two movies: neither in what a batch leaves nor in what comes
\* after a collision was found.
PosterProofsHold == RevokedStaysRevoked /\ CollisionsReopened

\* A completed outcome is final, but for a poster match whose collision has been
\* saved before.
CompletedIsFinal ==
    [][phase # "stopped" =>
         \A i \in Items : disk.items[i].state = "done" =>
            \/ disk'.items[i] = disk.items[i]
            \/ disk.items[i].status = "matched_poster" /\ Poster(i) \in disk.tombstones]_disk

\* The chain of batches ends: with bounded interruptions, each item is settled, or the
\* chain stops for a reason its report names.
ChainEnds == phase # "stopped" ~> phase = "stopped"
=============================================================================
