-------------------------- MODULE EnrichmentQueue --------------------------
(***************************************************************************)
(* The rolling VOD enrichment worker: the private queue of                 *)
(* scripts/vod_enrichment_queue.py, the batch of                           *)
(* scripts/enrich_vod_catalog.py that reconciles, warms and works it with  *)
(* a pool of threads, and the chain of sealed state artifacts              *)
(* (scripts/vod_enrichment_artifacts.py, .github/workflows/enrich-vod.yml) *)
(* through which each batch resumes the last one.  The workflow's          *)
(* concurrency group runs one batch at a time; a batch may fail or be      *)
(* killed at any point.                                                    *)
(*                                                                         *)
(* A content is the source record that matching sees: an item's identity   *)
(* key and source hash are its content, and items of equal content share   *)
(* one result.                                                             *)
(***************************************************************************)
EXTENDS Naturals, FiniteSets

CONSTANTS
    Items,        \* content ids
    Contents,     \* what a source may say about an item
    FirstItems,   \* what the first component may hold: items -> contents
    PosterOf,     \* PosterOf[c]: poster path in a content, or NoPoster
    Movies,       \* TMDB identities
    Official,     \* Official[m]: the official poster paths of a movie
    BatchRecords, \* items selected by a batch
    Workers,      \* worker threads
    RetryDelays,  \* delays after a miss that is not definitive, or a deferral
    DoneDelays,   \* delays after which a finished item is looked at again
    MaxTime, MaxSource, MaxPolicy, \* bounds on the clock, publications, deployments
    MaxChanges,   \* and on publications and deployments together
    NoPoster, NoContent, NoTime, NoState, NoMovie

Policies == 0 .. MaxPolicy
Statuses == {"none", "no_match", "unavailable", "matched", "matched_poster"}
MATCHED == {"matched", "matched_poster"}
Posters == UNION {Official[m] : m \in Movies}

ASSUME EnrichmentAssumption ==
    /\ MaxTime \in Nat \ {0} /\ MaxSource \in Nat \ {0} /\ MaxPolicy \in Nat
    /\ RetryDelays \subseteq Nat /\ DoneDelays \subseteq Nat
    /\ FirstItems \subseteq [Items -> Contents \cup {NoContent}]

VARIABLES
    now,
    source,   \* the newest validated VOD component: [id, items]
    policy,   \* policy of the deployed code
    store,    \* the state in the newest trusted artifact, or NoState
    phase,    \* where the workflow run stands
    state,    \* its state directory: queue, metadata, report and caches
    taken,    \* the component it restored, recorded in control.json
    known,    \* movies in the poster index its clients share
    work,     \* identity keys still to submit
    running,  \* groups a worker is enriching
    results   \* results [content, ids, status] not yet recorded

local == <<phase, state, taken, known, work, running, results>>
vars == <<now, source, policy, store, local>>

Due(row) == row.active /\ (row.state = "pending" \/ (row.next # NoTime /\ row.next <= now))

NewRow(c, p) ==
    [active |-> TRUE, content |-> c, policy |-> p, state |-> "pending",
     last |-> 0, next |-> NoTime, status |-> "none", proof |-> NoContent]

\* A row that is not in the database.
NoRow == [NewRow(NoContent, 0) EXCEPT !.active = FALSE]

Rows == [active : BOOLEAN, content : Contents \cup {NoContent}, policy : Policies,
         state : {"pending", "retry", "done"}, last : Nat, next : Nat \cup {NoTime},
         status : Statuses, proof : Contents \cup {NoContent}]

Reports == [source : 0 .. MaxSource, policy : Policies, due : BOOLEAN,
            next : Nat, fatal : BOOLEAN]

\* ahead: the batch number is one more than the report's.  revoked is history: the
\* posters of the matches this state's batches reopened for a collision.
States == [items : [Items -> Rows], source : 0 .. MaxSource, policy : Policies,
           ahead : BOOLEAN, tombstones : SUBSET Posters, revoked : SUBSET Posters, report : Reports \cup {NoState},
           cache : [Contents -> [status : Statuses, movie : Movies \cup {NoMovie}]]]

EmptyState ==
    [items |-> [i \in Items |-> NoRow], source |-> 0, policy |-> 0, ahead |-> FALSE,
     tombstones |-> {}, revoked |-> {}, report |-> NoState,
     cache |-> [c \in Contents |-> [status |-> "none", movie |-> NoMovie]]]

Groups == [content : Contents, ids : SUBSET Items]
Results == [content : Contents, ids : SUBSET Items, status : Statuses]

TypeOK ==
    /\ now \in 0 .. MaxTime /\ policy \in Policies
    /\ source \in [id : 1 .. MaxSource, items : [Items -> Contents \cup {NoContent}]]
    /\ store \in States \cup {NoState} /\ state \in States
    /\ taken \in [id : 0 .. MaxSource, items : [Items -> Contents \cup {NoContent}]]
    /\ phase \in {"idle", "prepared", "working", "failed", "numbered", "reported"}
    /\ known \subseteq Movies /\ work \subseteq Contents
    /\ running \subseteq Groups /\ results \subseteq Results

\* What a fresh checkout of a run holds.
Nothing == [id |-> 0, items |-> [i \in Items |-> NoContent]]

Init ==
    /\ now = 1 /\ policy = 0 /\ store = NoState
    /\ source \in [id : {1}, items : FirstItems]
    /\ phase = "idle" /\ state = EmptyState /\ taken = Nothing
    /\ known = {} /\ work = {} /\ running = {} /\ results = {}

Collided(poster, movies, tombstones) ==
    \/ poster \in tombstones
    \/ Cardinality({m \in movies : poster \in Official[m]}) > 1

-----------------------------------------------------------------------------
(***************************************************************************)
(* The environment: the catalog publisher, deployments, time.              *)
(***************************************************************************)
Publish ==
    /\ source.id < MaxSource /\ source.id + policy <= MaxChanges
    /\ \E i \in Items, c \in Contents \cup {NoContent} :
          /\ c # source.items[i]
          /\ source' = [id |-> source.id + 1, items |-> [source.items EXCEPT ![i] = c]]
    /\ UNCHANGED <<now, policy, store, local>>

\* A run keeps the code it checked out.
DeployPolicy ==
    /\ phase = "idle" /\ policy < MaxPolicy /\ source.id + policy <= MaxChanges
    /\ policy' = policy + 1
    /\ UNCHANGED <<now, source, store, local>>

Tick ==
    /\ now < MaxTime
    /\ now' = now + 1
    /\ UNCHANGED <<source, policy, store, local>>

-----------------------------------------------------------------------------
(***************************************************************************)
(* prepare: restore the newest trusted state and the current component.    *)
(***************************************************************************)
\* Mutant of Idle: the next retry's time is not looked at.
IdleWithoutDueTime(report) ==
    /\ report.source = source.id /\ report.policy = policy /\ ~report.fatal
    /\ ~report.due

\* _idle, apart from a service cooldown.
Idle(report) ==
    /\ report.source = source.id /\ report.policy = policy /\ ~report.fatal
    /\ ~report.due
    /\ report.next > now

\* Mutant of Prepare: the saved state is not restored.
PrepareAfresh ==
    /\ phase = "idle"
    /\ phase' = "prepared"
    /\ state' = EmptyState
    /\ taken' = source
    /\ UNCHANGED <<now, source, policy, store, known, work, running, results>>

Prepare ==
    /\ phase = "idle"
    /\ store # NoState => ~Idle(store.report)
    /\ phase' = "prepared"
    /\ state' = IF store = NoState THEN EmptyState ELSE store
    /\ taken' = source
    /\ UNCHANGED <<now, source, policy, store, known, work, running, results>>

-----------------------------------------------------------------------------
(***************************************************************************)
(* run_batch                                                               *)
(***************************************************************************)
\* Mutant of Reconciled: a changed record keeps its outcome.
ReconciledInPlace(row, c) ==
    IF c = NoContent THEN [row EXCEPT !.active = FALSE]
    ELSE IF row.content = NoContent THEN NewRow(c, policy)
    ELSE [row EXCEPT !.active = TRUE, !.content = c, !.policy = policy]

\* EnrichmentQueue.reconcile: an unchanged active row retains its progress.
Reconciled(row, c) ==
    IF c = NoContent THEN [row EXCEPT !.active = FALSE]
    ELSE IF row.active /\ row.content = c /\ row.policy = policy THEN row
    ELSE NewRow(c, policy)

\* cache_validated: a fresh validated positive finishes its item, a match
\* without one is looked at again.
Warmed(row, cached, expires) ==
    IF ~row.active THEN row
    ELSE IF cached.status = "none"
         THEN IF row.status \in MATCHED
              THEN [row EXCEPT !.state = "pending", !.status = "none",
                               !.next = NoTime, !.proof = NoContent]
              ELSE row
    ELSE IF /\ row.state = "done" /\ row.status = cached.status /\ row.proof = row.content
            /\ row.next # NoTime /\ row.next > now
         THEN row
    ELSE [row EXCEPT !.state = "done", !.status = cached.status,
                     !.next = expires, !.proof = row.content]

\* reopen_poster_collisions
CollidedRow(row, movies, tombstones) ==
    /\ row.active /\ row.status = "matched_poster"
    /\ Collided(PosterOf[row.content], movies, tombstones)

\* Mutant of Reopened: the revoked match is reopened, its path forgotten.
ReopenedForgetting(st, movies) ==
    [st EXCEPT
        !.revoked = @ \cup {PosterOf[st.items[i].content] :
                               i \in {j \in Items : CollidedRow(st.items[j], movies, st.tombstones)}},
        !.items = [i \in Items |->
        IF CollidedRow(st.items[i], movies, st.tombstones)
        THEN [st.items[i] EXCEPT !.state = "pending", !.status = "none",
                                 !.next = NoTime, !.proof = NoContent]
        ELSE st.items[i]]]

Reopened(st, movies) ==
    LET revoked == {i \in Items : CollidedRow(st.items[i], movies, st.tombstones)}
    IN  [st EXCEPT
          !.tombstones = @ \cup {PosterOf[st.items[i].content] : i \in revoked},
          !.revoked = @ \cup {PosterOf[st.items[i].content] : i \in revoked},
          !.items = [i \in Items |->
              IF i \in revoked
              THEN [st.items[i] EXCEPT !.state = "pending", !.status = "none",
                                       !.next = NoTime, !.proof = NoContent]
              ELSE st.items[i]]]

\* pending: the rows a batch selects, the longest unattempted first.  One server
\* and kind is modelled, so the rotation between them is not.
IsSelection(S, items) ==
    LET due == {i \in Items : Due(items[i])}
    IN  /\ S \subseteq due
        /\ Cardinality(S) = IF Cardinality(due) <= BatchRecords
                            THEN Cardinality(due) ELSE BatchRecords
        /\ \A i \in S, j \in due \ S : items[i].last <= items[j].last

\* The preparation of the queue, up to the selection of the work: the whole
\* cache is read into the index before any cached match is believed.
Reconcile ==
    /\ phase = "prepared"
    /\ \E fresh \in SUBSET Contents, d \in DoneDelays :
         LET rows    == [i \in Items |-> Reconciled(state.items[i], taken.items[i])]
             present == {rows[i].content : i \in {j \in Items : rows[j].active}}
             movies  == {state.cache[c].movie : c \in present} \ {NoMovie}
             cached(c) ==
               IF /\ c \in fresh
                  /\ ~(/\ state.cache[c].status = "matched_poster"
                       /\ Collided(PosterOf[c], movies, state.tombstones))
               THEN state.cache[c] ELSE [status |-> "none", movie |-> NoMovie]
             warm == [i \in Items |->
                        IF rows[i].active THEN Warmed(rows[i], cached(rows[i].content), now + d)
                        ELSE rows[i]]
             ready == Reopened([state EXCEPT !.items = warm, !.source = taken.id,
                                             !.policy = policy], movies)
         IN  /\ state' = ready
             /\ known' = movies
             /\ \E S \in SUBSET Items :
                   /\ IsSelection(S, ready.items)
                   /\ work' = {ready.items[i].content : i \in S}
    /\ phase' = "working"
    /\ UNCHANGED <<now, source, policy, store, taken, running, results>>

\* pending_group is read when its group is submitted.
Submit(c) ==
    /\ phase = "working" /\ c \in work
    /\ Cardinality(running) + Cardinality(results) < Workers
    /\ work' = work \ {c}
    /\ LET ids == {i \in Items : Due(state.items[i]) /\ state.items[i].content = c}
       IN  running' = IF ids = {} THEN running ELSE running \cup {[content |-> c, ids |-> ids]}
    /\ UNCHANGED <<now, source, policy, store, phase, state, taken, known, results>>

\* The deadline, a deferral or a rejected credential stops submission.
StopSubmitting ==
    /\ phase = "working" /\ work # {}
    /\ work' = {}
    /\ UNCHANGED <<now, source, policy, store, phase, state, taken, known, running, results>>

\* A worker's client answers: a match is cached, its movie joins the index.
Enriched(group) ==
    /\ phase = "working" /\ group \in running
    /\ running' = running \ {group}
    /\ \/ \E m \in Movies, status \in MATCHED :
            /\ known' = known \cup {m}
            /\ status = "matched_poster" =>
                  /\ PosterOf[group.content] \in Official[m]
                  /\ ~Collided(PosterOf[group.content], known', state.tombstones)
            /\ state' = [state EXCEPT !.cache[group.content] = [status |-> status, movie |-> m]]
            /\ results' = results \cup
                 {[content |-> group.content, ids |-> group.ids, status |-> status]}
       \/ /\ \E status \in {"no_match", "unavailable"} :
               results' = results \cup
                 {[content |-> group.content, ids |-> group.ids, status |-> status]}
          /\ UNCHANGED <<known, state>>
    /\ UNCHANGED <<now, source, policy, store, phase, taken, work>>

\* record_result: a definitive miss or a match rests for a day, anything else
\* is retried.
Recorded(row, c, status, definitive, next) ==
    [row EXCEPT !.state = IF status \in MATCHED \/ definitive THEN "done" ELSE "retry",
                !.last = now, !.next = next, !.status = status, !.proof = c]

RecordResult(r) ==
    /\ phase = "working" /\ r \in results
    /\ results' = results \ {r}
    /\ \E definitive \in BOOLEAN, d \in RetryDelays \cup DoneDelays :
          /\ definitive => r.status = "no_match"
          /\ IF r.status \in MATCHED \/ definitive THEN d \in DoneDelays ELSE d \in RetryDelays
          /\ state' = [state EXCEPT !.items = [i \in Items |->
                IF i \in r.ids THEN Recorded(@[i], r.content, r.status, definitive, now + d)
                ELSE @[i]]]
    /\ UNCHANGED <<now, source, policy, store, phase, taken, known, work, running>>

\* Mutant of Number: the final reopening is skipped.
NumberWithoutReopening ==
    /\ phase = "working" /\ work = {} /\ running = {} /\ results = {}
    /\ phase' \in {"numbered", "failed"}
    /\ state' = [state EXCEPT !.ahead = TRUE]
    /\ UNCHANGED <<now, source, policy, store, taken, known, work, running, results>>

\* All groups are done: the collided matches are reopened, even when a rejected
\* credential made the batch fail; the batch number is saved before the report.
Number ==
    /\ phase = "working" /\ work = {} /\ running = {} /\ results = {}
    /\ phase' \in {"numbered", "failed"}
    /\ state' = [Reopened(state, known) EXCEPT !.ahead = TRUE]
    /\ UNCHANGED <<now, source, policy, store, taken, known, work, running, results>>

\* An exception in the batch: the results not yet recorded are lost, nothing is
\* reopened, the report is still written.
Fail ==
    /\ phase = "working"
    /\ phase' = "failed"
    /\ state' = [state EXCEPT !.ahead = TRUE]
    /\ work' = {} /\ running' = {} /\ results' = {}
    /\ UNCHANGED <<now, source, policy, store, taken, known>>

\* When a row, or a trending list, is due again.
NextTimes(items, trending) ==
    ({trending} \cup {items[i].next : i \in {j \in Items : items[j].active}}) \ {NoTime}

Earliest(t, times) == t \in times /\ \A u \in times : t <= u

WriteReport ==
    /\ phase \in {"numbered", "failed"}
    /\ phase' = "reported"
    /\ \E d \in {0} \cup RetryDelays \cup DoneDelays :   \* of the trending lists
       \E t \in NextTimes(state.items, now + d) :
          /\ Earliest(t, NextTimes(state.items, now + d))
          /\ state' = [state EXCEPT
                !.ahead = FALSE,
                !.report = [source |-> taken.id, policy |-> policy,
                            due |-> d = 0 \/ \E i \in Items : Due(state.items[i]),
                            next |-> t, fatal |-> phase = "failed"]]
    /\ UNCHANGED <<now, source, policy, store, taken, known, work, running, results>>

-----------------------------------------------------------------------------
(***************************************************************************)
(* seal, upload                                                            *)
(***************************************************************************)
\* _state_identity: queue, report and control agree.
Sealable(st) ==
    /\ st.report # NoState
    /\ st.report.source = taken.id
    /\ st.report.source = st.source
    /\ st.report.policy = st.policy
    /\ ~st.ahead

\* The runner is gone: its next run starts from a fresh checkout.
EndRun ==
    /\ phase' = "idle" /\ state' = EmptyState /\ taken' = Nothing
    /\ known' = {} /\ work' = {} /\ running' = {} /\ results' = {}

\* The sealed state of a run that succeeds, or fails after its upload, is trusted.
\* A batch killed in any phase (its 30 minutes are over, an error before the
\* reconciliation) is sealed too when what it left agrees.
Upload ==
    /\ phase # "idle"
    /\ Sealable(state)
    /\ store' = state
    /\ EndRun
    /\ UNCHANGED <<now, source, policy>>

\* Sealing or the upload fails, or the run is cancelled or lost.
Discard ==
    /\ phase # "idle"
    /\ EndRun
    /\ UNCHANGED <<now, source, policy, store>>

Next ==
    \/ Publish \/ DeployPolicy \/ Tick
    \/ Prepare \/ Reconcile
    \/ \E c \in Contents : Submit(c)
    \/ StopSubmitting
    \/ \E group \in running : Enriched(group)
    \/ \E r \in results : RecordResult(r)
    \/ Number \/ Fail \/ WriteReport
    \/ Upload \/ Discard

Spec == Init /\ [][Next]_vars

-----------------------------------------------------------------------------
(***************************************************************************)
(* Properties                                                              *)
(***************************************************************************)

\* An outcome, found or missed, belongs to the source record the item has now:
\* "saved outcomes never confer identity" over renames, restarts and caches.
OutcomesCurrent ==
    \A i \in Items : state.items[i].active /\ state.items[i].status # "none" =>
        state.items[i].proof = state.items[i].content

\* The check of record_result never fails: what a worker was given is still
\* what the queue holds, for all the items that share the result.
ResultsApply ==
    \A g \in running \cup results : \A i \in g.ids :
        state.items[i].active /\ state.items[i].content = g.content

QueueInv == TypeOK /\ OutcomesCurrent /\ ResultsApply

\* When a run declares the queue idle, nothing in it is due and the component is
\* the one it has reconciled, also when a killed batch was sealed with the
\* report of the batch before it.
IdleIsJustified ==
    store # NoState /\ Idle(store.report) =>
        /\ \A i \in Items : ~Due(store.items[i])
        /\ store.source = source.id /\ store.policy = policy

\* A batch that ends well leaves no poster match whose poster the batch found to
\* belong to two movies, in whatever order its workers found that out.
CollisionsReopened ==
    phase = "numbered" =>
        \A i \in Items : ~CollidedRow(state.items[i], known, state.tombstones)

\* A poster match that was revoked for a collision is not made again, although
\* the record that revealed the collision may be gone.
RevokedStaysRevoked ==
    store # NoState =>
        \A i \in Items : store.items[i].active /\ store.items[i].status = "matched_poster" =>
            PosterOf[store.items[i].content] \notin store.revoked

\* No poster proves two movies: neither in what a batch leaves nor in what comes
\* after a collision was found.
PosterProofsHold == CollisionsReopened /\ RevokedStaysRevoked

\* A newer trusted state never forgets an attempt at an unchanged item, nor a
\* collision.
ProgressIsKept ==
    [][store # NoState =>
          /\ store.tombstones \subseteq store'.tombstones
          /\ \A i \in Items :
                LET old == store.items[i]  new == store'.items[i]
                IN  old.active /\ new.active /\ old.content = new.content
                      /\ old.policy = new.policy => new.last >= old.last]_store
=============================================================================
