------------------------ MODULE EnrichmentQueueProofs ------------------------
(***************************************************************************)
(* Proofs about EnrichmentQueue for any items, contents, posters, movies   *)
(* and delays and any number of workers: saved outcomes stay with the      *)
(* record they were found for, an idle verdict is never wrong, a refuted   *)
(* poster proves nothing again and no trusted state forgets an attempt.    *)
(***************************************************************************)
EXTENDS EnrichmentQueue, FiniteSetTheorems, TLAPS

(***************************************************************************)
(* The inductive invariant.                                                *)
(***************************************************************************)
PosterMatch(row) == row.active /\ row.status = "matched_poster"

\* What holds of a state wherever it lies, at a time n, when the newest component
\* is s and the policy p.
Sound(st, n, s, p) ==
    /\ \A i \in Items : st.items[i].active /\ st.items[i].status # "none" =>
          st.items[i].proof = st.items[i].content
    /\ \A i \in Items : st.items[i].last <= n
    /\ st.revoked \subseteq st.tombstones
    /\ \A i \in Items : PosterMatch(st.items[i]) => PosterOf[st.items[i].content] \notin st.revoked
    /\ st.report # NoState => st.report.source <= s /\ st.report.policy <= p

StateInv ==
    /\ Sound(state, now, source.id, policy)
    /\ store # NoState => Sound(store, now, source.id, policy)

\* What the workers hold is what the queue holds, and no poster match waits to be
\* recorded whose poster is refuted.
WorkInv ==
    /\ phase # "working" => running = {} /\ results = {}
    /\ ResultsApply
    /\ \A r \in results : r.status = "matched_poster" => PosterOf[r.content] \notin state.tombstones

\* A report that no run will take for idle any more.
Outdated(report, n, s, p) ==
    \/ report.source < s \/ report.policy < p
    \/ report.fatal \/ report.due \/ report.next <= n

\* A report that is true of the rows beside it.
Truthful(st) ==
    \A i \in Items : st.items[i].active =>
        /\ ~st.report.due => st.items[i].state # "pending"
        /\ st.items[i].next # NoTime => st.report.next <= st.items[i].next

\* A report beside rows that it is not true of is outdated.
ReportInv ==
    /\ phase \in {"prepared", "working", "numbered", "failed"} /\ state.report # NoState =>
          Outdated(state.report, now, source.id, policy)
    /\ phase = "reported" => Truthful(state)
    /\ taken.id <= source.id
    /\ store # NoState =>
          /\ store.report # NoState
          /\ store.source = store.report.source /\ store.policy = store.report.policy
          /\ Outdated(store.report, now, source.id, policy) \/ Truthful(store)

\* The state of a run goes on from the one it restored.
Forgets(old, new) ==
    /\ old.active /\ new.active /\ old.content = new.content /\ old.policy = new.policy
    /\ ~(new.last >= old.last)

ChainInv ==
    store # NoState =>
       /\ phase = "prepared" => state = store
       /\ phase # "idle" =>
             /\ store.tombstones \subseteq state.tombstones
             /\ \A i \in Items : ~Forgets(store.items[i], state.items[i])

IInv == TypeOK /\ StateInv /\ WorkInv /\ ReportInv /\ ChainInv /\ CollisionsReopened

-----------------------------------------------------------------------------
(* Rows.                                                                     *)

LEMMA ConstantFacts ==
    /\ 0 \in Policies /\ Policies \subseteq Nat
    /\ \A c \in Contents \cup {NoContent}, p \in Policies : NewRow(c, p) \in Rows
    /\ EmptyState \in States
<1>1. 0 \in Policies /\ Policies \subseteq Nat
  BY EnrichmentAssumption DEF Policies
<1>2. \A c \in Contents \cup {NoContent}, p \in Policies : NewRow(c, p) \in Rows
  BY <1>1 DEF NewRow, Rows, Statuses
<1>3. NoRow \in Rows
  BY <1>1, <1>2 DEF NoRow, NewRow, Rows, Statuses
<1>4. 0 \in 0 .. MaxSource
  BY EnrichmentAssumption
<1>5. /\ [i \in Items |-> NoRow] \in [Items -> Rows]
      /\ [c \in Contents |-> [status |-> "none", movie |-> NoMovie]]
           \in [Contents -> [status : Statuses, movie : Movies \cup {NoMovie}]]
  BY <1>3 DEF Statuses
<1>6. EmptyState \in States
  BY <1>1, <1>4, <1>5 DEF EmptyState, States
<1> QED
  BY <1>1, <1>2, <1>6

\* Reconciliation keeps a row that is still active for the same record, and starts
\* any other afresh.
LEMMA ReconciledRow ==
    ASSUME NEW row \in Rows, NEW c \in Contents \cup {NoContent}, policy \in Policies
    PROVE  LET new == Reconciled(row, c)
           IN  /\ new \in Rows
               /\ new.active => new.content = c /\ c \in Contents
               /\ new.last \in {0, row.last}
               /\ new = row \/ ~new.active \/ new.status = "none"
               /\ ~Forgets(row, new)
<1>1. CASE c = NoContent
  <2>1. Reconciled(row, c) = [row EXCEPT !.active = FALSE]
    BY <1>1 DEF Reconciled
  <2> QED
    BY <2>1 DEF Rows, Forgets
<1>2. CASE c # NoContent /\ row.active /\ row.content = c /\ row.policy = policy
  <2>1. Reconciled(row, c) = row
    BY <1>2 DEF Reconciled
  <2>2. row.last \in Nat
    BY DEF Rows
  <2> QED
    BY <1>2, <2>1, <2>2 DEF Forgets
<1>3. CASE c # NoContent /\ ~(row.active /\ row.content = c /\ row.policy = policy)
  <2>1. Reconciled(row, c) = NewRow(c, policy)
    BY <1>3 DEF Reconciled
  <2>2. NewRow(c, policy) \in Rows
    BY ConstantFacts
  <2> QED
    BY <1>3, <2>1, <2>2 DEF NewRow, Forgets
<1> QED
  BY <1>1, <1>2, <1>3

\* Warming gives an active row what is cached of its record, and nothing else.
LEMMA WarmedRow ==
    ASSUME NEW row \in Rows, row.active, NEW cached, cached.status \in Statuses, NEW expires \in Nat,
           row.status # "none" => row.proof = row.content
    PROVE  LET new == Warmed(row, cached, expires)
           IN  /\ new \in Rows
               /\ new.active /\ new.content = row.content /\ new.policy = row.policy
               /\ new.last = row.last
               /\ new.status # "none" => new.proof = new.content
               /\ new.status = "matched_poster" => cached.status = "matched_poster"
<1>1. CASE cached.status = "none" /\ row.status \in MATCHED
  BY <1>1 DEF Warmed, Rows, Statuses, MATCHED
<1>2. CASE cached.status = "none" /\ row.status \notin MATCHED
  BY <1>2 DEF Warmed, MATCHED
<1>3. CASE cached.status # "none" /\ row.state = "done" /\ row.status = cached.status
           /\ row.proof = row.content /\ row.next # NoTime /\ row.next > now
  BY <1>3 DEF Warmed
<1>4. CASE cached.status # "none" /\ ~(row.state = "done" /\ row.status = cached.status
           /\ row.proof = row.content /\ row.next # NoTime /\ row.next > now)
  <2>1. Warmed(row, cached, expires) =
          [row EXCEPT !.state = "done", !.status = cached.status, !.next = expires, !.proof = row.content]
    BY <1>4 DEF Warmed
  <2> QED
    BY <2>1 DEF Rows, Statuses
<1> QED
  BY <1>1, <1>2, <1>3, <1>4

LEMMA RecordedRow ==
    ASSUME NEW row \in Rows, now \in Nat, NEW c \in Contents, NEW status \in Statuses,
           NEW definitive \in BOOLEAN, NEW next \in Nat
    PROVE  LET new == Recorded(row, c, status, definitive, next)
           IN  /\ new \in Rows
               /\ new.active = row.active /\ new.content = row.content /\ new.policy = row.policy
               /\ new.last = now /\ new.status = status /\ new.proof = c
<1> DEFINE kind == IF status \in MATCHED \/ definitive THEN "done" ELSE "retry"
<1>1. kind \in {"pending", "retry", "done"}
  OBVIOUS
<1>2. Recorded(row, c, status, definitive, next) =
        [row EXCEPT !.state = kind, !.last = now, !.next = next, !.status = status, !.proof = c]
  BY DEF Recorded
<1> HIDE DEF kind
<1> QED
  BY <1>1, <1>2 DEF Rows

-----------------------------------------------------------------------------
(* Posters.                                                                  *)

LEMMA CollidedPoster ==
    ASSUME NEW poster, NEW movies \in SUBSET Movies, NEW tombstones \in SUBSET Posters,
           Collided(poster, movies, tombstones)
    PROVE  poster \in Posters
<1>1. CASE poster \in tombstones
  BY <1>1
<1>2. CASE poster \notin tombstones
  <2>1. {m \in movies : poster \in Official[m]} # {}
    <3> SUFFICES ASSUME {m \in movies : poster \in Official[m]} = {}
                 PROVE  FALSE
      OBVIOUS
    <3>1. Cardinality({m \in movies : poster \in Official[m]}) = 0
      BY FS_EmptySet
    <3> QED
      BY <1>2, <3>1 DEF Collided
  <2> QED
    BY <2>1 DEF Posters
<1> QED
  BY <1>1, <1>2

\* What the reopening leaves: no match by a collided poster, its path saved.
LEMMA ReopenedState ==
    ASSUME NEW st \in States, NEW movies \in SUBSET Movies
    PROVE  LET new == Reopened(st, movies)
           IN  /\ new \in States
               /\ new.source = st.source /\ new.policy = st.policy /\ new.report = st.report
               /\ new.cache = st.cache /\ new.ahead = st.ahead
               /\ st.tombstones \subseteq new.tombstones
               /\ st.revoked \subseteq st.tombstones => new.revoked \subseteq new.tombstones
               /\ \A i \in Items :
                     /\ new.items[i].active = st.items[i].active
                     /\ new.items[i].content = st.items[i].content
                     /\ new.items[i].policy = st.items[i].policy
                     /\ new.items[i].last = st.items[i].last
                     /\ new.items[i] = st.items[i] \/ new.items[i].status = "none"
                     /\ ~CollidedRow(new.items[i], movies, new.tombstones)
               /\ (\A i \in Items : PosterMatch(st.items[i]) => PosterOf[st.items[i].content] \notin st.revoked)
                    => \A i \in Items : PosterMatch(new.items[i]) =>
                                          PosterOf[new.items[i].content] \notin new.revoked
<1> DEFINE new == Reopened(st, movies)
           revoked == {i \in Items : CollidedRow(st.items[i], movies, st.tombstones)}
           paths == {PosterOf[st.items[i].content] : i \in revoked}
           row(i) == [st.items[i] EXCEPT !.state = "pending", !.status = "none",
                                         !.next = NoTime, !.proof = NoContent]
           rows == [i \in Items |-> IF i \in revoked THEN row(i) ELSE st.items[i]]
<1>1. new = [st EXCEPT !.tombstones = @ \cup paths, !.revoked = @ \cup paths, !.items = rows]
  BY DEF Reopened
<1>2. /\ st.items \in [Items -> Rows] /\ st.tombstones \in SUBSET Posters
      /\ st.revoked \in SUBSET Posters
  BY DEF States
<1>3. \A i \in Items : row(i) \in Rows
  BY <1>2 DEF Rows, Statuses
<1>4. rows \in [Items -> Rows]
  BY <1>2, <1>3
<1>5. paths \subseteq Posters
  BY <1>2, CollidedPoster DEF CollidedRow
<1>6. \A i \in Items : i \in revoked => row(i).status = "none"
  BY <1>2 DEF Rows
<1>7. \A i \in Items :
        /\ rows[i].active = st.items[i].active /\ rows[i].content = st.items[i].content
        /\ rows[i].policy = st.items[i].policy /\ rows[i].last = st.items[i].last
        /\ rows[i] = st.items[i] \/ rows[i].status = "none"
  BY <1>2 DEF Rows
<1>8. \A i \in Items : PosterMatch(rows[i]) => rows[i] = st.items[i] /\ i \notin revoked
  BY <1>6 DEF PosterMatch
<1>9. \A i \in Items : PosterMatch(rows[i]) =>
        /\ ~Collided(PosterOf[rows[i].content], movies, st.tombstones)
        /\ PosterOf[rows[i].content] \notin paths
  <2> SUFFICES ASSUME NEW i \in Items, PosterMatch(rows[i])
               PROVE  /\ ~Collided(PosterOf[rows[i].content], movies, st.tombstones)
                      /\ PosterOf[rows[i].content] \notin paths
    OBVIOUS
  <2>1. rows[i] = st.items[i] /\ ~CollidedRow(st.items[i], movies, st.tombstones)
    BY <1>8
  <2>2. ~Collided(PosterOf[rows[i].content], movies, st.tombstones)
    BY <2>1 DEF CollidedRow, PosterMatch
  <2>3. \A j \in revoked : Collided(PosterOf[st.items[j].content], movies, st.tombstones)
    BY DEF CollidedRow
  <2> QED
    BY <2>2, <2>3
<1> HIDE DEF rows, paths, revoked, row
<1>10. /\ new.items = rows /\ new.tombstones = st.tombstones \cup paths
       /\ new.revoked = st.revoked \cup paths
       /\ new.source = st.source /\ new.policy = st.policy /\ new.report = st.report
       /\ new.cache = st.cache /\ new.ahead = st.ahead
  BY <1>1 DEF States
<1>11. new \in States
  BY <1>1, <1>2, <1>4, <1>5 DEF States
<1>12. \A i \in Items : ~CollidedRow(rows[i], movies, st.tombstones \cup paths)
  BY <1>9 DEF CollidedRow, Collided, PosterMatch
<1>13. /\ \A i \in Items :
            /\ new.items[i].active = st.items[i].active /\ new.items[i].content = st.items[i].content
            /\ new.items[i].policy = st.items[i].policy /\ new.items[i].last = st.items[i].last
            /\ new.items[i] = st.items[i] \/ new.items[i].status = "none"
            /\ ~CollidedRow(new.items[i], movies, new.tombstones)
       /\ \A i \in Items : PosterMatch(new.items[i]) =>
            new.items[i] = st.items[i] /\ PosterOf[new.items[i].content] \notin paths
  BY <1>7, <1>8, <1>9, <1>10, <1>12
<1> QED
  BY <1>10, <1>11, <1>13

-----------------------------------------------------------------------------
(* States.                                                                   *)

LEMMA SoundLasts ==
    ASSUME NEW st \in States, NEW n \in Nat, NEW m \in Nat, NEW s \in Nat, NEW t \in Nat,
           NEW p \in Nat, NEW q \in Nat, n <= m, s <= t, p <= q, Sound(st, n, s, p)
    PROVE  Sound(st, m, t, q)
<1>1. \A i \in Items : st.items[i].last \in Nat /\ st.items[i].last <= n
  BY DEF States, Rows, Sound
<1>2. \A i \in Items : st.items[i].last <= m
  BY <1>1
<1>3. st.report # NoState =>
        /\ st.report.source \in Nat /\ st.report.source <= s
        /\ st.report.policy \in Nat /\ st.report.policy <= p
  BY EnrichmentAssumption DEF States, Reports, Policies, Sound
<1>4. st.report # NoState => st.report.source <= t /\ st.report.policy <= q
  BY <1>3
<1> QED
  BY <1>2, <1>4 DEF Sound

LEMMA OutdatedLasts ==
    ASSUME NEW report \in Reports, NEW n \in Nat, NEW m \in Nat, NEW s \in Nat, NEW t \in Nat,
           NEW p \in Nat, NEW q \in Nat, n <= m, s <= t, p <= q, Outdated(report, n, s, p)
    PROVE  Outdated(report, m, t, q)
<1>1. report.source \in Nat /\ report.policy \in Nat /\ report.next \in Nat
  BY EnrichmentAssumption DEF Reports, Policies
<1> QED
  BY <1>1 DEF Outdated

LEMMA EmptySound ==
    ASSUME NEW n \in Nat, NEW s, NEW p
    PROVE  Sound(EmptyState, n, s, p)
<1>1. \A i \in Items : ~EmptyState.items[i].active /\ EmptyState.items[i].last = 0
  BY DEF EmptyState, NoRow, NewRow
<1> QED
  BY <1>1 DEF Sound, EmptyState, PosterMatch

LEMMA NeverForgets ==
    ASSUME NEW row \in Rows
    PROVE  ~Forgets(row, row)
BY DEF Forgets, Rows

LEMMA TypeFacts ==
    ASSUME TypeOK
    PROVE  /\ now \in Nat /\ source.id \in Nat /\ policy \in Nat /\ taken.id \in Nat
           /\ state \in States /\ (store # NoState => store \in States)
           /\ \A i \in Items : state.items[i] \in Rows
           /\ store # NoState => \A i \in Items : store.items[i] \in Rows
BY EnrichmentAssumption DEF TypeOK, Policies, States

-----------------------------------------------------------------------------
(* The steps.                                                                *)

LEMMA InitEstablishes == Init => IInv
<1> SUFFICES ASSUME Init
             PROVE  IInv
  OBVIOUS
<1> USE DEF Init
<1>1. TypeOK
  <2>1. source \in [id : 1 .. MaxSource, items : [Items -> Contents \cup {NoContent}]]
    BY EnrichmentAssumption
  <2>2. taken \in [id : 0 .. MaxSource, items : [Items -> Contents \cup {NoContent}]]
    BY EnrichmentAssumption DEF Nothing
  <2>3. now \in 0 .. MaxTime
    BY EnrichmentAssumption
  <2> QED
    BY <2>1, <2>2, <2>3, ConstantFacts DEF TypeOK
<1>2. StateInv
  BY EmptySound DEF StateInv
<1>3. WorkInv
  BY DEF WorkInv, ResultsApply
<1>4. ReportInv
  <2>1. source.id = 1 /\ taken.id = 0
    BY DEF Nothing
  <2> QED
    BY <2>1 DEF ReportInv
<1>5. ChainInv /\ CollisionsReopened
  BY DEF ChainInv, CollisionsReopened
<1> QED
  BY <1>1, <1>2, <1>3, <1>4, <1>5 DEF IInv

\* Time, a publication, a deployment: nothing is lost as long as they only advance.
LEMMA EnvironmentPreserves ==
    ASSUME IInv, TypeOK', now <= now', source.id <= source.id', policy <= policy',
           UNCHANGED <<store, local>>
    PROVE  IInv'
<1>1. /\ now \in Nat /\ source.id \in Nat /\ policy \in Nat
      /\ now' \in Nat /\ source.id' \in Nat /\ policy' \in Nat /\ taken.id \in Nat
  BY TypeFacts, EnrichmentAssumption DEF IInv, TypeOK, Policies
<1>2. state \in States /\ (store # NoState => store \in States)
  BY TypeFacts DEF IInv
<1>3. StateInv'
  <2>1. Sound(state, now', source.id', policy')
    BY <1>1, <1>2, SoundLasts DEF IInv, StateInv
  <2>2. store # NoState => Sound(store, now', source.id', policy')
    BY <1>1, <1>2, SoundLasts DEF IInv, StateInv
  <2> QED
    BY <2>1, <2>2 DEF StateInv, local
<1>4. WorkInv'
  BY DEF IInv, WorkInv, ResultsApply, local
<1>5. ReportInv'
  <2>1. state.report # NoState => state.report \in Reports
    BY <1>2 DEF States
  <2>2. store # NoState /\ store.report # NoState => store.report \in Reports
    BY <1>2 DEF States
  <2>3. state.report # NoState /\ Outdated(state.report, now, source.id, policy) =>
          Outdated(state.report, now', source.id', policy')
    BY <1>1, <2>1, OutdatedLasts
  <2>4. store # NoState /\ store.report # NoState /\ Outdated(store.report, now, source.id, policy) =>
          Outdated(store.report, now', source.id', policy')
    BY <1>1, <2>2, OutdatedLasts
  <2>5. taken.id <= source.id'
    BY <1>1 DEF IInv, ReportInv
  <2>6. phase' = "reported" => Truthful(state')
    BY DEF IInv, ReportInv, local
  <2>7. store' = store /\ state' = state /\ phase' = phase /\ taken' = taken
    BY DEF local
  <2> QED
    BY <2>3, <2>4, <2>5, <2>6, <2>7 DEF IInv, ReportInv
<1>6. ChainInv' /\ CollisionsReopened'
  BY DEF IInv, ChainInv, CollisionsReopened, local
<1> QED
  BY <1>3, <1>4, <1>5, <1>6 DEF IInv

LEMMA PublishPreserves == IInv /\ Publish => IInv'
<1> SUFFICES ASSUME IInv, Publish
             PROVE  IInv'
  OBVIOUS
<1>1. PICK i \in Items, c \in Contents \cup {NoContent} :
        source' = [id |-> source.id + 1, items |-> [source.items EXCEPT ![i] = c]]
  BY DEF Publish
<1>2. source.id \in 1 .. MaxSource /\ source.items \in [Items -> Contents \cup {NoContent}]
  BY DEF IInv, TypeOK
<1>3. source.id + 1 \in 1 .. MaxSource /\ source.id <= source.id + 1
  BY <1>2, EnrichmentAssumption DEF Publish
<1>4. source' \in [id : 1 .. MaxSource, items : [Items -> Contents \cup {NoContent}]]
  BY <1>1, <1>2, <1>3
<1>5. TypeOK'
  BY <1>4 DEF Publish, IInv, TypeOK, local
<1>6. now <= now' /\ source.id <= source.id' /\ policy <= policy'
  BY <1>1, <1>3, TypeFacts DEF Publish, IInv
<1> QED
  BY <1>5, <1>6, EnvironmentPreserves DEF Publish

LEMMA DeployPolicyPreserves == IInv /\ DeployPolicy => IInv'
<1> SUFFICES ASSUME IInv, DeployPolicy
             PROVE  IInv'
  OBVIOUS
<1>1. policy + 1 \in Policies /\ policy <= policy + 1
  BY EnrichmentAssumption DEF DeployPolicy, IInv, TypeOK, Policies
<1>2. TypeOK'
  BY <1>1 DEF DeployPolicy, IInv, TypeOK, local
<1>3. now <= now' /\ source.id <= source.id' /\ policy <= policy'
  BY <1>1, TypeFacts DEF DeployPolicy, IInv
<1> QED
  BY <1>2, <1>3, EnvironmentPreserves DEF DeployPolicy

LEMMA TickPreserves == IInv /\ Tick => IInv'
<1> SUFFICES ASSUME IInv, Tick
             PROVE  IInv'
  OBVIOUS
<1>1. now + 1 \in 0 .. MaxTime /\ now <= now + 1
  BY EnrichmentAssumption DEF Tick, IInv, TypeOK
<1>2. TypeOK'
  BY <1>1 DEF Tick, IInv, TypeOK, local
<1>3. now <= now' /\ source.id <= source.id' /\ policy <= policy'
  BY <1>1, TypeFacts DEF Tick, IInv
<1> QED
  BY <1>2, <1>3, EnvironmentPreserves DEF Tick

LEMMA PreparePreserves == IInv /\ Prepare => IInv'
<1> SUFFICES ASSUME IInv, Prepare
             PROVE  IInv'
  OBVIOUS
<1>1. /\ now \in Nat /\ source.id \in Nat /\ policy \in Nat
      /\ store # NoState => store \in States
  BY TypeFacts DEF IInv
<1>2. /\ phase = "idle" /\ phase' = "prepared" /\ taken' = source
      /\ state' = IF store = NoState THEN EmptyState ELSE store
      /\ UNCHANGED <<now, source, policy, store, known, work, running, results>>
  BY DEF Prepare
<1>3. state' \in States
  BY <1>1, <1>2, ConstantFacts
<1>4. TypeOK'
  <2>1. taken' \in [id : 0 .. MaxSource, items : [Items -> Contents \cup {NoContent}]]
    <3>1. /\ source \in [id : 1 .. MaxSource, items : [Items -> Contents \cup {NoContent}]]
          /\ 1 .. MaxSource \subseteq 0 .. MaxSource
      BY EnrichmentAssumption DEF IInv, TypeOK
    <3> QED
      BY <1>2, <3>1
  <2> QED
    BY <1>2, <1>3, <2>1 DEF IInv, TypeOK
<1>5. StateInv'
  BY <1>1, <1>2, EmptySound DEF IInv, StateInv
<1>6. running = {} /\ results = {}
  BY <1>2 DEF IInv, WorkInv
<1>7. WorkInv'
  BY <1>2, <1>6 DEF WorkInv, ResultsApply
<1>8. ReportInv'
  <2>1. CASE store = NoState
    <3>1. state'.report = NoState
      BY <1>2, <2>1 DEF EmptyState
    <3> QED
      BY <1>1, <1>2, <2>1, <3>1 DEF ReportInv
  <2>2. CASE store # NoState
    <3>1. /\ store.report # NoState /\ store.report \in Reports /\ ~Idle(store.report)
          /\ store.report.source <= source.id /\ store.report.policy <= policy
      BY <1>1, <2>2 DEF Prepare, IInv, StateInv, ReportInv, Sound, States
    <3>2. store.report.source \in Nat /\ store.report.policy \in Nat /\ store.report.next \in Nat
      BY <3>1, EnrichmentAssumption DEF Reports, Policies
    <3>3. Outdated(store.report, now, source.id, policy)
      BY <1>1, <3>1, <3>2 DEF Outdated, Idle
    <3> QED
      BY <1>1, <1>2, <2>2, <3>3 DEF IInv, ReportInv
  <2> QED
    BY <2>1, <2>2
<1>9. ChainInv'
  <2>1. store # NoState => \A i \in Items : ~Forgets(store.items[i], store.items[i])
    BY NeverForgets, TypeFacts DEF IInv
  <2> QED
    BY <1>2, <2>1 DEF ChainInv
<1>10. CollisionsReopened'
  BY <1>2 DEF CollisionsReopened
<1> QED
  BY <1>4, <1>5, <1>7, <1>8, <1>9, <1>10 DEF IInv

\* The rows of a batch when its queue is ready: each is the reconciled row, but for
\* what the cache proves of its record.
LEMMA ReconcilePreserves == IInv /\ Reconcile => IInv'
<1> SUFFICES ASSUME IInv, Reconcile
             PROVE  IInv'
  OBVIOUS
<1>1. PICK fresh \in SUBSET Contents, d \in DoneDelays :
         LET rows    == [i \in Items |-> Reconciled(state.items[i], taken.items[i])]
             present == {rows[i].content : i \in {j \in Items : rows[j].active}}
             movies  == {state.cache[c].movie : c \in present} \ {NoMovie}
             cached(c) ==
               IF /\ c \in fresh
                  /\ ~(/\ state.cache[c].status = "matched_poster"
                       /\ Collided(PosterOf[c], movies, state.tombstones))
               THEN state.cache[c] ELSE [status |-> "none", movie |-> NoMovie]
             warm == [i \in Items |->
                        IF rows[i].active THEN Warmed(rows[i], cached(rows[i].content), now + d)
                        ELSE rows[i]]
             ready == Reopened([state EXCEPT !.items = warm, !.source = taken.id,
                                             !.policy = policy], movies)
         IN  /\ state' = ready
             /\ known' = movies
             /\ \E S \in SUBSET Items :
                   /\ IsSelection(S, ready.items)
                   /\ work' = {ready.items[i].content : i \in S}
  BY DEF Reconcile
<1> DEFINE rows    == [i \in Items |-> Reconciled(state.items[i], taken.items[i])]
           present == {rows[i].content : i \in {j \in Items : rows[j].active}}
           movies  == {state.cache[c].movie : c \in present} \ {NoMovie}
           cached(c) ==
               IF /\ c \in fresh
                  /\ ~(/\ state.cache[c].status = "matched_poster"
                       /\ Collided(PosterOf[c], movies, state.tombstones))
               THEN state.cache[c] ELSE [status |-> "none", movie |-> NoMovie]
           warm == [i \in Items |->
                        IF rows[i].active THEN Warmed(rows[i], cached(rows[i].content), now + d)
                        ELSE rows[i]]
           mid == [state EXCEPT !.items = warm, !.source = taken.id, !.policy = policy]
           ready == Reopened(mid, movies)
<1>2. /\ state' = ready /\ known' = movies
      /\ \E S \in SUBSET Items :
            IsSelection(S, ready.items) /\ work' = {ready.items[i].content : i \in S}
  BY <1>1
<1>3. /\ phase = "prepared" /\ phase' = "working"
      /\ UNCHANGED <<now, source, policy, store, taken, running, results>>
  BY DEF Reconcile
<1>4. /\ now \in Nat /\ source.id \in Nat /\ policy \in Policies /\ state \in States
      /\ taken.id \in 0 .. MaxSource
      /\ \A i \in Items : state.items[i] \in Rows /\ taken.items[i] \in Contents \cup {NoContent}
      /\ \A c \in Contents : state.cache[c] \in [status : Statuses, movie : Movies \cup {NoMovie}]
  BY TypeFacts DEF IInv, TypeOK, States
<1>5. \A i \in Items :
        /\ rows[i] \in Rows
        /\ rows[i].active => rows[i].content = taken.items[i] /\ rows[i].content \in Contents
        /\ rows[i].last \in {0, state.items[i].last}
        /\ rows[i] = state.items[i] \/ ~rows[i].active \/ rows[i].status = "none"
        /\ ~Forgets(state.items[i], rows[i])
  <2> TAKE i \in Items
  <2>1. rows[i] = Reconciled(state.items[i], taken.items[i])
    OBVIOUS
  <2> QED
    BY <1>4, <2>1, ReconciledRow
<1> HIDE DEF rows
<1>6. present \subseteq Contents /\ movies \in SUBSET Movies
  BY <1>4, <1>5
<1>7. \A c \in Contents :
        /\ cached(c).status \in Statuses
        /\ cached(c).status = "matched_poster" => ~Collided(PosterOf[c], movies, state.tombstones)
  BY <1>4 DEF Statuses
<1>8. now + d \in Nat
  BY <1>4, EnrichmentAssumption
<1>9. \A i \in Items : rows[i].active /\ rows[i].status # "none" =>
        rows[i].proof = rows[i].content
  BY <1>5 DEF IInv, StateInv, Sound
<1> HIDE DEF cached, movies, present
<1>10. \A i \in Items :
        /\ warm[i] \in Rows
        /\ warm[i].active = rows[i].active
        /\ warm[i].active => warm[i].content \in Contents
        /\ warm[i].active /\ warm[i].status # "none" => warm[i].proof = warm[i].content
        /\ warm[i].active /\ warm[i].status = "matched_poster" =>
             ~Collided(PosterOf[warm[i].content], movies, state.tombstones)
        /\ warm[i].policy = rows[i].policy /\ warm[i].last = rows[i].last
        /\ warm[i].content = rows[i].content
  <2> TAKE i \in Items
  <2>1. CASE ~rows[i].active
    <3>1. warm[i] = rows[i]
      BY <2>1
    <3> QED
      BY <1>5, <2>1, <3>1
  <2>2. CASE rows[i].active
    <3>1. warm[i] = Warmed(rows[i], cached(rows[i].content), now + d)
      BY <2>2
    <3>2. rows[i] \in Rows /\ rows[i].content \in Contents
      BY <1>5, <2>2
    <3>3. /\ cached(rows[i].content).status \in Statuses
          /\ cached(rows[i].content).status = "matched_poster" =>
                ~Collided(PosterOf[rows[i].content], movies, state.tombstones)
      BY <1>7, <3>2
    <3> DEFINE c == cached(rows[i].content)
               e == now + d
    <3>4. /\ e \in Nat /\ warm[i] = Warmed(rows[i], c, e) /\ c.status \in Statuses
          /\ c.status = "matched_poster" =>
                ~Collided(PosterOf[rows[i].content], movies, state.tombstones)
          /\ rows[i].status # "none" => rows[i].proof = rows[i].content
      BY <1>8, <1>9, <2>2, <3>1, <3>3
    <3> HIDE DEF warm, c, e
    <3>5. /\ warm[i] \in Rows
          /\ warm[i].active /\ warm[i].content = rows[i].content /\ warm[i].policy = rows[i].policy
          /\ warm[i].last = rows[i].last
          /\ warm[i].status # "none" => warm[i].proof = warm[i].content
          /\ warm[i].status = "matched_poster" => c.status = "matched_poster"
      BY <2>2, <3>2, <3>4, WarmedRow
    <3> QED
      BY <2>2, <3>2, <3>4, <3>5
  <2> QED
    BY <2>1, <2>2
<1>11. warm \in [Items -> Rows]
  BY <1>10
<1> HIDE DEF warm
<1>12. /\ mid \in States /\ mid.items = warm /\ mid.tombstones = state.tombstones
       /\ mid.revoked = state.revoked /\ mid.report = state.report
  BY <1>4, <1>11 DEF States
<1> HIDE DEF mid
<1>13. /\ state.revoked \subseteq state.tombstones
       /\ \A i \in Items : state.items[i].last <= now
       /\ state.report # NoState => state.report.source <= source.id /\ state.report.policy <= policy
  BY DEF IInv, StateInv, Sound
<1>14. \A i \in Items : PosterMatch(mid.items[i]) =>
         PosterOf[mid.items[i].content] \notin mid.revoked
  BY <1>10, <1>12, <1>13 DEF PosterMatch, Collided
<1>15. /\ ready \in States /\ ready.report = state.report
       /\ state.tombstones \subseteq ready.tombstones /\ ready.revoked \subseteq ready.tombstones
       /\ \A i \in Items :
            /\ ready.items[i].active = warm[i].active /\ ready.items[i].content = warm[i].content
            /\ ready.items[i].policy = warm[i].policy /\ ready.items[i].last = warm[i].last
            /\ ready.items[i] = warm[i] \/ ready.items[i].status = "none"
       /\ \A i \in Items : PosterMatch(ready.items[i]) =>
            PosterOf[ready.items[i].content] \notin ready.revoked
  BY <1>6, <1>12, <1>13, <1>14, ReopenedState
<1> HIDE DEF ready
<1>16. work' \subseteq Contents
  <2>1. PICK S \in SUBSET Items : IsSelection(S, ready.items) /\ work' = {ready.items[i].content : i \in S}
    BY <1>2
  <2>2. \A i \in S : ready.items[i].active
    BY <2>1 DEF IsSelection, Due
  <2> QED
    BY <1>10, <1>15, <2>1, <2>2
<1>17. TypeOK'
  BY <1>2, <1>3, <1>6, <1>15, <1>16 DEF IInv, TypeOK
<1>18. StateInv'
  <2>1. \A i \in Items : ready.items[i].active /\ ready.items[i].status # "none" =>
          ready.items[i].proof = ready.items[i].content
    BY <1>10, <1>15
  <2>2. \A i \in Items : ready.items[i].last <= now
    BY <1>4, <1>5, <1>10, <1>13, <1>15
  <2>3. Sound(ready, now, source.id, policy)
    BY <1>13, <1>15, <2>1, <2>2 DEF Sound
  <2> QED
    BY <1>2, <1>3, <2>3 DEF IInv, StateInv
<1>19. WorkInv'
  <2>1. running = {} /\ results = {}
    BY <1>3 DEF IInv, WorkInv
  <2> QED
    BY <1>3, <2>1 DEF WorkInv, ResultsApply
<1>20. ReportInv'
  BY <1>2, <1>3, <1>15 DEF IInv, ReportInv
<1>21. ChainInv'
  <2>1. ASSUME store # NoState
        PROVE  \A i \in Items : ~Forgets(store.items[i], ready.items[i])
    <3>1. store = state
      BY <1>3, <2>1 DEF IInv, ChainInv
    <3>2. \A i \in Items : ~Forgets(store.items[i], rows[i])
      BY <1>5, <3>1
    <3> QED
      BY <1>10, <1>15, <3>2 DEF Forgets
  <2>2. store # NoState => store.tombstones \subseteq ready.tombstones
    BY <1>3, <1>15 DEF IInv, ChainInv
  <2> QED
    BY <1>2, <1>3, <2>1, <2>2 DEF ChainInv
<1>22. CollisionsReopened'
  BY <1>3 DEF CollisionsReopened
<1> QED
  BY <1>17, <1>18, <1>19, <1>20, <1>21, <1>22 DEF IInv

\* A step of the workers that leaves the state alone.
LEMMA SubmitPreserves == ASSUME IInv, NEW c \in Contents, Submit(c) PROVE IInv'
<1> DEFINE ids == {i \in Items : Due(state.items[i]) /\ state.items[i].content = c}
           group == [content |-> c, ids |-> ids]
<1>1. /\ phase = "working" /\ work' = work \ {c}
      /\ running' \subseteq running \cup {group}
      /\ UNCHANGED <<now, source, policy, store, phase, state, taken, known, results>>
  BY DEF Submit
<1>2. group \in Groups
  BY DEF Groups
<1>3. TypeOK'
  BY <1>1, <1>2 DEF IInv, TypeOK
<1>4. \A i \in ids : state.items[i].active /\ state.items[i].content = c
  BY DEF Due
<1>5. WorkInv'
  BY <1>1, <1>4 DEF IInv, WorkInv, ResultsApply
<1>6. StateInv' /\ ReportInv' /\ ChainInv' /\ CollisionsReopened'
  BY <1>1 DEF IInv, StateInv, ReportInv, ChainInv, CollisionsReopened
<1> QED
  BY <1>3, <1>5, <1>6 DEF IInv

LEMMA StopSubmittingPreserves == IInv /\ StopSubmitting => IInv'
<1> SUFFICES ASSUME IInv, StopSubmitting
             PROVE  IInv'
  OBVIOUS
<1>1. /\ work' = {}
      /\ UNCHANGED <<now, source, policy, store, phase, state, taken, known, running, results>>
  BY DEF StopSubmitting
<1>2. TypeOK'
  BY <1>1 DEF IInv, TypeOK
<1>3. StateInv' /\ WorkInv' /\ ReportInv' /\ ChainInv' /\ CollisionsReopened'
  BY <1>1 DEF IInv, StateInv, WorkInv, ResultsApply, ReportInv, ChainInv, CollisionsReopened
<1> QED
  BY <1>2, <1>3 DEF IInv

\* What every step of a batch at work keeps, if it changes rows at all only so that
\* they stay sound and never lose an attempt.
LEMMA WorkPreserves ==
    ASSUME IInv, TypeOK', WorkInv', phase = "working", phase' = "working",
           UNCHANGED <<now, source, policy, store, taken>>,
           state'.report = state.report, state'.revoked = state.revoked,
           state'.tombstones = state.tombstones,
           \A i \in Items :
              /\ state'.items[i].active = state.items[i].active
              /\ state'.items[i].content = state.items[i].content
              /\ state'.items[i].policy = state.items[i].policy
              /\ state'.items[i].last \in {state.items[i].last, now}
              /\ \/ state'.items[i] = state.items[i]
                 \/ /\ state'.items[i].proof = state'.items[i].content
                    /\ state'.items[i].status = "matched_poster" =>
                          PosterOf[state'.items[i].content] \notin state.tombstones
    PROVE  IInv'
<1>1. /\ now \in Nat
      /\ store # NoState => \A i \in Items : store.items[i].last \in Nat
      /\ \A i \in Items : state.items[i].last \in Nat
  BY TypeFacts DEF IInv, Rows
<1>2. StateInv'
  <2>1. /\ \A i \in Items : state.items[i].last <= now
        /\ state.revoked \subseteq state.tombstones
        /\ \A i \in Items : state.items[i].active /\ state.items[i].status # "none" =>
              state.items[i].proof = state.items[i].content
        /\ \A i \in Items : PosterMatch(state.items[i]) =>
              PosterOf[state.items[i].content] \notin state.revoked
        /\ state.report # NoState => state.report.source <= source.id /\ state.report.policy <= policy
    BY DEF IInv, StateInv, Sound
  <2>2. \A i \in Items : state'.items[i].last <= now
    BY <1>1, <2>1
  <2>3. \A i \in Items : state'.items[i].active /\ state'.items[i].status # "none" =>
          state'.items[i].proof = state'.items[i].content
    BY <2>1
  <2>4. \A i \in Items : PosterMatch(state'.items[i]) =>
          PosterOf[state'.items[i].content] \notin state'.revoked
    BY <2>1 DEF PosterMatch
  <2>5. Sound(state', now', source.id', policy')
    BY <2>1, <2>2, <2>3, <2>4 DEF Sound
  <2> QED
    BY <2>5 DEF IInv, StateInv
<1>3. ReportInv'
  BY DEF IInv, ReportInv
<1>4. ChainInv'
  <2>1. ASSUME store # NoState
        PROVE  \A i \in Items : ~Forgets(store.items[i], state'.items[i])
    <3> TAKE i \in Items
    <3>1. ~Forgets(store.items[i], state.items[i]) /\ store.items[i].last <= now
      BY <2>1 DEF IInv, ChainInv, StateInv, Sound
    <3> QED
      BY <1>1, <2>1, <3>1 DEF Forgets
  <2>2. store # NoState => store.tombstones \subseteq state'.tombstones
    BY DEF IInv, ChainInv
  <2>3. store' = store /\ phase' # "prepared"
    OBVIOUS
  <2> QED
    BY <2>1, <2>2, <2>3 DEF ChainInv
<1>5. CollisionsReopened'
  BY DEF CollisionsReopened
<1> QED
  BY <1>2, <1>3, <1>4, <1>5 DEF IInv

LEMMA EnrichedPreserves == ASSUME IInv, NEW group \in running, Enriched(group) PROVE IInv'
<1>1. /\ phase = "working" /\ running' = running \ {group}
      /\ UNCHANGED <<now, source, policy, store, phase, taken, work>>
  BY DEF Enriched
<1>2. group \in Groups /\ group.content \in Contents /\ state \in States
  BY DEF IInv, TypeOK, Groups
<1> DEFINE found(status) == [content |-> group.content, ids |-> group.ids, status |-> status]
<1>3. \A status \in Statuses : found(status) \in Results
  BY <1>2 DEF Groups, Results
<1>4. PICK status \in Statuses :
        /\ results' = results \cup {found(status)}
        /\ status = "matched_poster" => PosterOf[group.content] \notin state.tombstones
        /\ known' \subseteq Movies /\ state' \in States
        /\ state'.items = state.items /\ state'.report = state.report
        /\ state'.revoked = state.revoked /\ state'.tombstones = state.tombstones
  <2>1. CASE \E m \in Movies, status \in MATCHED :
            /\ known' = known \cup {m}
            /\ status = "matched_poster" =>
                  /\ PosterOf[group.content] \in Official[m]
                  /\ ~Collided(PosterOf[group.content], known', state.tombstones)
            /\ state' = [state EXCEPT !.cache[group.content] = [status |-> status, movie |-> m]]
            /\ results' = results \cup {found(status)}
    <3>1. PICK m \in Movies, status \in MATCHED :
            /\ known' = known \cup {m}
            /\ status = "matched_poster" => ~Collided(PosterOf[group.content], known', state.tombstones)
            /\ state' = [state EXCEPT !.cache[group.content] = [status |-> status, movie |-> m]]
            /\ results' = results \cup {found(status)}
      BY <2>1
    <3>2. status \in Statuses
      BY DEF MATCHED, Statuses
    <3> DEFINE entry == [status |-> status, movie |-> m]
               cache == [state.cache EXCEPT ![group.content] = entry]
    <3>3. cache \in [Contents -> [status : Statuses, movie : Movies \cup {NoMovie}]]
      BY <1>2, <3>2 DEF States
    <3>4. state' = [state EXCEPT !.cache = cache]
      BY <1>2, <3>1 DEF States
    <3> HIDE DEF cache
    <3>5. /\ state' \in States
          /\ state'.items = state.items /\ state'.report = state.report
          /\ state'.revoked = state.revoked /\ state'.tombstones = state.tombstones
      BY <1>2, <3>3, <3>4 DEF States
    <3>6. known' \subseteq Movies
      BY <3>1 DEF IInv, TypeOK
    <3>7. status = "matched_poster" => PosterOf[group.content] \notin state.tombstones
      BY <3>1 DEF Collided
    <3> QED
      BY <3>1, <3>2, <3>5, <3>6, <3>7
  <2>2. CASE /\ \E status \in {"no_match", "unavailable"} : results' = results \cup {found(status)}
             /\ UNCHANGED <<known, state>>
    <3>1. PICK status \in {"no_match", "unavailable"} : results' = results \cup {found(status)}
      BY <2>2
    <3>2. known' \subseteq Movies
      BY <2>2 DEF IInv, TypeOK
    <3> QED
      BY <1>2, <2>2, <3>1, <3>2 DEF Statuses
  <2> QED
    BY <2>1, <2>2 DEF Enriched
<1>5. TypeOK'
  BY <1>1, <1>3, <1>4 DEF IInv, TypeOK
<1>6. WorkInv'
  <2>1. ResultsApply'
    BY <1>1, <1>4 DEF IInv, WorkInv, ResultsApply
  <2> QED
    BY <1>1, <1>4, <2>1 DEF IInv, WorkInv
<1> QED
  BY <1>1, <1>4, <1>5, <1>6, WorkPreserves

LEMMA RecordResultPreserves == ASSUME IInv, NEW r \in results, RecordResult(r) PROVE IInv'
<1>1. PICK definitive \in BOOLEAN, d \in RetryDelays \cup DoneDelays :
        state' = [state EXCEPT !.items = [i \in Items |->
                    IF i \in r.ids THEN Recorded(@[i], r.content, r.status, definitive, now + d)
                    ELSE @[i]]]
  BY DEF RecordResult
<1>2. /\ phase = "working" /\ results' = results \ {r}
      /\ UNCHANGED <<now, source, policy, store, phase, taken, known, work, running>>
  BY DEF RecordResult
<1>3. /\ now \in Nat /\ now + d \in Nat /\ state \in States
      /\ r.content \in Contents /\ r.status \in Statuses
      /\ \A i \in Items : state.items[i] \in Rows
  BY TypeFacts, EnrichmentAssumption DEF IInv, TypeOK, Results
<1> DEFINE row(i) == Recorded(state.items[i], r.content, r.status, definitive, now + d)
           rows == [i \in Items |-> IF i \in r.ids THEN row(i) ELSE state.items[i]]
<1>4. state' = [state EXCEPT !.items = rows]
  BY <1>1
<1>5. \A i \in Items :
        /\ row(i) \in Rows
        /\ row(i).active = state.items[i].active /\ row(i).content = state.items[i].content
        /\ row(i).policy = state.items[i].policy /\ row(i).last = now
        /\ row(i).status = r.status /\ row(i).proof = r.content
  <2> TAKE i \in Items
  <2> DEFINE next == now + d
  <2>1. next \in Nat /\ state.items[i] \in Rows
    BY <1>3
  <2> HIDE DEF next
  <2> QED
    BY <1>3, <2>1, RecordedRow
<1> HIDE DEF row
<1>6. rows \in [Items -> Rows]
  BY <1>3, <1>5
<1>7. \A i \in Items :
        /\ rows[i].active = state.items[i].active /\ rows[i].content = state.items[i].content
        /\ rows[i].policy = state.items[i].policy /\ rows[i].last \in {state.items[i].last, now}
        /\ \/ rows[i] = state.items[i]
           \/ i \in r.ids /\ rows[i].proof = r.content /\ rows[i].status = r.status
  BY <1>5
<1>8. \A i \in Items : i \in r.ids => state.items[i].content = r.content
  BY DEF IInv, WorkInv, ResultsApply
<1>9. r.status = "matched_poster" => PosterOf[r.content] \notin state.tombstones
  BY DEF IInv, WorkInv
<1> HIDE DEF rows
<1>10. /\ state' \in States /\ state'.items = rows /\ state'.report = state.report
       /\ state'.revoked = state.revoked /\ state'.tombstones = state.tombstones
  BY <1>3, <1>4, <1>6 DEF States
<1>11. TypeOK'
  BY <1>2, <1>10 DEF IInv, TypeOK
<1>12. WorkInv'
  <2>1. \A g \in running \cup results : \A i \in g.ids : i \in Items
    BY DEF IInv, TypeOK, Groups, Results
  <2>2. ResultsApply'
    BY <1>2, <1>7, <1>10, <2>1 DEF IInv, WorkInv, ResultsApply
  <2> QED
    BY <1>2, <1>10, <2>2 DEF IInv, WorkInv
<1> QED
  BY <1>2, <1>7, <1>8, <1>9, <1>10, <1>11, <1>12, WorkPreserves

LEMMA NumberPreserves == IInv /\ Number => IInv'
<1> SUFFICES ASSUME IInv, Number
             PROVE  IInv'
  OBVIOUS
<1> DEFINE closed == Reopened(state, known)
<1>1. /\ phase = "working" /\ running = {} /\ results = {} /\ phase' \in {"numbered", "failed"}
      /\ state' = [closed EXCEPT !.ahead = TRUE]
      /\ UNCHANGED <<now, source, policy, store, taken, known, work, running, results>>
  BY DEF Number
<1>2. state \in States /\ known \in SUBSET Movies
  BY TypeFacts DEF IInv, TypeOK
<1>3. /\ \A i \in Items : state.items[i].active /\ state.items[i].status # "none" =>
            state.items[i].proof = state.items[i].content
      /\ \A i \in Items : state.items[i].last <= now
      /\ state.revoked \subseteq state.tombstones
      /\ \A i \in Items : PosterMatch(state.items[i]) =>
            PosterOf[state.items[i].content] \notin state.revoked
      /\ state.report # NoState => state.report.source <= source.id /\ state.report.policy <= policy
  BY DEF IInv, StateInv, Sound
<1>4. /\ closed \in States /\ closed.report = state.report
      /\ state.tombstones \subseteq closed.tombstones /\ closed.revoked \subseteq closed.tombstones
      /\ \A i \in Items :
           /\ closed.items[i].active = state.items[i].active
           /\ closed.items[i].content = state.items[i].content
           /\ closed.items[i].policy = state.items[i].policy /\ closed.items[i].last = state.items[i].last
           /\ closed.items[i] = state.items[i] \/ closed.items[i].status = "none"
           /\ ~CollidedRow(closed.items[i], known, closed.tombstones)
      /\ \A i \in Items : PosterMatch(closed.items[i]) =>
           PosterOf[closed.items[i].content] \notin closed.revoked
  BY <1>2, <1>3, ReopenedState
<1> HIDE DEF closed
<1>5. /\ state' \in States /\ state'.items = closed.items /\ state'.report = closed.report
      /\ state'.tombstones = closed.tombstones /\ state'.revoked = closed.revoked
  BY <1>1, <1>4 DEF States
<1>6. TypeOK'
  BY <1>1, <1>5 DEF IInv, TypeOK
<1>7. StateInv'
  <2>1. Sound(state', now', source.id', policy')
    BY <1>1, <1>3, <1>4, <1>5 DEF Sound
  <2> QED
    BY <1>1, <2>1 DEF IInv, StateInv
<1>8. WorkInv'
  BY <1>1 DEF WorkInv, ResultsApply
<1>9. ReportInv'
  BY <1>1, <1>4, <1>5 DEF IInv, ReportInv
<1>10. ChainInv'
  <2>1. ASSUME store # NoState
        PROVE  \A i \in Items : ~Forgets(store.items[i], state'.items[i])
    BY <1>1, <1>4, <1>5, <2>1 DEF IInv, ChainInv, Forgets
  <2>2. store # NoState => store.tombstones \subseteq state'.tombstones
    BY <1>1, <1>4, <1>5 DEF IInv, ChainInv
  <2> QED
    BY <1>1, <2>1, <2>2 DEF ChainInv
<1>11. CollisionsReopened'
  BY <1>1, <1>4, <1>5 DEF CollisionsReopened
<1> QED
  BY <1>6, <1>7, <1>8, <1>9, <1>10, <1>11 DEF IInv

LEMMA FailPreserves == IInv /\ Fail => IInv'
<1> SUFFICES ASSUME IInv, Fail
             PROVE  IInv'
  OBVIOUS
<1>1. /\ phase = "working" /\ phase' = "failed" /\ work' = {} /\ running' = {} /\ results' = {}
      /\ state' = [state EXCEPT !.ahead = TRUE]
      /\ UNCHANGED <<now, source, policy, store, taken, known>>
  BY DEF Fail
<1>2. state \in States
  BY TypeFacts DEF IInv
<1>3. /\ state' \in States /\ state'.items = state.items /\ state'.report = state.report
      /\ state'.tombstones = state.tombstones /\ state'.revoked = state.revoked
  BY <1>1, <1>2 DEF States
<1>4. TypeOK'
  BY <1>1, <1>3 DEF IInv, TypeOK
<1>5. StateInv' /\ WorkInv'
  BY <1>1, <1>3 DEF IInv, StateInv, Sound, WorkInv, ResultsApply
<1>6. ReportInv'
  BY <1>1, <1>3 DEF IInv, ReportInv
<1>7. ChainInv' /\ CollisionsReopened'
  BY <1>1, <1>3 DEF IInv, ChainInv, CollisionsReopened
<1> QED
  BY <1>4, <1>5, <1>6, <1>7 DEF IInv

\* The new report is true of the rows, at the time it is written and later.
LEMMA WriteReportPreserves == IInv /\ WriteReport => IInv'
<1> SUFFICES ASSUME IInv, WriteReport
             PROVE  IInv'
  OBVIOUS
<1>1. /\ phase \in {"numbered", "failed"} /\ phase' = "reported"
      /\ UNCHANGED <<now, source, policy, store, taken, known, work, running, results>>
  BY DEF WriteReport
<1>2. PICK d \in {0} \cup RetryDelays \cup DoneDelays : \E t \in NextTimes(state.items, now + d) :
          /\ Earliest(t, NextTimes(state.items, now + d))
          /\ state' = [state EXCEPT
                !.ahead = FALSE,
                !.report = [source |-> taken.id, policy |-> policy,
                            due |-> d = 0 \/ \E i \in Items : Due(state.items[i]),
                            next |-> t, fatal |-> phase = "failed"]]
  BY DEF WriteReport
<1>3. PICK t \in NextTimes(state.items, now + d) :
          /\ Earliest(t, NextTimes(state.items, now + d))
          /\ state' = [state EXCEPT
                !.ahead = FALSE,
                !.report = [source |-> taken.id, policy |-> policy,
                            due |-> d = 0 \/ \E i \in Items : Due(state.items[i]),
                            next |-> t, fatal |-> phase = "failed"]]
  BY <1>2
<1> DEFINE due == d = 0 \/ \E i \in Items : Due(state.items[i])
           fatal == phase = "failed"
           report == [source |-> taken.id, policy |-> policy, due |-> due, next |-> t, fatal |-> fatal]
<1>4. /\ state \in States /\ now \in Nat /\ taken.id \in 0 .. MaxSource /\ policy \in Policies
      /\ \A i \in Items : state.items[i] \in Rows
  BY TypeFacts DEF IInv, TypeOK
<1>5. t \in Nat
  <2>1. now + d \in Nat
    BY <1>4, EnrichmentAssumption
  <2>2. \A i \in Items : state.items[i].next \in Nat \cup {NoTime}
    BY <1>4 DEF Rows
  <2> QED
    BY <2>1, <2>2 DEF NextTimes
<1>6. due \in BOOLEAN /\ fatal \in BOOLEAN
  OBVIOUS
<1>7. state' = [state EXCEPT !.ahead = FALSE, !.report = report]
  BY <1>3
<1>8. ~due => \A i \in Items : state.items[i].active => state.items[i].state # "pending"
  BY DEF Due
<1> HIDE DEF due, fatal
<1>9. /\ report \in Reports
      /\ report.source = taken.id /\ report.policy = policy /\ report.due = due /\ report.next = t
  BY <1>4, <1>5, <1>6 DEF Reports
<1> HIDE DEF report
<1>10. /\ state' \in States /\ state'.items = state.items /\ state'.report = report
       /\ state'.tombstones = state.tombstones /\ state'.revoked = state.revoked
  BY <1>4, <1>7, <1>9 DEF States
<1>11. TypeOK'
  BY <1>1, <1>10 DEF IInv, TypeOK
<1>12. StateInv'
  <2>1. policy \in Nat /\ policy <= policy /\ taken.id <= source.id
    BY <1>4, ConstantFacts DEF IInv, ReportInv
  <2>2. Sound(state', now', source.id', policy')
    BY <1>1, <1>9, <1>10, <2>1 DEF IInv, StateInv, Sound
  <2> QED
    BY <1>1, <2>2 DEF IInv, StateInv
<1>13. WorkInv'
  BY <1>1, <1>10 DEF IInv, WorkInv, ResultsApply
<1>14. Truthful(state')
  <2> SUFFICES ASSUME NEW i \in Items, state.items[i].active
               PROVE  /\ ~due => state.items[i].state # "pending"
                      /\ state.items[i].next # NoTime => t <= state.items[i].next
    BY <1>9, <1>10 DEF Truthful
  <2>1. state.items[i].next # NoTime => state.items[i].next \in NextTimes(state.items, now + d)
    BY DEF NextTimes
  <2> QED
    BY <1>3, <1>8, <2>1 DEF Earliest
<1>15. ReportInv'
  BY <1>1, <1>14 DEF IInv, ReportInv
<1>16. ChainInv' /\ CollisionsReopened'
  BY <1>1, <1>10 DEF IInv, ChainInv, CollisionsReopened
<1> QED
  BY <1>11, <1>12, <1>13, <1>15, <1>16 DEF IInv

\* What is trusted after an upload is a state with a report that is true of it or
\* outdated.
LEMMA UploadPreserves == IInv /\ Upload => IInv'
<1> SUFFICES ASSUME IInv, Upload
             PROVE  IInv'
  OBVIOUS
<1>1. /\ phase # "idle" /\ Sealable(state) /\ store' = state
      /\ phase' = "idle" /\ state' = EmptyState /\ taken' = Nothing
      /\ known' = {} /\ work' = {} /\ running' = {} /\ results' = {}
      /\ UNCHANGED <<now, source, policy>>
  BY DEF Upload, EndRun
<1>2. /\ now \in Nat /\ source.id \in Nat /\ policy \in Nat /\ state \in States
  BY TypeFacts DEF IInv
<1>3. TypeOK'
  <2>1. Nothing \in [id : 0 .. MaxSource, items : [Items -> Contents \cup {NoContent}]]
    BY EnrichmentAssumption DEF Nothing
  <2> QED
    BY <1>1, <1>2, <2>1, ConstantFacts DEF IInv, TypeOK
<1>4. StateInv'
  BY <1>1, <1>2, EmptySound DEF IInv, StateInv
<1>5. WorkInv'
  BY <1>1 DEF WorkInv, ResultsApply
<1>6. ReportInv'
  <2>1. /\ state.report # NoState
        /\ state.source = state.report.source /\ state.policy = state.report.policy
    BY <1>1 DEF Sealable
  <2>2. Outdated(state.report, now, source.id, policy) \/ Truthful(state)
    <3>1. phase \in {"prepared", "working", "failed", "numbered", "reported"}
      BY <1>1 DEF IInv, TypeOK
    <3> QED
      BY <2>1, <3>1 DEF IInv, ReportInv
  <2>3. taken'.id = 0
    BY <1>1 DEF Nothing
  <2> QED
    BY <1>1, <1>2, <2>1, <2>2, <2>3 DEF ReportInv
<1>7. ChainInv' /\ CollisionsReopened'
  BY <1>1 DEF ChainInv, CollisionsReopened
<1> QED
  BY <1>3, <1>4, <1>5, <1>6, <1>7 DEF IInv

LEMMA DiscardPreserves == IInv /\ Discard => IInv'
<1> SUFFICES ASSUME IInv, Discard
             PROVE  IInv'
  OBVIOUS
<1>1. /\ phase' = "idle" /\ state' = EmptyState /\ taken' = Nothing
      /\ known' = {} /\ work' = {} /\ running' = {} /\ results' = {}
      /\ UNCHANGED <<now, source, policy, store>>
  BY DEF Discard, EndRun
<1>2. now \in Nat /\ source.id \in Nat /\ policy \in Nat
  BY TypeFacts DEF IInv
<1>3. TypeOK'
  <2>1. Nothing \in [id : 0 .. MaxSource, items : [Items -> Contents \cup {NoContent}]]
    BY EnrichmentAssumption DEF Nothing
  <2> QED
    BY <1>1, <2>1, ConstantFacts DEF IInv, TypeOK
<1>4. StateInv'
  BY <1>1, <1>2, EmptySound DEF IInv, StateInv
<1>5. WorkInv' /\ ChainInv' /\ CollisionsReopened'
  BY <1>1 DEF WorkInv, ResultsApply, ChainInv, CollisionsReopened
<1>6. ReportInv'
  <2>1. taken'.id = 0
    BY <1>1 DEF Nothing
  <2> QED
    BY <1>1, <1>2, <2>1 DEF IInv, ReportInv
<1> QED
  BY <1>3, <1>4, <1>5, <1>6 DEF IInv

LEMMA NextPreserves == IInv /\ [Next]_vars => IInv'
<1> SUFFICES ASSUME IInv, [Next]_vars
             PROVE  IInv'
  OBVIOUS
<1>1. CASE Publish \/ DeployPolicy \/ Tick
  BY <1>1, PublishPreserves, DeployPolicyPreserves, TickPreserves
<1>2. CASE Prepare \/ Reconcile
  BY <1>2, PreparePreserves, ReconcilePreserves
<1>3. CASE \E c \in Contents : Submit(c)
  BY <1>3, SubmitPreserves
<1>4. CASE StopSubmitting \/ Number \/ Fail \/ WriteReport
  BY <1>4, StopSubmittingPreserves, NumberPreserves, FailPreserves, WriteReportPreserves
<1>5. CASE \E group \in running : Enriched(group)
  BY <1>5, EnrichedPreserves
<1>6. CASE \E r \in results : RecordResult(r)
  BY <1>6, RecordResultPreserves
<1>7. CASE Upload \/ Discard
  BY <1>7, UploadPreserves, DiscardPreserves
<1>8. CASE UNCHANGED vars
  <2>1. TypeOK'
    BY <1>8 DEF IInv, TypeOK, vars, local
  <2>2. now <= now' /\ source.id <= source.id' /\ policy <= policy'
    BY <1>8, TypeFacts DEF IInv, vars
  <2> QED
    BY <1>8, <2>1, <2>2, EnvironmentPreserves DEF vars
<1> QED
  BY <1>1, <1>2, <1>3, <1>4, <1>5, <1>6, <1>7, <1>8 DEF Next

-----------------------------------------------------------------------------
(***************************************************************************)
(* The theorems.                                                           *)
(***************************************************************************)

\* The inductive invariant holds in every state of the queue, its batches and the
\* artifacts that hand it on.
THEOREM QueueIsSound == Spec => []IInv
BY InitEstablishes, NextPreserves, PTL DEF Spec

\* Saved outcomes belong to the records the items have now, and a result meets the
\* rows its worker was given, over changed sources, restarts and lost batches.
THEOREM OutcomesStayCurrent == Spec => []QueueInv
<1>1. IInv => QueueInv
  BY DEF IInv, QueueInv, StateInv, Sound, OutcomesCurrent, WorkInv
<1> QED
  BY <1>1, QueueIsSound, PTL

\* A run that declares the queue idle has nothing to do, whichever batch wrote the
\* report it reads and whatever was sealed beside it.
THEOREM IdleVerdictIsRight == Spec => []IdleIsJustified
<1>1. IInv => IdleIsJustified
  <2> SUFFICES ASSUME IInv, store # NoState, Idle(store.report)
               PROVE  /\ \A i \in Items : ~Due(store.items[i])
                      /\ store.source = source.id /\ store.policy = policy
    BY DEF IdleIsJustified
  <2>1. /\ now \in Nat /\ source.id \in Nat /\ policy \in Nat /\ store \in States
        /\ \A i \in Items : store.items[i] \in Rows
    BY TypeFacts DEF IInv
  <2>2. /\ store.report # NoState
        /\ store.source = store.report.source /\ store.policy = store.report.policy
        /\ Outdated(store.report, now, source.id, policy) \/ Truthful(store)
    BY DEF IInv, ReportInv
  <2>3. store.report.next \in Nat /\ store.report.next > now
    BY <2>1, <2>2 DEF States, Reports, Idle
  <2>4. Truthful(store)
    BY <2>1, <2>2, <2>3 DEF Outdated, Idle
  <2>5. \A i \in Items : ~Due(store.items[i])
    <3> TAKE i \in Items
    <3>1. store.items[i].next \in Nat \cup {NoTime}
      BY <2>1 DEF Rows
    <3> QED
      BY <2>1, <2>3, <2>4, <3>1 DEF Due, Truthful, Idle
  <2> QED
    BY <2>2, <2>5 DEF Idle
<1> QED
  BY <1>1, QueueIsSound, PTL

\* No poster proves two movies, in whatever order the workers find out.
THEOREM PosterProofsAreSound == Spec => []PosterProofsHold
<1>1. IInv => PosterProofsHold
  BY DEF IInv, PosterProofsHold, RevokedStaysRevoked, StateInv, Sound, PosterMatch
<1> QED
  BY <1>1, QueueIsSound, PTL

\* The trusted state that replaces another has its collisions and its attempts.
THEOREM NothingIsForgotten == Spec => ProgressIsKept
<1>1. IInv /\ IInv' /\ [Next]_vars =>
        [store # NoState =>
          /\ store.tombstones \subseteq store'.tombstones
          /\ \A i \in Items :
                LET old == store.items[i]  new == store'.items[i]
                IN  old.active /\ new.active /\ old.content = new.content
                      /\ old.policy = new.policy => new.last >= old.last]_store
  <2> SUFFICES ASSUME IInv, [Next]_vars, store' # store, store # NoState
               PROVE  /\ store.tombstones \subseteq store'.tombstones
                      /\ \A i \in Items : ~Forgets(store.items[i], store'.items[i])
    BY DEF Forgets
  <2>1. Upload
    BY DEF Next, vars, Publish, DeployPolicy, Tick, Prepare, Reconcile, Submit, StopSubmitting,
           Enriched, RecordResult, Number, Fail, WriteReport, Discard
  <2>2. store' = state /\ phase # "idle"
    BY <2>1 DEF Upload
  <2> QED
    BY <2>2 DEF IInv, ChainInv
<1>2. Spec => [][Next]_vars
  BY DEF Spec
<1> QED
  BY <1>1, <1>2, QueueIsSound, PTL DEF ProgressIsKept
=============================================================================
