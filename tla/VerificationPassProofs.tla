------------------------ MODULE VerificationPassProofs ------------------------
(***************************************************************************)
(* Proofs about VerificationPass for any items, keys, posters and movies,  *)
(* any seed cache and any number of workers, kills and deployments: one    *)
(* pass never mixes revisions, a replay charges nothing twice, completed   *)
(* outcomes are final, and a poster refuted once proves nothing again.     *)
(***************************************************************************)
EXTENDS VerificationPass, FiniteSetTheorems, TLAPS

(***************************************************************************)
(* The inductive invariant.                                                *)
(***************************************************************************)
PosterMatch(row) == row.state = "done" /\ row.status = "matched_poster"

\* What holds of a checkpoint wherever it lies.
Sound(d) ==
    /\ \A i \in Items : d.items[i].rule \in {NoCode, d.config}
    /\ d.stage = "new" => d.config = NoCode
    /\ \A i \in Items : d.items[i].state # "done" => d.items[i].attempts < MaxAttempts
    /\ \A i \in Items : d.hits[i] <= 1
    /\ d.stage # "ready" => \A i \in Items : d.items[i].state # "done" => d.hits[i] = 0
    /\ d.stage # "ready" => d.revoked = {}
    /\ d.revoked \subseteq d.tombstones
    /\ \A i \in Items : PosterMatch(d.items[i]) => Poster(i) \notin d.revoked

CheckpointInv == Sound(disk) /\ (store # NoState => Sound(store))

\* Where a batch stands, and in what its process may trust the checkpoint.
PhaseInv ==
    /\ phase \notin {"stopped", "continuing"} => using = disk.config
    /\ phase = "initializing" => disk.stage \in {"initializing", "frozen"}
    /\ phase = "warming" => disk.stage = "frozen"
    /\ phase \notin {"stopped", "initializing", "warming"} => disk.stage = "ready"
    /\ phase = "continuing" => store.config = disk.config

\* Every item is in one group, and open until its result is recorded.
Undecided(g) == \A i \in g.ids : disk.items[i].state # "done" /\ keyOf[i] = g.key
WorkInv ==
    /\ phase # "working" => work = {} /\ running = {} /\ results = {}
    /\ \A g \in work \cup running \cup results : Undecided(g)
    /\ work \cap running = {}
    /\ \A g, h \in work \cup running : g.key = h.key => g = h
    /\ \A g, h \in results : g.key = h.key => g = h
    /\ \A g \in work \cup running, r \in results : g.key # r.key

\* The poster index knows every accepted movie, and what collides is saved before
\* it is reopened.
PosterInv ==
    /\ phase \in {"reopening", "working", "closing"} => IndexOf(disk) \subseteq known
    /\ phase \in {"reopening", "closing"} =>
         \A i \in Items : CollidedRow(disk, i, known) => Poster(i) \in disk.tombstones
    /\ \A r \in results :
         /\ r.status \in MATCHED => disk.cache[r.key].movie \in known
         /\ r.status = "matched_poster" => PosterOf[r.key] \notin disk.tombstones

\* What a report says, and what a sealed checkpoint is worth.
ReportInv ==
    /\ phase \in {"numbered", "reported"} /\ fatal = "none" =>
         /\ IndexOf(disk) \subseteq known
         /\ \A i \in Items : ~CollidedRow(disk, i, known)
    /\ phase = "reported" => disk.report.fatal = (fatal # "none")

IInv ==
    /\ TypeOK /\ CheckpointInv /\ PhaseInv /\ WorkInv /\ PosterInv /\ ReportInv
    /\ CollisionsReopened

-----------------------------------------------------------------------------
(* Rows and checkpoints.                                                     *)

LEMMA ConstantFacts ==
    /\ MaxAttempts \in Nat /\ 0 < MaxAttempts /\ 0 \in Codes
    /\ NewRow \in Rows /\ EmptyDisk \in Disks
<1>1. MaxAttempts \in Nat /\ 0 < MaxAttempts /\ 0 \in Codes
  BY VerificationAssumption DEF Codes
<1>2. NewRow \in Rows
  BY <1>1 DEF NewRow, Rows, Statuses
<1>3. [k \in Keys |-> NotCached] \in Caches
  BY DEF Caches, NotCached, Statuses
<1> QED
  BY <1>1, <1>2, <1>3 DEF EmptyDisk, Disks

\* An outcome is recorded in a row that still has an attempt.
LEMMA RecordedRow ==
    ASSUME NEW row \in Rows, row.attempts < MaxAttempts, NEW status \in Statuses,
           NEW definitive \in BOOLEAN, NEW revision \in Codes \cup {NoCode}
    PROVE  LET new == Recorded(row, status, definitive, revision)
           IN  /\ new \in Rows /\ new.rule = revision
               /\ new.state # "done" => new.attempts < MaxAttempts
               /\ PosterMatch(new) => status = "matched_poster"
               /\ new.state = "done" /\ new.status \in MATCHED => new.status = status
<1> USE ConstantFacts
<1>1. row.attempts + 1 \in 0 .. MaxAttempts
  BY DEF Rows
<1> QED
  BY <1>1 DEF Recorded, Rows, Statuses, MATCHED, PosterMatch

LEMMA DeferredRow ==
    ASSUME NEW row \in Rows, NEW due \in BOOLEAN, NEW revision \in Codes \cup {NoCode}
    PROVE  LET new == [row EXCEPT !.state = "retry", !.due = due,
                                  !.status = "unavailable", !.rule = revision]
           IN  /\ new \in Rows /\ new.rule = revision
               /\ new.state = "retry" /\ new.attempts = row.attempts
BY DEF Rows, Statuses

LEMMA WarmedRow ==
    ASSUME NEW d \in Disks, NEW i \in Items, NEW revision \in Codes \cup {NoCode}, keyOf \in [Items -> Keys],
           d.items[i].state # "done", d.items[i].attempts < MaxAttempts
    PROVE  LET row == [state |-> "done", due |-> FALSE, attempts |-> d.items[i].attempts + 1,
                       status |-> d.cache[keyOf[i]].status, rule |-> revision]
           IN  /\ row \in Rows
               /\ Warmed(d, i, revision) = [d EXCEPT !.hits[i] = @ + 1, !.items[i] = row]
               /\ Warmed(d, i, revision) \in Disks
<1> USE ConstantFacts
<1> DEFINE row == [state |-> "done", due |-> FALSE, attempts |-> d.items[i].attempts + 1,
                   status |-> d.cache[keyOf[i]].status, rule |-> revision]
<1>1. d.items[i] \in Rows /\ d.cache[keyOf[i]].status \in Statuses
  BY DEF Disks, Caches
<1>2. d.items[i].attempts + 1 \in 0 .. MaxAttempts
  BY <1>1 DEF Rows
<1>3. row \in Rows
  BY <1>1, <1>2 DEF Rows
<1>4. Warmed(d, i, revision) = [d EXCEPT !.hits[i] = @ + 1, !.items[i] = row]
  BY DEF Warmed
<1> HIDE DEF row
<1>5. [d EXCEPT !.hits[i] = @ + 1, !.items[i] = row] \in Disks
  <2> DEFINE hits == [d.hits EXCEPT ![i] = @ + 1]
             items == [d.items EXCEPT ![i] = row]
  <2>1. hits \in [Items -> Nat] /\ items \in [Items -> Rows]
    BY <1>3 DEF Disks
  <2>2. [d EXCEPT !.hits[i] = @ + 1, !.items[i] = row] = [d EXCEPT !.hits = hits, !.items = items]
    OBVIOUS
  <2> HIDE DEF hits, items
  <2>3. [d EXCEPT !.hits = hits, !.items = items] \in Disks
    BY <2>1 DEF Disks
  <2> QED
    BY <2>2, <2>3
<1> QED
  BY <1>3, <1>4, <1>5 DEF row

\* Only a poster of some movie collides, and with more movies it still does.
LEMMA CollidedFacts ==
    ASSUME NEW p, NEW A \in SUBSET Movies, NEW T \in SUBSET Posters
    PROVE  /\ Collided(p, A, T) => p \in Posters
           /\ \A B \in SUBSET Movies : A \subseteq B /\ Collided(p, A, T) => Collided(p, B, T)
<1> DEFINE Owners(S) == {m \in S : p \in Official[m]}
<1>1. p \notin Posters => Owners(A) = {}
  BY DEF Posters
<1>2. Cardinality({}) = 0
  BY FS_EmptySet
<1>3. Collided(p, A, T) => p \in Posters
  BY <1>1, <1>2 DEF Collided
<1>4. ASSUME NEW B \in SUBSET Movies, A \subseteq B, Collided(p, A, T)
      PROVE  Collided(p, B, T)
  <2>1. Owners(A) \subseteq Owners(B) /\ Owners(B) \subseteq Movies
    BY <1>4
  <2>2. IsFiniteSet(Owners(B))
    BY <2>1, VerificationAssumption, FS_Subset
  <2>3. /\ Cardinality(Owners(A)) <= Cardinality(Owners(B))
        /\ Cardinality(Owners(A)) \in Nat /\ Cardinality(Owners(B)) \in Nat
    BY <2>1, <2>2, FS_Subset, FS_CardinalityType
  <2> QED
    BY <1>4, <2>3 DEF Collided
<1> QED
  BY <1>3, <1>4

LEMMA EntombedType ==
    ASSUME NEW d \in Disks, NEW movies \in SUBSET Movies
    PROVE  /\ Entombed(d, movies) \in Disks
           /\ Reopened(d, movies) \in Disks
<1>1. \A i \in Items : CollidedRow(d, i, movies) => Poster(i) \in Posters
  BY CollidedFacts DEF CollidedRow, Disks
<1>2. Entombed(d, movies) \in Disks
  BY <1>1 DEF Entombed, Disks
<1>3. [i \in Items |-> IF i \in {j \in Items : CollidedRow(d, j, movies)} THEN NewRow ELSE d.items[i]]
        \in [Items -> Rows]
  BY ConstantFacts DEF Disks
<1>4. Reopened(d, movies) \in Disks
  <2> DEFINE collided == {i \in Items : CollidedRow(d, i, movies)}
             items == [i \in Items |-> IF i \in collided THEN NewRow ELSE d.items[i]]
             revoked == d.revoked \cup {Poster(i) : i \in collided}
  <2>1. items \in [Items -> Rows] /\ revoked \in SUBSET Posters
    BY <1>1, <1>3 DEF Disks
  <2>2. Reopened(d, movies) = [d EXCEPT !.items = items, !.revoked = revoked]
    BY DEF Reopened
  <2> HIDE DEF items, revoked
  <2> QED
    BY <2>1, <2>2 DEF Disks
<1> QED
  BY <1>2, <1>4

-----------------------------------------------------------------------------
(* Types.                                                                    *)

LEMMA InputType == TypeOK => keyOf \in [Items -> Keys] /\ seed \in Caches
BY VerificationAssumption DEF TypeOK

LEMMA Interrupted ==
    ASSUME NEW n \in 0 .. MaxInterruptions, n < MaxInterruptions
    PROVE  n + 1 \in 0 .. MaxInterruptions
BY VerificationAssumption

LEMMA BeginType == TypeOK /\ Begin => TypeOK'
<1> SUFFICES ASSUME TypeOK, Begin PROVE TypeOK'
  OBVIOUS
<1>1. disk' \in Disks
  BY DEF Begin, TypeOK, Disks
<1> QED
  BY <1>1 DEF Begin, NoMemory, TypeOK, Phases, input

LEMMA TypeStep == IInv /\ [Next]_vars => TypeOK'
<1> SUFFICES ASSUME IInv, [Next]_vars PROVE TypeOK'
  OBVIOUS
<1> USE DEF IInv
<1>1. CASE Deploy
  BY <1>1, VerificationAssumption DEF Deploy, TypeOK, Codes, input, pass, memory
<1>2. ASSUME NEW i \in Items, FallDue(i) PROVE TypeOK'
  <2>0. disk.items[i] \in Rows
    BY DEF TypeOK, Disks
  <2>1. [disk.items[i] EXCEPT !.due = TRUE] \in Rows
    BY <2>0 DEF Rows
  <2>2. [disk.items EXCEPT ![i].due = TRUE] \in [Items -> Rows]
    BY <2>1 DEF TypeOK, Disks
  <2>3. disk' \in Disks
    BY <1>2, <2>2 DEF FallDue, TypeOK, Disks
  <2> QED
    BY <1>2, <2>3 DEF FallDue, TypeOK, input, memory
<1>3. CASE Restore
  BY <1>3, ConstantFacts DEF Restore, TypeOK, input, memory
<1>4. CASE Kill
  <2>1. interruptions' \in 0 .. MaxInterruptions
    BY <1>4, Interrupted DEF Kill, TypeOK
  <2> QED
    BY <1>4, <2>1 DEF Kill, NoMemory, TypeOK, Phases, input
<1>5. CASE Start
  BY <1>5, BeginType DEF Start
<1>6. CASE Freeze
  <2>1. PICK fresh \in SUBSET Keys : warm' \subseteq Items
    BY <1>6 DEF Freeze
  <2> DEFINE movies == {seed[k].movie : k \in Keys} \ {NoMovie}
             tombstones == {Poster(i) : i \in {j \in Items : Collided(Poster(j), movies, {})}}
  <2>2. movies \subseteq Movies
    BY InputType DEF Caches
  <2>3. tombstones \subseteq Posters
    BY <2>2, CollidedFacts
  <2>4. disk' = [disk EXCEPT !.stage = "frozen", !.cache = seed, !.tombstones = tombstones]
    BY <1>6 DEF Freeze
  <2> HIDE DEF tombstones
  <2>5. disk' \in Disks
    BY <2>3, <2>4, InputType DEF TypeOK, Disks
  <2>6. known' = movies
    BY <1>6 DEF Freeze
  <2> QED
    BY <1>6, <2>1, <2>2, <2>5, <2>6 DEF Freeze, TypeOK, Phases, input
<1>7. ASSUME NEW i \in Items, Warm(i) PROVE TypeOK'
  <2>1. disk' \in Disks
    <3>1. CASE disk.items[i].state = "done"
      BY <1>7, <3>1 DEF Warm, Warmed, TypeOK
    <3>2. CASE disk.items[i].state # "done"
      BY <1>7, <3>2, WarmedRow, InputType DEF Warm, TypeOK, CheckpointInv, Sound
    <3> QED
      BY <3>1, <3>2
  <2> QED
    BY <1>7, <2>1 DEF Warm, TypeOK, input
<1>8. CASE Ready
  <2>1. disk' \in Disks
    BY <1>8 DEF Ready, TypeOK, Disks
  <2> QED
    BY <1>8, <2>1 DEF Ready, TypeOK, Phases, input, memory
<1>9. CASE Open
  <2>1. IndexOf(disk) \subseteq Movies
    BY InputType DEF IndexOf, TypeOK, Disks, Caches
  <2>2. known' \subseteq Movies
    BY <1>9, <2>1 DEF Open, TypeOK
  <2>3. disk' \in Disks
    BY <1>9, <2>2, EntombedType DEF Open, TypeOK
  <2> QED
    BY <1>9, <2>2, <2>3 DEF Open, TypeOK, Phases, input
<1>10. CASE Select
  <2>1. disk' \in Disks
    BY <1>10, EntombedType DEF Select, TypeOK
  <2>2. work' \subseteq Groups
    BY <1>10, InputType DEF Select, Groups
  <2> QED
    BY <1>10, <2>1, <2>2 DEF Select, TypeOK, Phases, input
<1>11. ASSUME NEW group \in work, Submit(group) PROVE TypeOK'
  BY <1>11 DEF Submit, TypeOK, input
<1>12. CASE StopSubmitting
  BY <1>12, VerificationAssumption DEF StopSubmitting, TypeOK, input
<1>13. ASSUME NEW group \in running, Verify(group) PROVE TypeOK'
  <2>1. group \in Groups
    BY DEF TypeOK
  <2>2. CASE \E m \in Movies, status \in MATCHED :
              /\ known' = known \cup {m}
              /\ disk' = [disk EXCEPT !.cache[group.key] = [status |-> status, movie |-> m]]
              /\ results' = results \cup {[key |-> group.key, ids |-> group.ids, status |-> status]}
    <3>1. PICK m \in Movies, status \in MATCHED :
              /\ known' = known \cup {m}
              /\ disk' = [disk EXCEPT !.cache[group.key] = [status |-> status, movie |-> m]]
              /\ results' = results \cup {[key |-> group.key, ids |-> group.ids, status |-> status]}
      BY <2>2
    <3>2. [status |-> status, movie |-> m] \in [status : Statuses, movie : Movies \cup {NoMovie}]
      BY DEF MATCHED, Statuses
    <3>3. [disk.cache EXCEPT ![group.key] = [status |-> status, movie |-> m]] \in Caches
      BY <3>2 DEF TypeOK, Disks, Caches
    <3>4. disk' \in Disks
      BY <3>1, <3>3 DEF TypeOK, Disks
    <3>5. results' \subseteq Results /\ known' \subseteq Movies
      BY <2>1, <3>1 DEF TypeOK, Results, Groups, MATCHED, Statuses
    <3> QED
      BY <1>13, <3>4, <3>5 DEF Verify, TypeOK, input
  <2>3. CASE /\ \E status \in {"no_match", "unavailable"} :
                  results' = results \cup {[key |-> group.key, ids |-> group.ids, status |-> status]}
             /\ UNCHANGED <<disk, known>>
    <3>1. results' \subseteq Results
      BY <2>1, <2>3 DEF TypeOK, Results, Groups, Statuses
    <3> QED
      BY <1>13, <2>3, <3>1 DEF Verify, TypeOK, input
  <2> QED
    BY <1>13, <2>2, <2>3 DEF Verify
<1>14. ASSUME NEW r \in results, RecordResult(r) PROVE TypeOK'
  <2>1. PICK definitive \in BOOLEAN :
          disk' = [disk EXCEPT !.items = [i \in Items |->
                     IF i \in r.ids THEN Recorded(@[i], r.status, definitive, using) ELSE @[i]]]
    BY <1>14 DEF RecordResult
  <2>2. \A i \in r.ids : disk.items[i].state # "done"
    BY DEF WorkInv, Undecided
  <2>3. \A i \in Items : i \in r.ids => Recorded(disk.items[i], r.status, definitive, using) \in Rows
    BY <2>2, RecordedRow DEF TypeOK, Results, Disks, CheckpointInv, Sound
  <2>4. [i \in Items |-> IF i \in r.ids THEN Recorded(disk.items[i], r.status, definitive, using)
                         ELSE disk.items[i]] \in [Items -> Rows]
    BY <2>3 DEF TypeOK, Disks
  <2>5. disk' \in Disks
    BY <2>1, <2>4 DEF TypeOK, Disks
  <2> QED
    BY <1>14, <2>5 DEF RecordResult, TypeOK, input
<1>15. ASSUME NEW r \in results, Defer(r) PROVE TypeOK'
  <2>1. PICK due \in BOOLEAN :
          disk' = [disk EXCEPT !.items = [i \in Items |->
                     IF i \in r.ids THEN [@[i] EXCEPT !.state = "retry", !.due = due,
                                                      !.status = "unavailable", !.rule = using]
                     ELSE @[i]]]
    BY <1>15 DEF Defer
  <2>2. [i \in Items |-> IF i \in r.ids THEN [disk.items[i] EXCEPT !.state = "retry", !.due = due,
                                                 !.status = "unavailable", !.rule = using]
                         ELSE disk.items[i]] \in [Items -> Rows]
    BY DeferredRow DEF TypeOK, Disks
  <2>3. disk' \in Disks
    BY <2>1, <2>2 DEF TypeOK, Disks
  <2>4. interruptions' \in 0 .. MaxInterruptions
    BY <1>15, Interrupted DEF Defer, TypeOK
  <2> QED
    BY <1>15, <2>3, <2>4 DEF Defer, TypeOK, input
<1>16. CASE Close
  BY <1>16, EntombedType DEF Close, TypeOK, Phases, input, memory
<1>17. CASE Number
  <2>1. Reopened(disk, known) \in Disks
    BY EntombedType DEF TypeOK
  <2>2. disk' \in Disks
    BY <1>17, <2>1 DEF Number, Disks
  <2> QED
    BY <1>17, <2>2 DEF Number, TypeOK, Phases, input, memory
<1>18. CASE Fail
  <2>1. disk' \in Disks
    BY <1>18 DEF Fail, TypeOK, Disks
  <2> QED
    BY <1>18, <2>1 DEF Fail, TypeOK, Phases, input
<1>19. CASE WriteReport
  <2>1. disk' \in Disks
    BY <1>19 DEF WriteReport, TypeOK, Disks, Reports
  <2> QED
    BY <1>19, <2>1 DEF WriteReport, TypeOK, Phases, input, memory
<1>20. CASE Upload
  BY <1>20 DEF Upload, NoMemory, TypeOK, Phases, input
<1>21. CASE Continue
  <2>1. CASE store.config = code
    BY <1>21, <2>1, BeginType DEF Continue
  <2>2. CASE store.config # code
    BY <1>21, <2>2 DEF Continue, TypeOK, Phases, input, memory
  <2> QED
    BY <2>1, <2>2
<1>22. CASE GiveUp
  BY <1>22 DEF GiveUp, TypeOK, Phases, input, memory
<1>23. CASE UNCHANGED vars
  BY <1>23 DEF vars, input, pass, memory, TypeOK
<1> QED
  BY <1>1, <1>2, <1>3, <1>4, <1>5, <1>6, <1>7, <1>8, <1>9, <1>10, <1>11, <1>12, <1>13, <1>14,
     <1>15, <1>16, <1>17, <1>18, <1>19, <1>20, <1>21, <1>22, <1>23 DEF Next, Batch

-----------------------------------------------------------------------------
(* The invariant holds initially; what no step changes.                      *)

LEMMA EmptySound == Sound(EmptyDisk)
<1>1. /\ \A i \in Items : EmptyDisk.items[i] = NewRow /\ EmptyDisk.hits[i] = 0
      /\ EmptyDisk.stage = "new" /\ EmptyDisk.config = NoCode
      /\ EmptyDisk.revoked = {} /\ EmptyDisk.tombstones = {}
  BY DEF EmptyDisk
<1>2. NewRow.state = "pending" /\ NewRow.attempts = 0 /\ NewRow.rule = NoCode
  BY DEF NewRow
<1> QED
  BY <1>1, <1>2, ConstantFacts DEF Sound, PosterMatch

LEMMA InitInv == Init => IInv
<1> SUFFICES ASSUME Init PROVE IInv
  OBVIOUS
<1>1. TypeOK
  <2>1. 0 \in 0 .. MaxInterruptions
    BY VerificationAssumption
  <2> QED
    BY <2>1, ConstantFacts DEF Init, TypeOK, Phases
<1> QED
  BY <1>1, EmptySound DEF Init, IInv, CheckpointInv, PhaseInv, WorkInv, PosterInv, ReportInv,
     CollisionsReopened

LEMMA KeysStay == [Next]_vars => keyOf' = keyOf
BY DEF Next, Deploy, FallDue, Restore, Kill, Start, Begin, Batch, Freeze, Warm, Ready, Open, Select,
   Submit, StopSubmitting, Verify, RecordResult, Defer, Close, Number, Fail, WriteReport,
   Upload, Continue, GiveUp, vars, input

LEMMA SoundPrimed ==
    ASSUME keyOf' = keyOf
    PROVE  /\ Sound(disk') => Sound(disk)'
           /\ Sound(store') => Sound(store)'
BY DEF Sound, Poster, PosterMatch

\* What a checkpoint's soundness does not depend on.
LEMMA StaysSound ==
    ASSUME NEW d, NEW e, Sound(d),
           e.items = d.items, e.hits = d.hits, e.stage = d.stage, e.config = d.config,
           e.revoked = d.revoked, d.tombstones \subseteq e.tombstones
    PROVE  Sound(e)
BY DEF Sound

\* A reopened match leaves a sound checkpoint once its poster is saved.
LEMMA ReopenedSound ==
    ASSUME NEW d \in Disks, NEW movies, Sound(d), d.stage = "ready",
           \A i \in Items : CollidedRow(d, i, movies) => Poster(i) \in d.tombstones
    PROVE  /\ Sound(Reopened(d, movies))
           /\ \A i \in Items : ~CollidedRow(Reopened(d, movies), i, movies)
<1> DEFINE collided == {i \in Items : CollidedRow(d, i, movies)}
           e == Reopened(d, movies)
<1>1. /\ e.items = [i \in Items |-> IF i \in collided THEN NewRow ELSE d.items[i]]
      /\ e.revoked = d.revoked \cup {Poster(i) : i \in collided}
      /\ e.hits = d.hits /\ e.stage = d.stage /\ e.config = d.config
      /\ e.tombstones = d.tombstones
  BY DEF Reopened, Disks
<1> HIDE DEF e
<1>2. \A i \in Items : i \in collided => e.items[i] = NewRow
  BY <1>1
<1>3. \A i \in Items : i \notin collided => e.items[i] = d.items[i]
  BY <1>1
<1>4. e.revoked \subseteq d.tombstones
  BY <1>1 DEF Sound
<1>5. NewRow.state = "pending" /\ NewRow.rule = NoCode /\ NewRow.attempts = 0
  BY DEF NewRow
<1>6. \A i \in Items : PosterMatch(e.items[i]) =>
        /\ i \notin collided /\ PosterMatch(d.items[i])
        /\ Poster(i) \notin d.tombstones
  BY <1>2, <1>3, <1>5 DEF PosterMatch, CollidedRow, Collided
<1>7. Sound(e)
  <2>1. \A i \in Items : e.items[i].rule \in {NoCode, e.config}
    BY <1>1, <1>2, <1>3, <1>5 DEF Sound
  <2>2. \A i \in Items : e.items[i].state # "done" => e.items[i].attempts < MaxAttempts
    BY <1>2, <1>3, <1>5, ConstantFacts DEF Sound
  <2> QED
    BY <1>1, <1>4, <1>6, <2>1, <2>2 DEF Sound
<1>8. \A i \in Items : ~CollidedRow(e, i, movies)
  BY <1>1, <1>2, <1>3, <1>5 DEF CollidedRow, Collided
<1> QED
  BY <1>7, <1>8 DEF e

-----------------------------------------------------------------------------
(* CheckpointInv.                                                            *)

LEMMA BeginSound ==
    ASSUME TypeOK, CheckpointInv, Begin
    PROVE  Sound(disk')
<1>1. CASE disk.stage = "ready"
  BY <1>1 DEF Begin, CheckpointInv
<1>2. CASE disk.stage # "ready"
  <2>1. /\ disk'.items = disk.items /\ disk'.hits = disk.hits
        /\ disk'.revoked = disk.revoked /\ disk'.tombstones = disk.tombstones
        /\ disk'.stage \notin {"new", "ready"}
        /\ disk.stage # "new" => disk'.config = disk.config
    BY <1>2 DEF Begin, TypeOK, Disks
  <2> QED
    BY <1>2, <2>1 DEF CheckpointInv, Sound
<1> QED
  BY <1>1, <1>2

LEMMA CheckpointStep == IInv /\ [Next]_vars => CheckpointInv'
<1> SUFFICES ASSUME IInv, [Next]_vars PROVE CheckpointInv'
  OBVIOUS
<1> USE DEF IInv
<1>1. SUFFICES Sound(disk') /\ (store' # NoState => Sound(store'))
  BY KeysStay, SoundPrimed DEF CheckpointInv
<1>a. Sound(disk) /\ disk \in Disks /\ (store # NoState => Sound(store))
  BY DEF CheckpointInv, TypeOK
<1>2. CASE Deploy \/ Kill \/ StopSubmitting \/ GiveUp \/ UNCHANGED vars
  BY <1>2, <1>a DEF Deploy, Kill, StopSubmitting, GiveUp, vars, pass
<1>3. ASSUME NEW i \in Items, FallDue(i) PROVE Sound(disk') /\ store' = store
  <2>1. /\ disk'.hits = disk.hits /\ disk'.stage = disk.stage /\ disk'.config = disk.config
        /\ disk'.revoked = disk.revoked /\ disk'.tombstones = disk.tombstones
    BY <1>3, <1>a DEF FallDue, Disks
  <2>2. \A j \in Items : /\ disk'.items[j].rule = disk.items[j].rule
                         /\ disk'.items[j].state = disk.items[j].state
                         /\ disk'.items[j].status = disk.items[j].status
                         /\ disk'.items[j].attempts = disk.items[j].attempts
    BY <1>3, <1>a DEF FallDue, Disks, Rows
  <2> QED
    BY <1>3, <1>a, <2>1, <2>2 DEF Sound, PosterMatch, FallDue
<1>4. CASE Restore
  BY <1>4, <1>a, EmptySound DEF Restore
<1>5. CASE Start
  BY <1>5, <1>a, BeginSound DEF Start, Begin
<1>6. CASE Freeze
  <2>1. /\ disk'.items = disk.items /\ disk'.hits = disk.hits /\ disk'.config = disk.config
        /\ disk'.revoked = disk.revoked /\ disk'.stage = "frozen"
    BY <1>6, <1>a DEF Freeze, Disks
  <2>2. disk.stage \in {"initializing", "frozen"} /\ store' = store
    BY <1>6 DEF Freeze, PhaseInv
  <2> QED
    BY <1>a, <2>1, <2>2 DEF Sound
<1>7. ASSUME NEW i \in Items, Warm(i) PROVE Sound(disk') /\ store' = store
  <2>1. disk.stage = "frozen" /\ using = disk.config /\ store' = store
    BY <1>7 DEF Warm, PhaseInv
  <2>2. CASE disk.items[i].state = "done"
    BY <1>7, <1>a, <2>1, <2>2 DEF Warm, Warmed
  <2>3. CASE disk.items[i].state # "done"
    <3> DEFINE row == [state |-> "done", due |-> FALSE, attempts |-> disk.items[i].attempts + 1,
                       status |-> disk.cache[keyOf[i]].status, rule |-> using]
    <3>1. disk' = [disk EXCEPT !.hits[i] = @ + 1, !.items[i] = row]
      BY <1>7, <2>3 DEF Warm, Warmed
    <3>2. row.state = "done" /\ row.rule = disk.config
      BY <2>1
    <3> HIDE DEF row
    <3>3. /\ disk'.stage = disk.stage /\ disk'.config = disk.config
          /\ disk'.revoked = disk.revoked /\ disk'.tombstones = disk.tombstones
          /\ disk'.items = [disk.items EXCEPT ![i] = row]
          /\ disk'.hits = [disk.hits EXCEPT ![i] = @ + 1]
      BY <3>1, <1>a DEF Disks
    <3>4. \A j \in Items : /\ j # i => disk'.items[j] = disk.items[j] /\ disk'.hits[j] = disk.hits[j]
                           /\ disk'.items[i] = row /\ disk'.hits[i] = disk.hits[i] + 1
      BY <3>3, <1>a DEF Disks
    <3>5. disk.hits[i] = 0 /\ disk.revoked = {}
      BY <2>1, <2>3, <1>a DEF Sound
    <3>6. disk'.hits[i] = 1 /\ disk'.items[i] = row
      BY <3>4, <3>5
    <3> QED
      BY <1>a, <2>1, <3>2, <3>3, <3>4, <3>5, <3>6 DEF Sound
  <2> QED
    BY <2>1, <2>2, <2>3
<1>8. CASE Ready
  <2>1. /\ disk'.items = disk.items /\ disk'.hits = disk.hits /\ disk'.config = disk.config
        /\ disk'.revoked = disk.revoked /\ disk'.stage = "ready"
        /\ disk'.tombstones = disk.tombstones /\ store' = store
    BY <1>8, <1>a DEF Ready, Disks
  <2> QED
    BY <1>a, <2>1 DEF Sound
<1>9. CASE Open \/ Close
  <2>1. PICK movies : disk' = Entombed(disk, movies) /\ store' = store
    BY <1>9 DEF Open, Close
  <2>2. /\ disk'.items = disk.items /\ disk'.hits = disk.hits /\ disk'.config = disk.config
        /\ disk'.revoked = disk.revoked /\ disk'.stage = disk.stage
        /\ disk.tombstones \subseteq disk'.tombstones
    BY <2>1, <1>a DEF Entombed, Disks
  <2> QED
    BY <1>a, <2>1, <2>2, StaysSound
<1>10. CASE Select
  BY <1>10, <1>a, ReopenedSound DEF Select, PhaseInv, PosterInv
<1>11. CASE Number
  <2>1. /\ Sound(Reopened(disk, known)) /\ Reopened(disk, known) \in Disks /\ store' = store
    BY <1>11, <1>a, ReopenedSound, EntombedType DEF Number, PhaseInv, PosterInv, TypeOK
  <2> DEFINE d == Reopened(disk, known)
  <2>2. disk' = [d EXCEPT !.ahead = TRUE]
    BY <1>11 DEF Number
  <2>3. d \in Disks /\ Sound(d)
    BY <2>1
  <2> HIDE DEF d
  <2>4. /\ disk'.items = d.items /\ disk'.hits = d.hits /\ disk'.config = d.config
        /\ disk'.revoked = d.revoked /\ disk'.stage = d.stage
        /\ disk'.tombstones = d.tombstones
    BY <2>2, <2>3 DEF Disks
  <2> QED
    BY <1>a, <2>1, <2>3, <2>4, StaysSound
<1>12. ASSUME NEW group \in work, Submit(group) PROVE Sound(disk') /\ store' = store
  BY <1>12, <1>a DEF Submit
<1>13. ASSUME NEW group \in running, Verify(group) PROVE Sound(disk') /\ store' = store
  <2>1. /\ disk'.items = disk.items /\ disk'.hits = disk.hits /\ disk'.config = disk.config
        /\ disk'.revoked = disk.revoked /\ disk'.stage = disk.stage
        /\ disk'.tombstones = disk.tombstones
    BY <1>13, <1>a DEF Verify, Disks
  <2> QED
    BY <1>13, <1>a, <2>1, StaysSound DEF Verify
<1>14. ASSUME NEW r \in results, RecordResult(r) PROVE Sound(disk') /\ store' = store
  <2>1. PICK definitive \in BOOLEAN :
          disk' = [disk EXCEPT !.items = [i \in Items |->
                     IF i \in r.ids THEN Recorded(@[i], r.status, definitive, using) ELSE @[i]]]
    BY <1>14 DEF RecordResult
  <2>2. /\ disk'.hits = disk.hits /\ disk'.config = disk.config
        /\ disk'.revoked = disk.revoked /\ disk'.stage = disk.stage
        /\ disk'.tombstones = disk.tombstones
        /\ \A i \in Items : disk'.items[i] =
             IF i \in r.ids THEN Recorded(disk.items[i], r.status, definitive, using) ELSE disk.items[i]
    BY <2>1, <1>a DEF Disks
  <2>3. using = disk.config /\ disk.stage = "ready" /\ store' = store
    BY <1>14 DEF RecordResult, PhaseInv
  <2>4. \A i \in r.ids : disk.items[i].state # "done" /\ keyOf[i] = r.key
    BY DEF WorkInv, Undecided
  <2>5. r.status \in Statuses /\ r.ids \subseteq Items /\ using \in Codes \cup {NoCode}
    BY DEF TypeOK, Results
  <2>6. \A i \in r.ids :
          /\ disk'.items[i].rule = using
          /\ disk'.items[i].state # "done" => disk'.items[i].attempts < MaxAttempts
          /\ PosterMatch(disk'.items[i]) => r.status = "matched_poster"
    <3> TAKE i \in r.ids
    <3>1. disk.items[i] \in Rows /\ disk.items[i].attempts < MaxAttempts
      BY <1>a, <2>4, <2>5 DEF Disks, Sound
    <3>2. disk'.items[i] = Recorded(disk.items[i], r.status, definitive, using)
      BY <2>2, <2>5
    <3> QED
      BY <2>5, <3>1, <3>2, RecordedRow
  <2>7. \A i \in r.ids : PosterMatch(disk'.items[i]) => Poster(i) \notin disk.revoked
    BY <1>a, <2>4, <2>6 DEF PosterInv, Poster, Sound
  <2> QED
    BY <1>a, <2>2, <2>3, <2>6, <2>7 DEF Sound
<1>15. ASSUME NEW r \in results, Defer(r) PROVE Sound(disk') /\ store' = store
  <2>1. PICK due \in BOOLEAN :
          disk' = [disk EXCEPT !.items = [i \in Items |->
                     IF i \in r.ids THEN [@[i] EXCEPT !.state = "retry", !.due = due,
                                                      !.status = "unavailable", !.rule = using]
                     ELSE @[i]]]
    BY <1>15 DEF Defer
  <2>2. /\ disk'.hits = disk.hits /\ disk'.config = disk.config
        /\ disk'.revoked = disk.revoked /\ disk'.stage = disk.stage
        /\ disk'.tombstones = disk.tombstones
        /\ \A i \in Items : disk'.items[i] =
             IF i \in r.ids THEN [disk.items[i] EXCEPT !.state = "retry", !.due = due,
                                     !.status = "unavailable", !.rule = using]
             ELSE disk.items[i]
    BY <2>1, <1>a DEF Disks
  <2>3. using = disk.config /\ disk.stage = "ready" /\ store' = store
    BY <1>15 DEF Defer, PhaseInv
  <2>4. \A i \in r.ids : disk.items[i].state # "done"
    BY DEF WorkInv, Undecided
  <2>5. r.ids \subseteq Items /\ using \in Codes \cup {NoCode}
    BY DEF TypeOK, Results
  <2>6. \A i \in r.ids :
          /\ disk'.items[i].rule = using /\ disk'.items[i].state = "retry"
          /\ disk'.items[i].attempts < MaxAttempts
    <3> TAKE i \in r.ids
    <3>1. disk.items[i] \in Rows /\ disk.items[i].attempts < MaxAttempts
      BY <1>a, <2>4, <2>5 DEF Disks, Sound
    <3>2. disk'.items[i] = [disk.items[i] EXCEPT !.state = "retry", !.due = due,
                               !.status = "unavailable", !.rule = using]
      BY <2>2, <2>5
    <3> QED
      BY <2>3, <3>1, <3>2, ConstantFacts DEF Rows
  <2> QED
    BY <1>a, <2>2, <2>3, <2>6 DEF Sound, PosterMatch
<1>16. CASE Fail \/ WriteReport
  <2>1. /\ disk'.items = disk.items /\ disk'.hits = disk.hits /\ disk'.config = disk.config
        /\ disk'.revoked = disk.revoked /\ disk'.stage = disk.stage
        /\ disk'.tombstones = disk.tombstones /\ store' = store
    BY <1>16, <1>a DEF Fail, WriteReport, Disks
  <2> QED
    BY <1>a, <2>1, StaysSound
<1>17. CASE Upload
  BY <1>17, <1>a DEF Upload
<1>18. CASE Continue
  <2>1. CASE store.config = code
    BY <1>18, <1>a, <2>1, BeginSound DEF Continue, Begin
  <2>2. CASE store.config # code
    BY <1>18, <1>a, <2>2 DEF Continue
  <2> QED
    BY <2>1, <2>2
<1> QED
  BY <1>a, <1>2, <1>3, <1>4, <1>5, <1>6, <1>7, <1>8, <1>9, <1>10, <1>11, <1>12, <1>13, <1>14, <1>15,
     <1>16, <1>17, <1>18 DEF Next, Batch

-----------------------------------------------------------------------------
(* PhaseInv.                                                                 *)

LEMMA BeginPhase ==
    ASSUME TypeOK, Begin, ConfigAgrees(disk, code)
    PROVE  PhaseInv'
<1>1. CASE disk.stage = "ready"
  BY <1>1 DEF Begin, ConfigAgrees, PhaseInv
<1>2. CASE disk.stage # "ready"
  <2>1. /\ disk'.stage = IF disk.stage = "new" THEN "initializing" ELSE disk.stage
        /\ disk'.config = IF disk.stage = "new" THEN code ELSE disk.config
    BY <1>2 DEF Begin, TypeOK, Disks
  <2>2. disk.stage \in {"new", "initializing", "frozen", "ready"}
    BY DEF TypeOK, Disks
  <2> QED
    BY <1>2, <2>1, <2>2 DEF Begin, ConfigAgrees, PhaseInv
<1> QED
  BY <1>1, <1>2

LEMMA PhaseStep == IInv /\ [Next]_vars => PhaseInv'
<1> SUFFICES ASSUME IInv, [Next]_vars PROVE PhaseInv'
  OBVIOUS
<1>a. PhaseInv /\ TypeOK /\ disk \in Disks
  BY DEF IInv, TypeOK
<1> DEFINE Stays == disk'.stage = disk.stage /\ disk'.config = disk.config
<1>1. CASE Deploy \/ Kill \/ StopSubmitting \/ GiveUp \/ UNCHANGED vars
  BY <1>1, <1>a DEF Deploy, Kill, StopSubmitting, GiveUp, vars, pass, PhaseInv
<1>2. ASSUME NEW i \in Items, FallDue(i) PROVE PhaseInv'
  <2>1. Stays
    BY <1>2, <1>a DEF FallDue, Disks
  <2> QED
    BY <1>2, <1>a, <2>1 DEF FallDue, PhaseInv
<1>3. CASE Restore
  BY <1>3, <1>a DEF Restore, PhaseInv
<1>4. CASE Start
  BY <1>4, <1>a, BeginPhase DEF Start
<1>5. CASE Freeze
  <2>1. disk'.stage = "frozen" /\ disk'.config = disk.config
    BY <1>5, <1>a DEF Freeze, Disks
  <2> QED
    BY <1>5, <1>a, <2>1 DEF Freeze, PhaseInv
<1>6. ASSUME NEW i \in Items, Warm(i) PROVE PhaseInv'
  <2>1. Stays
    BY <1>6, <1>a DEF Warm, Warmed, Disks
  <2> QED
    BY <1>6, <1>a, <2>1 DEF Warm, PhaseInv
<1>7. CASE Ready
  <2>1. disk'.stage = "ready" /\ disk'.config = disk.config
    BY <1>7, <1>a DEF Ready, Disks
  <2> QED
    BY <1>7, <1>a, <2>1 DEF Ready, PhaseInv
<1>8. CASE Open \/ Close
  <2>1. Stays
    BY <1>8, <1>a DEF Open, Close, Entombed, Disks
  <2> QED
    BY <1>8, <1>a, <2>1 DEF Open, Close, PhaseInv
<1>9. CASE Select \/ Number
  <2>1. Stays
    BY <1>9, <1>a DEF Select, Number, Reopened, Disks
  <2> QED
    BY <1>9, <1>a, <2>1 DEF Select, Number, PhaseInv
<1>10. ASSUME NEW group \in work, Submit(group) PROVE PhaseInv'
  BY <1>10, <1>a DEF Submit, PhaseInv
<1>11. ASSUME NEW group \in running, Verify(group) PROVE PhaseInv'
  <2>1. Stays
    BY <1>11, <1>a DEF Verify, Disks
  <2> QED
    BY <1>11, <1>a, <2>1 DEF Verify, PhaseInv
<1>12. ASSUME NEW r \in results, RecordResult(r) \/ Defer(r) PROVE PhaseInv'
  <2>1. Stays
    BY <1>12, <1>a DEF RecordResult, Defer, Disks
  <2> QED
    BY <1>12, <1>a, <2>1 DEF RecordResult, Defer, PhaseInv
<1>13. CASE Fail \/ WriteReport
  <2>1. Stays
    BY <1>13, <1>a DEF Fail, WriteReport, Disks
  <2> QED
    BY <1>13, <1>a, <2>1 DEF Fail, WriteReport, PhaseInv
<1>14. CASE Upload
  BY <1>14, <1>a DEF Upload, PhaseInv
<1>15. CASE Continue
  <2>1. CASE store.config = code
    BY <1>15, <1>a, <2>1, BeginPhase DEF Continue, PhaseInv, ConfigAgrees
  <2>2. CASE store.config # code
    BY <1>15, <1>a, <2>2 DEF Continue, PhaseInv
  <2> QED
    BY <2>1, <2>2
<1> QED
  BY <1>1, <1>2, <1>3, <1>4, <1>5, <1>6, <1>7, <1>8, <1>9, <1>10, <1>11, <1>12, <1>13, <1>14, <1>15
     DEF Next, Batch

-----------------------------------------------------------------------------
(* WorkInv.                                                                  *)

\* Without a batch's work there is nothing to say of it.
LEMMA NoWork ==
    ASSUME work' = {}, running' = {}, results' = {}
    PROVE  WorkInv'
BY DEF WorkInv

LEMMA WorkStep == IInv /\ [Next]_vars => WorkInv'
<1> SUFFICES ASSUME IInv, [Next]_vars PROVE WorkInv'
  OBVIOUS
<1>a. WorkInv /\ TypeOK /\ disk \in Disks /\ keyOf' = keyOf
  BY KeysStay DEF IInv, TypeOK
<1>b. work \subseteq Groups /\ running \subseteq Groups /\ results \subseteq Results
  BY <1>a DEF TypeOK
<1>1. CASE phase # "working" /\ ~Select
  <2>1. work = {} /\ running = {} /\ results = {}
    BY <1>1, <1>a DEF WorkInv
  <2>2. work' = {} /\ running' = {} /\ results' = {}
    BY <1>1, <2>1 DEF Next, Batch, Deploy, FallDue, Restore, Kill, Start, Begin, Freeze, Warm, Ready,
       Open, Submit, StopSubmitting, Verify, RecordResult, Defer, Close, Number, Fail, WriteReport,
       Upload, Continue, GiveUp, NoMemory, vars, pass, memory
  <2> QED
    BY <2>2, NoWork
<1>2. CASE Select
  <2> DEFINE due == {i \in Items : Due(disk'.items[i])}
             Group(i) == [key |-> keyOf[i], ids |-> {j \in due : keyOf[j] = keyOf[i]}]
  <2>1. PICK S \in SUBSET due : work' = {Group(i) : i \in S}
    BY <1>2 DEF Select
  <2>2. running' = {} /\ results' = {} /\ phase' = "working"
    BY <1>2, <1>a DEF Select, WorkInv
  <2>3. \A i \in due : disk'.items[i].state # "done"
    BY DEF Due
  <2>4. \A g \in work' : \A i \in g.ids : disk'.items[i].state # "done" /\ keyOf[i] = g.key
    BY <2>1, <2>3
  <2>5. ASSUME NEW g \in work', NEW h \in work', g.key = h.key PROVE g = h
    <3>1. PICK i \in S : g = Group(i)
      BY <2>1
    <3>2. PICK j \in S : h = Group(j)
      BY <2>1
    <3>3. keyOf[i] = keyOf[j]
      BY <2>5, <3>1, <3>2
    <3> QED
      BY <3>1, <3>2, <3>3
  <2> QED
    BY <1>a, <2>2, <2>4, <2>5 DEF WorkInv, Undecided
<1>3. CASE (Kill \/ Fail) /\ phase = "working"
  BY <1>3, NoWork DEF Kill, Fail, NoMemory
<1>4. CASE Deploy \/ UNCHANGED vars
  BY <1>4, <1>a DEF Deploy, vars, pass, memory, WorkInv, Undecided
<1>5. ASSUME NEW i \in Items, FallDue(i) PROVE WorkInv'
  <2>1. \A j \in Items : disk'.items[j].state = disk.items[j].state
    BY <1>5, <1>a DEF FallDue, Disks, Rows
  <2>2. \A g \in work \cup running \cup results : g.ids \subseteq Items
    BY <1>b DEF Groups, Results
  <2> QED
    BY <1>5, <1>a, <2>1, <2>2 DEF FallDue, memory, WorkInv, Undecided
<1>6. ASSUME NEW group \in work, Submit(group) PROVE WorkInv'
  <2>1. /\ work' = work \ {group} /\ running' = running \cup {group} /\ results' = results
        /\ disk' = disk /\ phase' = "working"
    BY <1>6 DEF Submit
  <2>2. work' \cup running' = work \cup running
    BY <2>1
  <2>3. work' \cap running' = {}
    BY <2>1, <1>a DEF WorkInv
  <2> QED
    BY <1>a, <2>1, <2>2, <2>3 DEF WorkInv, Undecided
<1>7. CASE StopSubmitting
  BY <1>7, <1>a DEF StopSubmitting, WorkInv, Undecided
<1>8. ASSUME NEW group \in running, Verify(group) PROVE WorkInv'
  <2>1. PICK status \in Statuses :
          results' = results \cup {[key |-> group.key, ids |-> group.ids, status |-> status]}
    BY <1>8 DEF Verify, MATCHED, Statuses
  <2> DEFINE new == [key |-> group.key, ids |-> group.ids, status |-> status]
  <2>2. /\ work' = work /\ running' = running \ {group} /\ results' = results \cup {new}
        /\ phase' = "working" /\ new.key = group.key /\ new.ids = group.ids
    BY <1>8, <2>1 DEF Verify
  <2>3. disk'.items = disk.items
    BY <1>8, <1>a DEF Verify, Disks
  <2> HIDE DEF new
  <2>4. \A g \in work' \cup running' : g # group /\ g.key # new.key
    BY <2>2, <1>a DEF WorkInv
  <2>5. \A r \in results : r.key # new.key
    BY <2>2, <1>a DEF WorkInv
  <2>6. \A g \in work' \cup running' \cup results' : Undecided(g)'
    BY <2>2, <2>3, <1>a DEF WorkInv, Undecided
  <2> QED
    BY <1>a, <2>2, <2>4, <2>5, <2>6 DEF WorkInv
<1>9. ASSUME NEW r \in results, RecordResult(r) \/ Defer(r) PROVE WorkInv'
  <2>1. /\ results' = results \ {r} /\ work' = work /\ running' = running /\ phase' = "working"
    BY <1>9 DEF RecordResult, Defer
  <2>2. \A i \in Items : i \notin r.ids => disk'.items[i] = disk.items[i]
    <3>1. CASE RecordResult(r)
      BY <3>1, <1>a DEF RecordResult, Disks
    <3>2. CASE Defer(r)
      BY <3>2, <1>a DEF Defer, Disks
    <3> QED
      BY <1>9, <3>1, <3>2
  <2>3. \A g \in work' \cup running' \cup results' :
          /\ g.key # r.key /\ g.ids \subseteq Items
          /\ g \in work \cup running \cup results
    BY <2>1, <1>a, <1>b DEF WorkInv, Groups, Results
  <2>4. \A g \in work' \cup running' \cup results' : \A i \in g.ids : i \notin r.ids
    BY <2>3, <1>a DEF WorkInv, Undecided
  <2>5. \A g \in work' \cup running' \cup results' : Undecided(g)'
    BY <2>2, <2>3, <2>4, <1>a DEF WorkInv, Undecided
  <2> QED
    BY <1>a, <2>1, <2>5 DEF WorkInv
<1>10. CASE Close
  BY <1>10, NoWork DEF Close, memory
<1> QED
  BY <1>1, <1>2, <1>3, <1>4, <1>5, <1>6, <1>7, <1>8, <1>9, <1>10
     DEF Next, Batch, Restore, Start, Freeze, Warm, Ready, Open, Number, WriteReport, Upload,
     Continue, GiveUp

-----------------------------------------------------------------------------
(* PosterInv, ReportInv and CollisionsReopened.                              *)

Accepted(row) == row.state = "done" /\ row.status \in MATCHED

\* A checkpoint with the same cache and no further accepted match proves no
\* further movie, and no further poster match collides.
LEMMA NoFurtherProofs ==
    ASSUME NEW d, NEW e, NEW movies, e.cache = d.cache, e.tombstones = d.tombstones,
           \A i \in Items : Accepted(e.items[i]) => /\ Accepted(d.items[i])
                                                    /\ e.items[i].status = d.items[i].status
    PROVE  /\ IndexOf(e) \subseteq IndexOf(d)
           /\ \A i \in Items : CollidedRow(e, i, movies) => CollidedRow(d, i, movies)
BY DEF IndexOf, CollidedRow, Accepted, MATCHED

\* Saving the collisions changes neither the index nor, once saved, what collides.
LEMMA EntombedKeeps ==
    ASSUME NEW d \in Disks, NEW movies
    PROVE  /\ Entombed(d, movies).items = d.items /\ Entombed(d, movies).cache = d.cache
           /\ IndexOf(Entombed(d, movies)) = IndexOf(d)
           /\ \A i \in Items : CollidedRow(Entombed(d, movies), i, movies) =>
                                  Poster(i) \in Entombed(d, movies).tombstones
<1> DEFINE e == Entombed(d, movies)
<1>1. /\ e.items = d.items /\ e.cache = d.cache
      /\ e.tombstones = d.tombstones \cup {Poster(i) : i \in {j \in Items : CollidedRow(d, j, movies)}}
  BY DEF Entombed, Disks
<1> HIDE DEF e
<1>2. IndexOf(e) = IndexOf(d)
  BY <1>1 DEF IndexOf
<1>3. ASSUME NEW i \in Items, CollidedRow(e, i, movies), Poster(i) \notin e.tombstones
      PROVE  FALSE
  BY <1>1, <1>3 DEF CollidedRow, Collided
<1> QED
  BY <1>1, <1>2, <1>3 DEF e

LEMMA ReopenedKeeps ==
    ASSUME NEW d \in Disks, NEW movies
    PROVE  IndexOf(Reopened(d, movies)) \subseteq IndexOf(d)
<1> DEFINE collided == {i \in Items : CollidedRow(d, i, movies)}
           e == Reopened(d, movies)
<1>1. /\ e.items = [i \in Items |-> IF i \in collided THEN NewRow ELSE d.items[i]]
      /\ e.cache = d.cache /\ e.tombstones = d.tombstones
  BY DEF Reopened, Disks
<1> HIDE DEF e
<1>2. NewRow.state # "done"
  BY DEF NewRow
<1>3. \A i \in Items : Accepted(e.items[i]) => e.items[i] = d.items[i]
  BY <1>1, <1>2 DEF Accepted
<1>4. IndexOf(e) \subseteq IndexOf(d)
  BY <1>1, <1>3, NoFurtherProofs
<1> QED
  BY <1>4 DEF e

\* The same checkpoint, seen after a step.
LEMMA SameKeys ==
    ASSUME keyOf' = keyOf
    PROVE  /\ IndexOf(disk)' = IndexOf(disk') /\ IndexOf(store)' = IndexOf(store')
           /\ \A i \in Items : Poster(i)' = Poster(i)
           /\ \A i \in Items : CollidedRow(disk, i, known)' <=> CollidedRow(disk', i, known')
           /\ \A i \in Items : CollidedRow(store, i, IndexOf(store))'
                                  <=> CollidedRow(store', i, IndexOf(store'))
BY DEF IndexOf, Poster, CollidedRow

\* What the three invariants say of the two states, over unchanged keys.
PosterNext ==
    /\ phase' \in {"reopening", "working", "closing"} => IndexOf(disk') \subseteq known'
    /\ phase' \in {"reopening", "closing"} =>
         \A i \in Items : CollidedRow(disk', i, known') => Poster(i) \in disk'.tombstones
    /\ \A r \in results' :
         /\ r.status \in MATCHED => disk'.cache[r.key].movie \in known'
         /\ r.status = "matched_poster" => PosterOf[r.key] \notin disk'.tombstones

ReportNext ==
    /\ phase' \in {"numbered", "reported"} /\ fatal' = "none" =>
         /\ IndexOf(disk') \subseteq known'
         /\ \A i \in Items : ~CollidedRow(disk', i, known')
    /\ phase' = "reported" => disk'.report.fatal = (fatal' # "none")

LEMMA NextMeans ==
    ASSUME keyOf' = keyOf
    PROVE  (PosterNext => PosterInv') /\ (ReportNext => ReportInv')
BY SameKeys DEF PosterNext, ReportNext, PosterInv, ReportInv

LEMMA PosterStep == IInv /\ [Next]_vars => PosterInv' /\ ReportInv'
<1> SUFFICES ASSUME IInv, [Next]_vars PROVE PosterNext /\ ReportNext
  BY KeysStay, NextMeans
<1>a. PosterInv /\ ReportInv /\ WorkInv /\ PhaseInv /\ TypeOK /\ disk \in Disks
  BY DEF IInv, TypeOK
<1>b. known \subseteq Movies /\ disk.tombstones \subseteq Posters
  BY <1>a DEF TypeOK, Disks
<1>c. phase # "working" => results = {}
  BY <1>a DEF WorkInv
<1> DEFINE Goal == PosterNext /\ ReportNext
\* Steps that end, restart or initialize a batch.
<1>1. CASE phase' \in {"stopped", "initializing", "warming", "opening", "continuing"} /\ results' = {}
  BY <1>1 DEF PosterNext, ReportNext
<1>2. CASE Restore \/ GiveUp \/ Ready
  <2>1. phase' \in {"stopped", "opening"} /\ results' = {}
    BY <1>2, <1>c DEF Restore, GiveUp, Ready, memory
  <2> QED
    BY <1>1, <2>1
<1>3. CASE Kill \/ Start \/ Upload \/ Continue
  <2>1. phase' \in {"stopped", "initializing", "opening", "continuing"} /\ results' = {}
    BY <1>3, <1>c DEF Kill, Start, Upload, Continue, Begin, NoMemory, memory
  <2> QED
    BY <1>1, <2>1
<1>4. CASE Freeze \/ \E i \in Items : Warm(i)
  <2>1. phase' = "warming" /\ results' = {}
    BY <1>4, <1>c DEF Freeze, Warm
  <2> QED
    BY <1>1, <2>1
<1>5. CASE Deploy \/ UNCHANGED vars
  BY <1>5, <1>a DEF Deploy, vars, pass, memory, PosterNext, ReportNext, PosterInv, ReportInv
<1>6. ASSUME NEW i \in Items, FallDue(i) PROVE Goal
  <2>1. /\ disk'.cache = disk.cache /\ disk'.tombstones = disk.tombstones
        /\ disk'.report = disk.report
    BY <1>6, <1>a DEF FallDue, Disks
  <2>2. \A j \in Items : disk'.items[j].state = disk.items[j].state
                         /\ disk'.items[j].status = disk.items[j].status
    BY <1>6, <1>a DEF FallDue, Disks, Rows
  <2>3. /\ IndexOf(disk') \subseteq IndexOf(disk)
        /\ \A j \in Items : CollidedRow(disk', j, known) => CollidedRow(disk, j, known)
    BY <2>1, <2>2, NoFurtherProofs DEF Accepted
  <2>4. known' = known /\ phase' = phase /\ results' = results /\ fatal' = fatal
    BY <1>6 DEF FallDue, memory
  <2> QED
    BY <1>a, <2>1, <2>3, <2>4 DEF PosterNext, ReportNext, PosterInv, ReportInv
<1>7. CASE Open
  <2>1. /\ known' = known \cup IndexOf(disk) /\ disk' = Entombed(disk, known')
        /\ phase' = "reopening" /\ results' = {}
    BY <1>7, <1>c DEF Open
  <2> QED
    BY <1>a, <2>1, EntombedKeeps DEF PosterNext, ReportNext
<1>8. CASE Select
  <2>1. /\ known' = known /\ disk' = Reopened(disk, known)
        /\ phase = "reopening" /\ phase' = "working" /\ results' = {}
    BY <1>8, <1>c DEF Select
  <2> QED
    BY <1>a, <2>1, ReopenedKeeps DEF PosterNext, ReportNext, PosterInv
<1>9. ASSUME NEW group \in work, Submit(group) PROVE Goal
  BY <1>9, <1>a DEF Submit, PosterNext, ReportNext, PosterInv
<1>10. CASE StopSubmitting
  BY <1>10, <1>a DEF StopSubmitting, PosterNext, ReportNext, PosterInv
<1>11. ASSUME NEW group \in running, Verify(group) PROVE Goal
  <2>a. phase = "working" /\ phase' = "working" /\ group \in Groups
    BY <1>11, <1>a DEF Verify, TypeOK
  <2>b. \A r \in results : r.key # group.key
    BY <1>a DEF WorkInv
  <2>1. CASE \E m \in Movies, status \in MATCHED :
              /\ known' = known \cup {m}
              /\ status = "matched_poster" => MayMatchPoster(disk, group.key, m, known')
              /\ disk' = [disk EXCEPT !.cache[group.key] = [status |-> status, movie |-> m]]
              /\ results' = results \cup {[key |-> group.key, ids |-> group.ids, status |-> status]}
    <3>1. PICK m \in Movies, status \in MATCHED :
              /\ known' = known \cup {m}
              /\ status = "matched_poster" => MayMatchPoster(disk, group.key, m, known')
              /\ disk' = [disk EXCEPT !.cache[group.key] = [status |-> status, movie |-> m]]
              /\ results' = results \cup {[key |-> group.key, ids |-> group.ids, status |-> status]}
      BY <2>1
    <3>2. /\ disk'.items = disk.items /\ disk'.tombstones = disk.tombstones
          /\ disk'.cache[group.key].movie = m
          /\ \A k \in Keys : k # group.key => disk'.cache[k] = disk.cache[k]
      BY <2>a, <3>1, <1>a DEF Disks, Caches, Groups
    <3>3. IndexOf(disk') \subseteq IndexOf(disk) \cup {m}
      BY <3>2, <1>a, InputType DEF IndexOf
    <3>4. IndexOf(disk') \subseteq known'
      BY <3>1, <3>3, <2>a, <1>a DEF PosterInv
    <3>5. ASSUME NEW r \in results
          PROVE  /\ r.status \in MATCHED => disk'.cache[r.key].movie \in known'
                 /\ r.status = "matched_poster" => PosterOf[r.key] \notin disk'.tombstones
      <4>1. r.key \in Keys
        BY <1>a DEF TypeOK, Results
      <4> QED
        BY <4>1, <2>b, <3>1, <3>2, <1>a DEF PosterInv
    <3>6. status = "matched_poster" => PosterOf[group.key] \notin disk'.tombstones
      BY <3>1, <3>2 DEF MayMatchPoster, Collided
    <3> QED
      BY <2>a, <3>1, <3>2, <3>4, <3>5, <3>6 DEF PosterNext, ReportNext
  <2>2. CASE \E status \in {"no_match", "unavailable"} :
              /\ results' = results \cup {[key |-> group.key, ids |-> group.ids, status |-> status]}
              /\ UNCHANGED <<disk, known>>
    BY <2>2, <2>a, <1>a DEF PosterNext, ReportNext, PosterInv, MATCHED
  <2> QED
    BY <1>11, <2>1, <2>2 DEF Verify
<1>12. ASSUME NEW r \in results, RecordResult(r) PROVE Goal
  <2>1. PICK definitive \in BOOLEAN :
          disk' = [disk EXCEPT !.items = [i \in Items |->
                     IF i \in r.ids THEN Recorded(@[i], r.status, definitive, using) ELSE @[i]]]
    BY <1>12 DEF RecordResult
  <2>2. /\ disk'.cache = disk.cache /\ disk'.tombstones = disk.tombstones
        /\ \A i \in Items : disk'.items[i] =
             IF i \in r.ids THEN Recorded(disk.items[i], r.status, definitive, using) ELSE disk.items[i]
    BY <2>1, <1>a DEF Disks
  <2>3. /\ phase = "working" /\ phase' = "working" /\ results' = results \ {r} /\ known' = known
    BY <1>12 DEF RecordResult
  <2>4. \A i \in r.ids : keyOf[i] = r.key
    BY <1>a DEF WorkInv, Undecided
  <2>5. \A i \in Items : Accepted(disk'.items[i]) =>
           IF i \in r.ids THEN r.status \in MATCHED ELSE Accepted(disk.items[i])
    <3> SUFFICES ASSUME NEW i \in Items, i \in r.ids, Accepted(disk'.items[i])
                 PROVE  r.status \in MATCHED
      BY <2>2
    <3>1. disk'.items[i] = Recorded(disk.items[i], r.status, definitive, using)
      BY <2>2
    <3>2. Recorded(disk.items[i], r.status, definitive, using).status \in {r.status, "unavailable"}
      BY DEF Recorded
    <3>3. "unavailable" \notin MATCHED
      BY DEF MATCHED
    <3> QED
      BY <3>1, <3>2, <3>3 DEF Accepted
  <2>6. \A i \in Items : Accepted(disk'.items[i]) =>
           disk'.cache[keyOf[i]].movie \in IndexOf(disk) \cup known \cup {NoMovie}
    BY <2>2, <2>4, <2>5, <1>a DEF PosterInv, IndexOf, Accepted
  <2>7. IndexOf(disk') \subseteq IndexOf(disk) \cup known
    BY <2>6 DEF IndexOf, Accepted
  <2> QED
    BY <1>a, <2>2, <2>3, <2>7 DEF PosterNext, ReportNext, PosterInv
<1>13. ASSUME NEW r \in results, Defer(r) PROVE Goal
  <2>1. PICK due \in BOOLEAN :
          disk' = [disk EXCEPT !.items = [i \in Items |->
                     IF i \in r.ids THEN [@[i] EXCEPT !.state = "retry", !.due = due,
                                                      !.status = "unavailable", !.rule = using]
                     ELSE @[i]]]
    BY <1>13 DEF Defer
  <2>2. /\ disk'.cache = disk.cache /\ disk'.tombstones = disk.tombstones
        /\ \A i \in Items : disk'.items[i] =
             IF i \in r.ids THEN [disk.items[i] EXCEPT !.state = "retry", !.due = due,
                                     !.status = "unavailable", !.rule = using]
             ELSE disk.items[i]
    BY <2>1, <1>a DEF Disks
  <2>3. /\ phase = "working" /\ phase' = "working" /\ results' = results \ {r} /\ known' = known
    BY <1>13 DEF Defer
  <2>4. \A i \in Items : disk.items[i] \in Rows
    BY <1>a DEF Disks
  <2>5. \A i \in Items : Accepted(disk'.items[i]) => disk'.items[i] = disk.items[i]
    BY <2>2, <2>4 DEF Accepted, Rows
  <2>6. IndexOf(disk') \subseteq IndexOf(disk)
    BY <2>2, <2>5, NoFurtherProofs
  <2> QED
    BY <1>a, <2>2, <2>3, <2>6 DEF PosterNext, ReportNext, PosterInv
<1>14. CASE Close
  <2>1. /\ known' = known /\ disk' = Entombed(disk, known)
        /\ phase = "working" /\ phase' = "closing" /\ results' = {}
    BY <1>14 DEF Close, memory
  <2> QED
    BY <1>a, <2>1, EntombedKeeps DEF PosterNext, ReportNext, PosterInv
<1>15. CASE Number
  <2> DEFINE d == Reopened(disk, known)
  <2>1. /\ known' = known /\ disk' = [d EXCEPT !.ahead = TRUE]
        /\ phase = "closing" /\ phase' = "numbered" /\ results' = {}
    BY <1>15, <1>c DEF Number, memory
  <2>2. /\ d \in Disks /\ IndexOf(d) \subseteq known
        /\ \A i \in Items : ~CollidedRow(d, i, known)
    BY <1>a, <2>1, ReopenedKeeps, ReopenedSound, EntombedType
       DEF PosterInv, PhaseInv, TypeOK, IInv, CheckpointInv
  <2> HIDE DEF d
  <2>3. disk'.items = d.items /\ disk'.cache = d.cache /\ disk'.tombstones = d.tombstones
    BY <2>1, <2>2 DEF Disks
  <2>4. /\ IndexOf(disk') \subseteq known
        /\ \A i \in Items : ~CollidedRow(disk', i, known)
    BY <2>2, <2>3, NoFurtherProofs
  <2> QED
    BY <2>1, <2>4 DEF PosterNext, ReportNext
<1>16. CASE Fail
  BY <1>16 DEF Fail, PosterNext, ReportNext
<1>17. CASE WriteReport
  <2>1. /\ known' = known /\ phase = "numbered" /\ phase' = "reported" /\ results' = {}
        /\ fatal' = fatal
    BY <1>17, <1>c DEF WriteReport, memory
  <2>2. /\ disk'.items = disk.items /\ disk'.cache = disk.cache
        /\ disk'.tombstones = disk.tombstones
        /\ disk'.report = [unfinished |-> \E i \in Items : disk.items[i].state # "done",
                           fatal |-> fatal # "none"]
    BY <1>17, <1>a DEF WriteReport, Disks
  <2>3. disk'.report.fatal = (fatal # "none")
    BY <2>2
  <2>4. /\ IndexOf(disk') \subseteq IndexOf(disk)
        /\ \A i \in Items : CollidedRow(disk', i, known) => CollidedRow(disk, i, known)
    BY <2>2, NoFurtherProofs
  <2> QED
    BY <1>a, <2>1, <2>3, <2>4 DEF PosterNext, ReportNext, ReportInv
<1> QED
  BY <1>2, <1>3, <1>4, <1>5, <1>6, <1>7, <1>8, <1>9, <1>10, <1>11, <1>12, <1>13, <1>14, <1>15,
     <1>16, <1>17 DEF Next, Batch

LEMMA SealedStep == IInv /\ [Next]_vars => CollisionsReopened'
<1> SUFFICES ASSUME IInv, [Next]_vars,
                    store' # NoState, ~store'.report.fatal, NEW i \in Items,
                    CollidedRow(store', i, IndexOf(store'))
             PROVE  FALSE
  BY KeysStay, SameKeys DEF CollisionsReopened
<1>1. CASE Upload
  <2>1. store' = disk /\ phase = "reported"
    BY <1>1 DEF Upload
  <2>2. /\ IndexOf(disk) \subseteq known /\ known \in SUBSET Movies
        /\ disk.tombstones \in SUBSET Posters
        /\ ~CollidedRow(disk, i, known)
    BY <2>1 DEF IInv, ReportInv, TypeOK, Disks
  <2>3. CollidedRow(disk, i, IndexOf(disk))
    BY <2>1
  <2>4. IndexOf(disk) \in SUBSET Movies
    BY <2>2
  <2>5. Collided(Poster(i), known, disk.tombstones)
    BY <2>2, <2>3, <2>4, CollidedFacts DEF CollidedRow
  <2> QED
    BY <2>2, <2>3, <2>5 DEF CollidedRow
<1>2. CASE ~Upload
  <2>1. store' = store \/ store' = NoState
    BY <1>2 DEF Next, Batch, Deploy, FallDue, Restore, Kill, Start, Begin, Freeze, Warm, Ready, Open,
       Select, Submit, StopSubmitting, Verify, RecordResult, Defer, Close, Number, Fail,
       WriteReport, Continue, GiveUp, vars, pass
  <2> QED
    BY <2>1 DEF IInv, CollisionsReopened
<1> QED
  BY <1>1, <1>2

LEMMA InductiveStep == IInv /\ [Next]_vars => IInv'
BY TypeStep, CheckpointStep, PhaseStep, WorkStep, PosterStep, SealedStep DEF IInv

-----------------------------------------------------------------------------
(* The theorems.                                                             *)

\* The inductive invariant holds in every reachable state.
THEOREM PassIsSound == Spec => []IInv
<1>1. Init => IInv
  BY InitInv
<1>2. IInv /\ [Next]_vars => IInv'
  BY InductiveStep
<1> QED
  BY <1>1, <1>2, PTL DEF Spec

\* run_batch and the checkpoint, for any component, cache and number of workers: one
\* pass never mixes revisions, what a worker was given is still open when its result
\* is recorded, and a replayed initialization charges each cached proof once.
THEOREM OneRevisionOncePerItem == Spec => []PassInv
<1>1. IInv => PassInv
  <2> SUFFICES ASSUME IInv PROVE PassInv
    OBVIOUS
  <2>1. FrozenRules
    BY DEF IInv, CheckpointInv, Sound, PhaseInv, FrozenRules
  <2>2. ResultsApply
    BY DEF IInv, WorkInv, Undecided, ResultsApply
  <2>3. ChargedOnce
    BY DEF IInv, CheckpointInv, Sound, ChargedOnce
  <2> QED
    BY <2>1, <2>2, <2>3 DEF IInv, PassInv
<1> QED
  BY <1>1, PassIsSound, PTL

\* reopen_collided_posters: however batches are killed, replayed and taken back, a
\* poster match once refuted is not made again, and a checkpoint sealed without a
\* fatal error holds no poster match that its own index refutes.
THEOREM PosterProofsAreSound == Spec => []PosterProofsHold
<1>1. IInv => PosterProofsHold
  BY DEF IInv, CheckpointInv, Sound, PosterMatch, RevokedStaysRevoked, PosterProofsHold
<1> QED
  BY <1>1, PassIsSound, PTL

\* record_result, defer: while a batch runs, no step changes a completed item except to
\* reopen a poster match whose collision had been saved before.
THEOREM OutcomesAreFinal == Spec => CompletedIsFinal
<1> DEFINE Final ==
      phase # "stopped" =>
         \A i \in Items : disk.items[i].state = "done" =>
            \/ disk'.items[i] = disk.items[i]
            \/ disk.items[i].status = "matched_poster" /\ Poster(i) \in disk.tombstones
<1>1. IInv /\ [Next]_vars => [Final]_disk
  <2> SUFFICES ASSUME IInv, [Next]_vars, phase # "stopped", NEW i \in Items,
                      disk.items[i].state = "done", disk'.items[i] # disk.items[i]
               PROVE  disk.items[i].status = "matched_poster" /\ Poster(i) \in disk.tombstones
    OBVIOUS
  <2>a. disk \in Disks /\ PosterInv /\ WorkInv
    BY DEF IInv, TypeOK
  <2>1. ASSUME disk'.items = disk.items PROVE FALSE
    BY <2>1
  <2>2. CASE Deploy \/ Kill \/ StopSubmitting \/ GiveUp \/ Upload \/ UNCHANGED vars
    BY <2>1, <2>2 DEF Deploy, Kill, StopSubmitting, GiveUp, Upload, vars, pass
  <2>3. CASE Restore \/ Start
    BY <2>3 DEF Restore, Start
  <2>4. CASE Freeze \/ Ready \/ Fail \/ WriteReport
    <3>1. disk'.items = disk.items
      BY <2>4, <2>a DEF Freeze, Ready, Fail, WriteReport, Disks
    <3> QED
      BY <2>1, <3>1
  <2>5. CASE Open \/ Close
    <3>1. disk'.items = disk.items
      BY <2>5, <2>a, EntombedKeeps DEF Open, Close
    <3> QED
      BY <2>1, <3>1
  <2>6. CASE Continue
    <3>1. disk'.items = disk.items
      BY <2>6, <2>a DEF Continue, Begin, Disks
    <3> QED
      BY <2>1, <3>1
  <2>7. ASSUME NEW g, Submit(g) \/ Verify(g) PROVE FALSE
    <3>1. disk'.items = disk.items
      BY <2>7, <2>a DEF Submit, Verify, Disks
    <3> QED
      BY <2>1, <3>1
  <2>8. ASSUME NEW j \in Items, FallDue(j) \/ Warm(j) PROVE FALSE
    <3>1. disk'.items[i] = disk.items[i]
      <4>1. CASE j = i
        BY <2>8, <4>1 DEF FallDue, Warm, Warmed
      <4>2. CASE FallDue(j) /\ j # i
        BY <2>a, <4>2 DEF FallDue, Disks
      <4>3. CASE Warm(j) /\ j # i
        BY <2>a, <4>3 DEF Warm, Warmed, Disks
      <4> QED
        BY <2>8, <4>1, <4>2, <4>3
    <3> QED
      BY <3>1
  <2>9. ASSUME NEW r \in results, RecordResult(r) \/ Defer(r) PROVE FALSE
    <3>1. i \notin r.ids
      BY <2>a DEF WorkInv, Undecided
    <3>2. CASE RecordResult(r)
      <4>1. disk'.items[i] = disk.items[i]
        BY <2>a, <3>1, <3>2 DEF RecordResult, Disks
      <4> QED
        BY <4>1
    <3>3. CASE Defer(r)
      <4>0. PICK due \in BOOLEAN :
              disk' = [disk EXCEPT !.items = [j \in Items |->
                         IF j \in r.ids THEN [@[j] EXCEPT !.state = "retry", !.due = due,
                                                          !.status = "unavailable", !.rule = using]
                         ELSE @[j]]]
        BY <3>3 DEF Defer
      <4>1. disk'.items[i] = disk.items[i]
        BY <2>a, <3>1, <4>0 DEF Disks
      <4> QED
        BY <4>1
    <3> QED
      BY <2>9, <3>2, <3>3
  <2>10. CASE Select \/ Number
    <3>1. /\ phase \in {"reopening", "closing"}
          /\ disk'.items = Reopened(disk, known).items
      BY <2>10, <2>a DEF Select, Number, Reopened, Disks
    <3>2. Reopened(disk, known).items =
            [j \in Items |-> IF j \in {k \in Items : CollidedRow(disk, k, known)} THEN NewRow
                             ELSE disk.items[j]]
      BY <2>a DEF Reopened, Disks
    <3>3. CollidedRow(disk, i, known)
      BY <3>1, <3>2
    <3> QED
      BY <2>a, <3>1, <3>3 DEF PosterInv, CollidedRow
  <2> QED
    BY <2>2, <2>3, <2>4, <2>5, <2>6, <2>7, <2>8, <2>9, <2>10 DEF Next, Batch
<1> QED
  BY <1>1, PassIsSound, PTL DEF Spec, CompletedIsFinal
=============================================================================
