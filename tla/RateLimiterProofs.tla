------------------------- MODULE RateLimiterProofs -------------------------
(***************************************************************************)
(* Proofs about RateLimiter for any finite set of workers, any spacing and *)
(* any pauses: concurrent saves never lose durable progress, and the       *)
(* durable count covers every request that was sent.                       *)
(***************************************************************************)
EXTENDS RateLimiter, FiniteSetTheorems, TLAPS

\* What a step does to the two sets of workers when one worker moves.
LEMMA Moved ==
    ASSUME TypeOK, NEW w \in Workers, NEW place \in Place, Goto(w, place)
    PROVE  /\ Sending' = IF place = "send" THEN Sending \cup {w} ELSE Sending \ {w}
           /\ Counted' = IF place \in {"save_attempt", "send"}
                         THEN Counted \cup {w} ELSE Counted \ {w}
BY DEF TypeOK, Goto, Sending, Counted

\* Counting a set of workers that a step changes by one worker.
LEMMA Shrinks ==
    ASSUME NEW w \in Workers, NEW S \in SUBSET Workers
    PROVE  /\ IsFiniteSet(S) /\ Cardinality(S) \in Nat /\ Cardinality(S \ {w}) \in Nat
           /\ Cardinality(S \ {w}) <= Cardinality(S)
<1>1. IsFiniteSet(S)
  BY RateAssumption, FS_Subset
<1>2. S \ {w} \in SUBSET S
  OBVIOUS
<1>3. IsFiniteSet(S \ {w}) /\ Cardinality(S \ {w}) <= Cardinality(S)
  BY <1>1, <1>2, FS_Subset
<1> QED
  BY <1>1, <1>3, FS_CardinalityType

LEMMA Adds ==
    ASSUME NEW w \in Workers, NEW S \in SUBSET Workers, w \notin S
    PROVE  Cardinality(S \cup {w}) = Cardinality(S) + 1
<1>1. IsFiniteSet(S)
  BY RateAssumption, FS_Subset
<1> QED
  BY <1>1, FS_AddElement

LEMMA Removes ==
    ASSUME NEW w \in Workers, NEW S \in SUBSET Workers, w \in S
    PROVE  Cardinality(S \ {w}) = Cardinality(S) - 1
<1>1. IsFiniteSet(S)
  BY RateAssumption, FS_Subset
<1> QED
  BY <1>1, FS_RemoveElement

\* The maximum of two numbers.
LEMMA MaximumFacts ==
    ASSUME NEW a \in Nat, NEW b \in Nat
    PROVE  Maximum(a, b) \in Nat /\ Maximum(a, b) >= a /\ Maximum(a, b) >= b
BY DEF Maximum

\* A 429 never shortens the pause.
LEMMA CooledGrows ==
    ASSUME TypeOK, NEW pause \in Pauses
    PROVE  Cooled(pause) \in Nat /\ Cooled(pause) >= cooldown /\ Cooled(pause) >= now + pause
BY RateAssumption DEF TypeOK, Cooled, Maximum

\* Every step keeps the types; that savers are saving is part of SaveInv.
LEMMA TypeStep == TypeOK /\ SaveInv /\ [Next]_vars => TypeOK'
<1> SUFFICES ASSUME TypeOK, SaveInv, [Next]_vars PROVE TypeOK'
  OBVIOUS
<1> USE RateAssumption DEF TypeOK, Place, Saving
<1>1. ASSUME NEW w \in Workers, Permit(w) PROVE TypeOK'
  BY <1>1 DEF Permit, Goto
<1>2. ASSUME NEW w \in Workers, Defer(w) \/ Answered(w) \/ NextRequest(w) \/ RecordAttempt(w) \/ Send(w)
      PROVE  TypeOK'
  BY <1>2 DEF Defer, Answered, NextRequest, RecordAttempt, Send, Goto, memory, history
<1>3. ASSUME NEW w \in Workers, SaveBegin(w) PROVE TypeOK'
  <2>1. CurrentSnapshot \in Snapshot
    BY DEF CurrentSnapshot, Snapshot
  <2> QED
    BY <1>3, <2>1 DEF SaveBegin, memory, history
<1>4. ASSUME NEW w \in Workers, SaveEnd(w) \/ SaveFails(w) PROVE TypeOK'
  <2>1. Empty \in Snapshot
    BY DEF Empty, Snapshot
  <2>2. AfterSave(pc[w]) \in Place
    BY <1>4 DEF SaveEnd, SaveFails, SaveInv, AfterSave
  <2> QED
    BY <1>4, <2>1, <2>2 DEF SaveEnd, SaveFails, LeaveSave, Goto, memory, history
<1>5. ASSUME NEW w \in Workers, RateLimited(w) PROVE TypeOK'
  <2>1. PICK pause \in Pauses : cooldown' = Cooled(pause)
                                /\ owed' = owed \cup {<<n429 + 1, now + pause>>}
    BY <1>5 DEF RateLimited
  <2>2. cooldown' \in Nat
    BY <2>1, CooledGrows
  <2> QED
    BY <1>5, <2>1, <2>2 DEF RateLimited, Goto
<1>6. ASSUME Tick PROVE TypeOK'
  BY <1>6 DEF Tick, memory, history
<1>7. ASSUME Resume PROVE TypeOK'
  BY <1>7, MaximumFacts DEF Resume, Empty, Snapshot
<1>8. CASE UNCHANGED vars
  BY <1>8 DEF vars, memory, history
<1> QED
  BY <1>1, <1>2, <1>3, <1>4, <1>5, <1>6, <1>7, <1>8 DEF Next, Step

\* The snapshot a saver takes lies between the durable state and the current one.
LEMMA SnapshotBetween ==
    ASSUME TypeOK, SaveInv
    PROVE  /\ CurrentSnapshot.wire = wire /\ CurrentSnapshot.n429 = n429
           /\ CurrentSnapshot \in Snapshot
           /\ saved.until <= CurrentSnapshot.until \/ saved.until <= now
           /\ CurrentSnapshot.until <= cooldown
BY DEF TypeOK, SaveInv, CurrentSnapshot, Snapshot

\* Every step keeps the order durable <= being saved <= current.
LEMMA SaveStep == TypeOK /\ SaveInv /\ [Next]_vars => SaveInv'
<1> SUFFICES ASSUME TypeOK, SaveInv, [Next]_vars PROVE SaveInv'
  OBVIOUS
<1> USE RateAssumption DEF TypeOK, Place, Saving, SaveInv
<1>1. ASSUME NEW w \in Workers,
             Permit(w) \/ Defer(w) \/ Answered(w) \/ NextRequest(w) \/ RecordAttempt(w) \/ Send(w)
      PROVE  SaveInv'
  BY <1>1 DEF Permit, Defer, Answered, NextRequest, RecordAttempt, Send, Goto, Snapshot,
              memory, history
<1>2. ASSUME NEW w \in Workers, SaveBegin(w) PROVE SaveInv'
  BY <1>2, SnapshotBetween DEF SaveBegin, memory, history
<1>3. ASSUME NEW w \in Workers, SaveEnd(w) PROVE SaveInv'
  BY <1>3 DEF SaveEnd, LeaveSave, Goto, Snapshot, memory, history
<1>4. ASSUME NEW w \in Workers, SaveFails(w) PROVE SaveInv'
  BY <1>4 DEF SaveFails, LeaveSave, Goto, Snapshot, memory, history
<1>5. ASSUME NEW w \in Workers, RateLimited(w) PROVE SaveInv'
  <2>1. PICK pause \in Pauses : cooldown' = Cooled(pause)
    BY <1>5 DEF RateLimited
  <2>2. cooldown' \in Nat /\ cooldown' >= cooldown
    BY <2>1, CooledGrows
  <2> QED
    BY <1>5, <2>2 DEF RateLimited, Goto, Snapshot
<1>6. CASE Tick
  BY <1>6 DEF Tick, Snapshot, memory, history
<1>7. CASE Resume
  BY <1>7 DEF Resume, Snapshot, Maximum
<1>8. CASE UNCHANGED vars
  BY <1>8 DEF vars, memory, history
<1> QED
  BY <1>1, <1>2, <1>3, <1>4, <1>5, <1>6, <1>7, <1>8 DEF Next, Step

\* A step that moves one worker between places outside Sending and Counted, and
\* changes neither the requests sent nor what is durable, keeps the count.
LEMMA IdleMove ==
    ASSUME TypeOK, CountInv, NEW w \in Workers, NEW place \in Place, Goto(w, place),
           place # "send", place # "save_attempt", w \notin savers,
           UNCHANGED <<sent, saved, snap, savers, wire>>
    PROVE  CountInv'
<1>1. Sending' = Sending \ {w} /\ Counted' = Counted \ {w}
  BY Moved
<1>2. Sending \subseteq Workers /\ Counted \subseteq Workers
  BY DEF Sending, Counted
<1>3. /\ Cardinality(Sending) \in Nat /\ Cardinality(Sending') \in Nat
      /\ Cardinality(Sending') <= Cardinality(Sending)
  BY <1>1, <1>2, Shrinks
<1>4. /\ Cardinality(Counted) \in Nat /\ Cardinality(Counted') \in Nat
      /\ Cardinality(Counted') <= Cardinality(Counted)
  BY <1>1, <1>2, Shrinks
<1> QED
  BY <1>3, <1>4 DEF CountInv, TypeOK, Snapshot, Goto

\* Every step keeps the count of the requests sent below every count saved.
LEMMA CountStep == TypeOK /\ SaveInv /\ CountInv /\ [Next]_vars => CountInv'
<1> SUFFICES ASSUME TypeOK, SaveInv, CountInv, [Next]_vars PROVE CountInv'
  OBVIOUS
<1>a. /\ Sending \subseteq Workers /\ Counted \subseteq Workers /\ Sending \subseteq Counted
      /\ Cardinality(Sending) \in Nat /\ Cardinality(Counted) \in Nat
      /\ Cardinality(Sending) <= Cardinality(Counted)
      /\ IsFiniteSet(Counted)
  <2>1. Sending \subseteq Workers /\ Counted \subseteq Workers /\ Sending \subseteq Counted
    BY DEF Sending, Counted
  <2>2. IsFiniteSet(Sending) /\ IsFiniteSet(Counted)
    BY <2>1, RateAssumption, FS_Subset
  <2> QED
    BY <2>1, <2>2, FS_CardinalityType, FS_Subset
<1>1. ASSUME NEW w \in Workers, Permit(w) \/ Defer(w) \/ Answered(w) \/ NextRequest(w) \/ RateLimited(w)
      PROVE  CountInv'
  <2>1. PICK place \in Place \ {"send", "save_attempt"} : Goto(w, place)
    BY <1>1 DEF Permit, Defer, Answered, NextRequest, RateLimited, Place, Saving
  <2>2. w \notin savers
    BY <1>1 DEF Permit, Defer, Answered, NextRequest, RateLimited, SaveInv, Saving
  <2>3. UNCHANGED <<sent, saved, snap, savers, wire>>
    BY <1>1 DEF Permit, Defer, Answered, NextRequest, RateLimited, memory, history
  <2> QED
    BY <2>1, <2>2, <2>3, IdleMove
<1>2. ASSUME NEW w \in Workers, SaveBegin(w) PROVE CountInv'
  <2>1. Sending' = Sending /\ Counted' = Counted
    BY <1>2 DEF SaveBegin, Sending, Counted
  <2>2. ASSUME pc[w] = "save_attempt" PROVE sent + Cardinality(Sending) + 1 <= wire
    <3>1. Sending \cup {w} \subseteq Counted /\ w \notin Sending
      BY <1>a, <2>2 DEF Sending, Counted
    <3>2. Cardinality(Sending) + 1 <= Cardinality(Counted)
      <4>1. Cardinality(Sending \cup {w}) = Cardinality(Sending) + 1
        BY <1>a, <3>1, Adds
      <4>2. Cardinality(Sending \cup {w}) <= Cardinality(Counted)
        BY <1>a, <3>1, FS_Subset
      <4> QED
        BY <4>1, <4>2
    <3> QED
      BY <1>a, <3>2 DEF CountInv, TypeOK
  <2> QED
    BY <1>2, <2>1, <2>2, SnapshotBetween DEF SaveBegin, CountInv, TypeOK, memory, history
<1>3. ASSUME NEW w \in Workers, SaveEnd(w) PROVE CountInv'
  <2>1. /\ saved' = snap[w] /\ sent' = sent /\ wire' = wire
        /\ savers' = {}
        /\ pc[w] \in Saving
        /\ Goto(w, AfterSave(pc[w]))
    BY <1>3 DEF SaveEnd, LeaveSave, SaveInv, TypeOK, memory, history
  <2>2. snap[w] \in Snapshot /\ saved \in Snapshot
    BY DEF TypeOK
  <2>3. CASE pc[w] = "save_attempt"
    <3>1. Goto(w, "send") /\ "send" \in Place
      BY <2>1, <2>3 DEF AfterSave, Place
    <3>2. Sending' = Sending \cup {w} /\ Counted' = Counted \cup {w}
      BY <3>1, Moved
    <3>3. w \in Counted /\ w \notin Sending
      BY <2>3 DEF Sending, Counted
    <3>4. Cardinality(Sending') = Cardinality(Sending) + 1 /\ Counted' = Counted
      BY <3>2, <3>3, <1>a, Adds
    <3> QED
      BY <1>a, <1>3, <2>1, <2>2, <2>3, <3>4 DEF CountInv, SaveEnd, TypeOK, Snapshot
  <2>4. CASE pc[w] # "save_attempt"
    <3>1. PICK place \in Place \ {"send", "save_attempt"} : Goto(w, place)
      BY <2>1, <2>4 DEF AfterSave, Place, Saving
    <3>2. Sending' = Sending \ {w} /\ Counted' = Counted \ {w}
      BY <3>1, Moved
    <3>3. w \notin Sending /\ w \notin Counted
      BY <2>1, <2>4 DEF Sending, Counted, Saving
    <3>4. Sending' = Sending /\ Counted' = Counted
      BY <3>2, <3>3
    <3>5. saved.wire <= snap[w].wire
      BY <1>3 DEF SaveEnd, SaveInv
    <3> QED
      BY <1>a, <2>1, <2>2, <3>4, <3>5 DEF CountInv, TypeOK, Snapshot
  <2> QED
    BY <2>3, <2>4
<1>4. ASSUME NEW w \in Workers, SaveFails(w) PROVE CountInv'
  <2>1. /\ saved' = saved /\ sent' = sent /\ wire' = wire /\ savers' = {}
        /\ Goto(w, "raised") /\ "raised" \in Place
    BY <1>4 DEF SaveFails, LeaveSave, SaveInv, Place, memory, history
  <2>2. Sending' = Sending \ {w} /\ Counted' = Counted \ {w}
    BY <2>1, Moved
  <2>3. Cardinality(Sending') \in Nat /\ Cardinality(Sending') <= Cardinality(Sending)
    BY <1>a, <2>2, Shrinks
  <2>4. Cardinality(Counted') \in Nat /\ Cardinality(Counted') <= Cardinality(Counted)
    BY <1>a, <2>2, Shrinks
  <2> QED
    BY <1>a, <2>1, <2>3, <2>4 DEF CountInv, TypeOK, Snapshot
<1>5. ASSUME NEW w \in Workers, RecordAttempt(w) PROVE CountInv'
  <2>1. /\ Goto(w, "save_attempt") /\ "save_attempt" \in Place
        /\ wire' = wire + 1 /\ UNCHANGED <<sent, saved, snap, savers>>
        /\ pc[w] = "permit"
    BY <1>5 DEF RecordAttempt, Place, Saving, history
  <2>2. Sending' = Sending \ {w} /\ Counted' = Counted \cup {w} /\ w \notin savers
    BY <2>1, Moved DEF SaveInv, Saving
  <2>3. w \notin Sending /\ w \notin Counted
    BY <2>1 DEF Sending, Counted
  <2>4. Sending' = Sending /\ Cardinality(Counted') = Cardinality(Counted) + 1
    <3>1. Sending' = Sending
      BY <2>2, <2>3
    <3>2. Cardinality(Counted \cup {w}) = Cardinality(Counted) + 1
      BY <1>a, <2>3, Adds
    <3> QED
      BY <2>2, <3>1, <3>2
  <2>5. \A v \in savers' : pc'[v] = pc[v] /\ snap'[v] = snap[v]
    BY <2>1, <2>2 DEF Goto, TypeOK
  <2> QED
    BY <1>a, <2>1, <2>4, <2>5 DEF CountInv, TypeOK, Snapshot
<1>6. ASSUME NEW w \in Workers, Send(w) PROVE CountInv'
  <2>1. /\ Goto(w, "inflight") /\ "inflight" \in Place
        /\ sent' = sent + 1 /\ UNCHANGED <<saved, snap, savers, wire>>
        /\ pc[w] = "send"
    BY <1>6 DEF Send, Place, memory
  <2>2. Sending' = Sending \ {w} /\ Counted' = Counted \ {w} /\ w \notin savers
    BY <2>1, Moved DEF SaveInv, Saving
  <2>3. w \in Sending /\ w \in Counted
    BY <2>1 DEF Sending, Counted
  <2>4. Cardinality(Sending') = Cardinality(Sending) - 1
    BY <1>a, <2>2, <2>3, Removes
  <2>5. Cardinality(Counted') = Cardinality(Counted) - 1
    BY <1>a, <2>2, <2>3, Removes
  <2>6. \A v \in savers' : pc'[v] = pc[v] /\ snap'[v] = snap[v]
    BY <2>1, <2>2 DEF Goto, TypeOK
  <2> QED
    BY <1>a, <2>1, <2>4, <2>5, <2>6 DEF CountInv, TypeOK, Snapshot
<1>7. CASE Tick
  BY <1>7 DEF Tick, CountInv, Sending, Counted, memory, history
<1>8. CASE Resume
  <2>1. Sending' = {} /\ Counted' = {} /\ savers' = {} /\ sent' = sent /\ saved' = saved
        /\ wire' = saved.wire
    BY <1>8 DEF Resume, Sending, Counted
  <2> QED
    BY <1>a, <2>1, FS_EmptySet DEF CountInv, TypeOK, Snapshot
<1>9. CASE UNCHANGED vars
  BY <1>9 DEF vars, CountInv, Sending, Counted, memory, history
<1> QED
  BY <1>1, <1>2, <1>3, <1>4, <1>5, <1>6, <1>7, <1>8, <1>9 DEF Next, Step

\* Every step keeps the pauses owed below the cooldowns that stand for them.
LEMMA PacedStep == TypeOK /\ SaveInv /\ PacedInv /\ [Next]_vars => PacedInv'
<1> SUFFICES ASSUME TypeOK, SaveInv, PacedInv, [Next]_vars PROVE PacedInv'
  OBVIOUS
<1> USE RateAssumption
<1>a. \A d \in owed : d[1] \in Nat /\ d[2] \in Nat
  BY DEF TypeOK
<1>1. ASSUME NEW w \in Workers, Permit(w) PROVE PacedInv'
  BY <1>1, <1>a DEF Permit, PacedInv, TypeOK
<1>2. ASSUME NEW w \in Workers, Defer(w) \/ Answered(w) \/ NextRequest(w) \/ RecordAttempt(w) \/ Send(w)
      PROVE  PacedInv'
  BY <1>2 DEF Defer, Answered, NextRequest, RecordAttempt, Send, PacedInv, memory, history
<1>3. ASSUME NEW w \in Workers, SaveBegin(w) PROVE PacedInv'
  <2>1. /\ savers' = {w} /\ snap'[w] = CurrentSnapshot
        /\ UNCHANGED <<now, cooldown, nextRequest, n429, saved, lastPermit, owed>>
    BY <1>3 DEF SaveBegin, TypeOK, memory, history
  <2>2. \A d \in owed : d[2] <= CurrentSnapshot.until \/ d[2] <= now
    BY <1>a DEF PacedInv, CurrentSnapshot, TypeOK
  <2> QED
    BY <2>1, <2>2 DEF PacedInv
<1>4. ASSUME NEW w \in Workers, SaveEnd(w) PROVE PacedInv'
  <2>1. /\ savers' = {} /\ saved' = snap[w] /\ w \in savers
        /\ UNCHANGED <<now, cooldown, nextRequest, n429, lastPermit, owed>>
    BY <1>4 DEF SaveEnd, LeaveSave, SaveInv, TypeOK, memory, history
  <2> QED
    BY <2>1 DEF PacedInv
<1>5. ASSUME NEW w \in Workers, SaveFails(w) PROVE PacedInv'
  <2>1. /\ savers' = {} /\ saved' = saved
        /\ UNCHANGED <<now, cooldown, nextRequest, n429, lastPermit, owed>>
    BY <1>5 DEF SaveFails, LeaveSave, SaveInv, TypeOK, memory, history
  <2> QED
    BY <2>1 DEF PacedInv
<1>6. ASSUME NEW w \in Workers, RateLimited(w) PROVE PacedInv'
  <2>1. PICK pause \in Pauses : cooldown' = Cooled(pause)
                                /\ owed' = owed \cup {<<n429 + 1, now + pause>>}
    BY <1>6 DEF RateLimited
  <2>2. cooldown' \in Nat /\ cooldown' >= cooldown /\ cooldown' >= now + pause
    BY <2>1, CooledGrows
  <2>3. /\ n429' = n429 + 1
        /\ UNCHANGED <<now, nextRequest, savers, snap, saved, lastPermit>>
    BY <1>6 DEF RateLimited
  <2>4. saved.n429 <= n429 /\ saved.n429 \in Nat /\ n429 \in Nat /\ cooldown \in Nat
        /\ \A v \in savers : snap[v].n429 <= n429 /\ snap[v].n429 \in Nat
    BY DEF SaveInv, TypeOK, Snapshot
  <2>5. \A d \in owed' : \/ d \in owed
                         \/ d[1] = n429 + 1 /\ d[2] = now + pause
    BY <2>1
  <2>6. ASSUME NEW d \in owed'
        PROVE  /\ d[1] <= n429' /\ d[2] <= cooldown'
               /\ d[1] <= saved'.n429 => d[2] <= saved'.until \/ d[2] <= now'
               /\ \A v \in savers' : d[1] <= snap'[v].n429
                                        => d[2] <= snap'[v].until \/ d[2] <= now'
    BY <1>a, <2>2, <2>3, <2>4, <2>5 DEF PacedInv
  <2> QED
    BY <2>3, <2>6 DEF PacedInv
<1>7. CASE Tick
  <2>1. now' = now + 1 /\ UNCHANGED <<cooldown, nextRequest, n429, savers, snap, saved, lastPermit, owed>>
    BY <1>7 DEF Tick, memory, history
  <2> QED
    BY <1>a, <2>1 DEF PacedInv, TypeOK
<1>8. CASE Resume
  <2>1. /\ now' = now /\ nextRequest' = now /\ lastPermit' = -Gap /\ saved' = saved
        /\ n429' = saved.n429 /\ cooldown' = Maximum(now, saved.until)
        /\ savers' = {} /\ owed' = {d \in owed : d[1] <= saved.n429}
    BY <1>8 DEF Resume
  <2>2. saved.until \in Nat /\ now \in Nat
    BY DEF TypeOK, Snapshot
  <2>3. lastPermit' + Gap <= nextRequest'
    BY <2>1, <2>2
  <2> QED
    BY <1>a, <2>1, <2>2, <2>3 DEF PacedInv, Maximum
<1>9. CASE UNCHANGED vars
  BY <1>9 DEF vars, PacedInv, memory, history
<1> QED
  BY <1>1, <1>2, <1>3, <1>4, <1>5, <1>6, <1>7, <1>8, <1>9 DEF Next, Step

\* For any finite set of workers, any spacing and any pauses, what is durable,
\* what is being saved and what is current stay ordered, and every request sent
\* is counted in each of them (_persist, record_attempt).
THEOREM Durability == Spec => []DurableInv
<1>1. Init => DurableInv
  <2> SUFFICES ASSUME Init PROVE DurableInv
    OBVIOUS
  <2> USE RateAssumption DEF Init
  <2>1. TypeOK
    BY DEF TypeOK, Place, Saving, Snapshot, Empty
  <2>2. SaveInv
    BY DEF SaveInv, Empty
  <2>3. Sending = {} /\ Counted = {}
    BY DEF Sending, Counted
  <2>4. CountInv
    BY <2>3, FS_EmptySet DEF CountInv, Empty
  <2>5. PacedInv
    BY DEF PacedInv
  <2> QED
    BY <2>1, <2>2, <2>4, <2>5 DEF DurableInv
<1>2. DurableInv /\ [Next]_vars => DurableInv'
  BY TypeStep, SaveStep, CountStep, PacedStep DEF DurableInv
<1> QED
  BY <1>1, <1>2, PTL DEF Spec

\* For any bounds, the durable count never falls behind the requests sent.
THEOREM CountsEveryRequest == Spec => []DurableCountCoversWire
<1>1. DurableInv => DurableCountCoversWire
  <2> SUFFICES ASSUME DurableInv PROVE DurableCountCoversWire
    OBVIOUS
  <2>1. Sending \in SUBSET Workers
    BY DEF Sending
  <2>2. Cardinality(Sending) \in Nat
    BY <2>1, RateAssumption, FS_Subset, FS_CardinalityType
  <2> QED
    BY <2>2 DEF DurableInv, CountInv, DurableCountCoversWire, TypeOK, Snapshot
<1> QED
  BY <1>1, Durability, PTL

\* For any bounds, no save replaces a newer durable snapshot by an older one.
THEOREM SavesNeverGoBack == Spec => SavedNeverGoesBack
<1>1. DurableInv /\ [Next]_vars =>
        [/\ saved'.wire >= saved.wire
         /\ saved'.n429 >= saved.n429
         /\ saved'.until >= saved.until \/ saved.until <= now]_saved
  <2> SUFFICES ASSUME DurableInv, Next, saved' # saved
               PROVE  /\ saved'.wire >= saved.wire
                      /\ saved'.n429 >= saved.n429
                      /\ saved'.until >= saved.until \/ saved.until <= now
    BY DEF vars
  <2>1. PICK w \in Workers : SaveEnd(w)
    BY DEF Next, Step, Permit, Defer, SaveBegin, SaveFails, RecordAttempt, Send, Answered,
           RateLimited, NextRequest, Tick, Resume
  <2>2. saved' = snap[w] /\ w \in savers
    BY <2>1 DEF SaveEnd
  <2> QED
    BY <2>2 DEF DurableInv, SaveInv, TypeOK, Snapshot
<1> QED
  BY <1>1, Durability, PTL DEF Spec, SavedNeverGoesBack

\* For any bounds, every permit keeps its distance and obeys every pause owed.
THEOREM PermitsAlwaysPaced == Spec => PermitsArePaced
<1>1. DurableInv /\ [Next]_vars =>
        [(\E w \in Workers : pc[w] = "want" /\ pc'[w] = "permit") =>
            /\ now - lastPermit >= Gap
            /\ \A d \in owed : d[2] <= now]_vars
  <2> SUFFICES ASSUME DurableInv, Next,
                      NEW w \in Workers, pc[w] = "want", pc'[w] = "permit"
               PROVE  /\ now - lastPermit >= Gap
                      /\ \A d \in owed : d[2] <= now
    OBVIOUS
  <2>0. TypeOK /\ SaveInv /\ PacedInv
    BY DEF DurableInv
  <2>1. PICK v \in Workers : Permit(v)
    <3>1. ASSUME NEW v \in Workers, Step(v), ~Permit(v) PROVE FALSE
      <4>1. CASE SaveEnd(v) \/ SaveFails(v)
        BY <2>0, <4>1 DEF SaveEnd, SaveFails, LeaveSave, Goto, AfterSave, SaveInv, Saving, TypeOK
      <4>2. CASE SaveBegin(v)
        BY <4>2 DEF SaveBegin
      <4>3. CASE Defer(v) \/ RecordAttempt(v) \/ Send(v) \/ Answered(v) \/ RateLimited(v) \/ NextRequest(v)
        BY <2>0, <4>3 DEF Defer, RecordAttempt, Send, Answered, RateLimited, NextRequest, Goto, TypeOK
      <4> QED
        BY <3>1, <4>1, <4>2, <4>3 DEF Step
    <3>2. ~Tick /\ ~Resume
      BY DEF Tick, Resume
    <3> QED
      BY <3>1, <3>2 DEF Next
  <2>2. nextRequest <= now /\ cooldown <= now
    BY <2>0, <2>1 DEF Permit, Ready, Maximum, TypeOK
  <2>3. \A d \in owed : d[2] \in Nat
    BY <2>0 DEF TypeOK
  <2> QED
    BY <2>0, <2>2, <2>3, RateAssumption DEF PacedInv, TypeOK
<1> QED
  BY <1>1, Durability, PTL DEF Spec, PermitsArePaced
=============================================================================
