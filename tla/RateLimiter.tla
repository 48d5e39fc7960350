---------------------------- MODULE RateLimiter ----------------------------
(***************************************************************************)
(* The request gate that the VOD enrichment and verification workers share *)
(* (scripts/vod_verification_rate_limit.py): SharedRateLimiter, which      *)
(* spaces requests, obeys every 429 pause and saves its state, and the     *)
(* loop of PacedSession.get around it.                                     *)
(*                                                                         *)
(* Time is counted in ticks; the monotonic and the wall clock agree (the   *)
(* code converts between them only at construction and in snapshot).  A    *)
(* batch may be killed at any moment; the next one resumes from the saved  *)
(* snapshot.                                                               *)
(***************************************************************************)
EXTENDS Integers, FiniteSets

CONSTANTS
    Workers,    \* worker threads of a batch
    Gap,        \* ticks between two permits, 1 / rate
    Pauses,     \* pauses a 429 answer may demand (Retry-After)
    BatchTime,  \* ticks from the start of a batch to its deadline
    MaxTime,    \* bound on the clock
    MaxWire     \* bound on the wire attempts counted

ASSUME RateAssumption ==
    /\ IsFiniteSet(Workers)
    /\ Gap \in Nat /\ BatchTime \in Nat /\ MaxTime \in Nat /\ MaxWire \in Nat
    /\ Pauses \subseteq Nat

VARIABLES
    now,
    deadline,
    nextRequest,  \* earliest next permit
    cooldown,     \* end of the shared 429 pause
    wire, n429,   \* counters wireAttempts and rateLimitResponses
    pc,           \* pc[w]: where worker w stands in PacedSession.get
    savers,       \* the worker inside the save lock, if any
    snap,         \* snap[w]: the snapshot w took there
    saved,        \* the durable snapshot
    sent,         \* history: requests put on the wire, over all batches
    lastPermit,   \* history: time of this batch's last permit, -Gap if none
    owed          \* history: <<n, end>>, the pause demanded by the n-th 429
                  \* counted; a killed batch forgets those it had not saved

memory == <<deadline, nextRequest, cooldown, wire, n429>>
history == <<sent, lastPermit, owed>>
vars == <<now, memory, pc, savers, snap, saved, history>>

Saving == {"save_defer", "save_attempt", "save_429", "save_ok", "save_error"}
Place == {"want", "permit", "send", "inflight", "done", "deferred", "raised"} \cup Saving
Snapshot == [wire : Nat, n429 : Nat, until : Nat]
Empty == [wire |-> 0, n429 |-> 0, until |-> 0]

TypeOK ==
    /\ now \in Nat /\ deadline \in Nat /\ nextRequest \in Nat /\ cooldown \in Nat
    /\ wire \in Nat /\ n429 \in Nat /\ sent \in Nat /\ lastPermit \in Int
    /\ pc \in [Workers -> Place]
    /\ savers \subseteq Workers
    /\ snap \in [Workers -> Snapshot] /\ saved \in Snapshot
    /\ owed \subseteq Nat \X Nat

Maximum(a, b) == IF a >= b THEN a ELSE b

Init ==
    /\ now = 0
    /\ deadline = BatchTime
    /\ nextRequest = 0 /\ cooldown = 0 /\ wire = 0 /\ n429 = 0
    /\ pc = [w \in Workers |-> "want"]
    /\ savers = {} /\ snap = [w \in Workers |-> Empty] /\ saved = Empty
    /\ sent = 0 /\ lastPermit = -Gap /\ owed = {}

Goto(w, place) == pc' = [pc EXCEPT ![w] = place]

-----------------------------------------------------------------------------
(***************************************************************************)
(* acquire                                                                 *)
(***************************************************************************)
Ready == Maximum(nextRequest, cooldown)

\* A sleeping worker wakes whenever it likes, so waiting is the absence of a
\* permit; the permit is reserved under the lock.
Permit(w) ==
    /\ pc[w] = "want"
    /\ now < deadline /\ Ready < deadline
    /\ Ready <= now
    /\ nextRequest' = now + Gap
    /\ lastPermit' = now
    /\ Goto(w, "permit")
    /\ UNCHANGED <<now, deadline, cooldown, wire, n429, savers, snap, saved, sent, owed>>

\* The deadline has passed or would pass before the permit: saved, then raised.
Defer(w) ==
    /\ pc[w] = "want"
    /\ now >= deadline \/ Ready >= deadline
    /\ Goto(w, "save_defer")
    /\ UNCHANGED <<now, memory, savers, snap, saved, history>>

-----------------------------------------------------------------------------
(***************************************************************************)
(* _persist: the snapshot is taken inside the save lock, and the callback  *)
(* stores it there.                                                        *)
(***************************************************************************)
\* Mutant of CurrentSnapshot: the remaining pause instead of its end.
RemainingSnapshot == [wire |-> wire, n429 |-> n429, until |-> cooldown - now]

CurrentSnapshot ==
    [wire |-> wire, n429 |-> n429, until |-> IF cooldown > now THEN cooldown ELSE 0]

\* Mutant of SaveBegin: the save lock is not taken.
SaveUnlocked(w) ==
    /\ pc[w] \in Saving /\ w \notin savers
    /\ savers' = savers \cup {w}
    /\ snap' = [snap EXCEPT ![w] = CurrentSnapshot]
    /\ UNCHANGED <<now, memory, pc, saved, history>>

SaveBegin(w) ==
    /\ pc[w] \in Saving
    /\ savers = {}
    /\ savers' = {w}
    /\ snap' = [snap EXCEPT ![w] = CurrentSnapshot]
    /\ UNCHANGED <<now, memory, pc, saved, history>>

\* Where a worker goes once its change is durable.
AfterSave(place) ==
    CASE place = "save_defer" -> "deferred"
      [] place = "save_attempt" -> "send"
      [] place = "save_429" -> "want"
      [] place = "save_ok" -> "done"
      [] place = "save_error" -> "raised"

LeaveSave(w, place) ==
    /\ savers' = savers \ {w}
    /\ snap' = [snap EXCEPT ![w] = Empty]
    /\ Goto(w, place)

SaveEnd(w) ==
    /\ w \in savers
    /\ saved' = snap[w]
    /\ LeaveSave(w, AfterSave(pc[w]))
    /\ UNCHANGED <<now, memory, history>>

\* The callback fails: the error propagates, nothing goes on the wire.
SaveFails(w) ==
    /\ w \in savers
    /\ LeaveSave(w, "raised")
    /\ UNCHANGED <<now, memory, saved, history>>

-----------------------------------------------------------------------------
(***************************************************************************)
(* PacedSession.get                                                        *)
(***************************************************************************)
\* Mutant of RecordAttempt: the request goes out before its attempt is saved.
SendUnsaved(w) ==
    /\ pc[w] = "permit" /\ wire < MaxWire
    /\ wire' = wire + 1
    /\ Goto(w, "send")
    /\ UNCHANGED <<now, deadline, nextRequest, cooldown, n429, savers, snap, saved, history>>

RecordAttempt(w) ==
    /\ pc[w] = "permit" /\ wire < MaxWire
    /\ wire' = wire + 1
    /\ Goto(w, "save_attempt")
    /\ UNCHANGED <<now, deadline, nextRequest, cooldown, n429, savers, snap, saved, history>>

Send(w) ==
    /\ pc[w] = "send"
    /\ sent' = sent + 1
    /\ Goto(w, "inflight")
    /\ UNCHANGED <<now, memory, savers, snap, saved, lastPermit, owed>>

\* An answer other than 429, or a network error raised to the client.
Answered(w) ==
    /\ pc[w] = "inflight"
    /\ Goto(w, "save_ok") \/ Goto(w, "save_error")
    /\ UNCHANGED <<now, memory, savers, snap, saved, history>>

\* Mutant of Cooled: the last pause wins.
LastPause(pause) == now + pause

\* _apply_cooldown: a shorter pause never replaces a longer one.
Cooled(pause) == Maximum(Maximum(now, cooldown), now + pause)

\* A 429: its counter and its whole pause change under one lock.
RateLimited(w) ==
    /\ pc[w] = "inflight"
    /\ \E pause \in Pauses :
          /\ cooldown' = Cooled(pause)
          /\ owed' = owed \cup {<<n429 + 1, now + pause>>}
    /\ n429' = n429 + 1
    /\ Goto(w, "save_429")
    /\ UNCHANGED <<now, deadline, nextRequest, wire, savers, snap, saved, sent, lastPermit>>

\* The client's next request, or its retry of an error.
NextRequest(w) ==
    /\ pc[w] \in {"done", "raised"}
    /\ Goto(w, "want")
    /\ UNCHANGED <<now, memory, savers, snap, saved, history>>

-----------------------------------------------------------------------------
Tick ==
    /\ now < MaxTime
    /\ now' = now + 1
    /\ UNCHANGED <<memory, pc, savers, snap, saved, history>>

\* The batch ends or is killed, and another resumes from the saved snapshot
\* (__init__ with resume_state).
Resume ==
    /\ now + BatchTime <= MaxTime
    /\ deadline' = now + BatchTime
    /\ nextRequest' = now
    /\ cooldown' = Maximum(now, saved.until)
    /\ wire' = saved.wire /\ n429' = saved.n429
    /\ pc' = [w \in Workers |-> "want"]
    /\ savers' = {} /\ snap' = [w \in Workers |-> Empty]
    /\ lastPermit' = -Gap
    /\ owed' = {d \in owed : d[1] <= saved.n429}
    /\ UNCHANGED <<now, saved, sent>>

Step(w) ==
    \/ Permit(w)
    \/ Defer(w)
    \/ SaveBegin(w)
    \/ SaveEnd(w)
    \/ SaveFails(w)
    \/ RecordAttempt(w)
    \/ Send(w)
    \/ Answered(w)
    \/ RateLimited(w)
    \/ NextRequest(w)

Next == (\E w \in Workers : Step(w)) \/ Tick \/ Resume

Spec == Init /\ [][Next]_vars

-----------------------------------------------------------------------------
(***************************************************************************)
(* Properties                                                              *)
(***************************************************************************)

\* A permit keeps its distance from the batch's previous one, and is never
\* granted inside a pause some 429 demanded: one answered to any worker of the
\* batch, however short later pauses are, or counted in the snapshot that the
\* batch resumed from ("a checkpoint must never advertise a 429 without its
\* pause").
PermitsArePaced ==
    [][(\E w \in Workers : pc[w] = "want" /\ pc'[w] = "permit") =>
          /\ now - lastPermit >= Gap
          /\ \A d \in owed : d[2] <= now]_vars

\* The durable count covers every request ever put on the wire, over crashes,
\* failed saves and concurrent saves: the attempt is saved before it is sent.
DurableCountCoversWire == sent <= saved.wire

\* A concurrent save never replaces a newer durable snapshot by an older one.
SavedNeverGoesBack ==
    [][/\ saved'.wire >= saved.wire
       /\ saved'.n429 >= saved.n429
       /\ saved'.until >= saved.until \/ saved.until <= now]_saved

-----------------------------------------------------------------------------
(***************************************************************************)
(* The inductive invariant behind these properties                         *)
(***************************************************************************)

\* Workers about to send, and workers whose attempt is counted but not sent.
Sending == {w \in Workers : pc[w] = "send"}
Counted == {w \in Workers : pc[w] \in {"save_attempt", "send"}}

\* One saver at a time, and what it is about to save is between the durable
\* state and the current one.
SaveInv ==
    /\ \A v, w \in savers : v = w
    /\ saved.wire <= wire /\ saved.n429 <= n429 /\ saved.until <= cooldown
    /\ \A w \in savers :
          /\ pc[w] \in Saving
          /\ saved.wire <= snap[w].wire /\ snap[w].wire <= wire
          /\ saved.n429 <= snap[w].n429 /\ snap[w].n429 <= n429
          /\ saved.until <= snap[w].until \/ saved.until <= now
          /\ snap[w].until <= cooldown

\* Requests sent, or about to be, are counted in every snapshot that matters.
CountInv ==
    /\ sent + Cardinality(Sending) <= saved.wire
    /\ sent + Cardinality(Counted) <= wire
    /\ \A w \in savers : pc[w] = "save_attempt" =>
          sent + Cardinality(Sending) + 1 <= snap[w].wire

\* Every pause still owed is in the current state, and in each snapshot that
\* counts its 429.
PacedInv ==
    /\ lastPermit + Gap <= nextRequest
    /\ \A d \in owed :
          /\ d[1] <= n429 /\ d[2] <= cooldown
          /\ d[1] <= saved.n429 => d[2] <= saved.until \/ d[2] <= now
          /\ \A w \in savers : d[1] <= snap[w].n429 => d[2] <= snap[w].until \/ d[2] <= now

DurableInv == TypeOK /\ SaveInv /\ CountInv /\ PacedInv
=============================================================================
