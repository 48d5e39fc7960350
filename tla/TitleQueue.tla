----------------------------- MODULE TitleQueue -----------------------------
(***************************************************************************)
(* The resolution queue of unmatched movie titles                          *)
(* (scripts/vod_resolution_queue.py) with the prewarm that works it        *)
(* (backfill_release_dates of scripts/build_skytvplayer_catalog.py), the   *)
(* metadata caches of scripts/vod_tmdb.py both read, and the other phases  *)
(* that write those caches.                                                *)
(*                                                                         *)
(* A run loads the queue file, gathers the catalogue's titles, selects a   *)
(* batch of due rows, asks TMDB (and then, for an answer that identifies   *)
(* nothing, the provider) about each in turn, and saves the file only at   *)
(* the end.  A cache is written at once.  A run may stop at its budget or  *)
(* be killed; a title whose source changes has a new identity, for which   *)
(* its old row and, unless it was positive, its old cache say nothing.     *)
(***************************************************************************)
EXTENDS Naturals, FiniteSets, Sequences, FiniteSetsExt, SequencesExt

CONSTANTS
    Titles,      \* movies of this year in the selected servers' catalogues
    Artless,     \* those the provider first lists without artwork
    TitleLimit,  \* --resolution-limit: rows a run may select
    FirstDelay,  \* FirstDelay[reason]: days to the first retry
    LastDelay,   \* LastDelay[reason]: days to the retries after many failures
    MatchedTtl,  \* days a positive cache is fresh, and its row not due
    MissTtl,     \* days a miss is fresh
    MaxStreak,   \* failures that are told apart
    MaxUpsets    \* bound on outside changes, kills and failed writes

STABLE == "stable"
IGNORED_NO_ARTWORK == "ignored"
Reasons == {"pending", "matched", "unavailable", STABLE, IGNORED_NO_ARTWORK}
MaxDelay == Max({LastDelay["unavailable"], LastDelay[STABLE], MatchedTtl, MissTtl})

ASSUME TitleAssumption ==
    /\ IsFiniteSet(Titles) /\ TitleLimit \in Nat
    /\ FirstDelay \in [{"unavailable", STABLE} -> Nat] /\ LastDelay \in [{"unavailable", STABLE} -> Nat]
    /\ MatchedTtl \in Nat /\ MissTtl \in Nat /\ MaxStreak \in Nat /\ MaxUpsets \in Nat

VARIABLES
    source,  \* source[t]: what the catalogue lists of it: [listed, artwork]
    cache,   \* cache[t]: its current identity's cache: [kind, fresh, stop]
    file,    \* the rows of resolution-queue.json
    run,     \* the prewarm: [phase, rows, todo], todo the selected titles left
    torn,    \* titles whose stop proof outlived a kill or a failed write
    upsets

titleVars == <<source, cache, file, run, torn, upsets>>

(* Rows of current identities: times are days to go; the last attempts and    *)
(* the selections are kept by their ranks, 0 for never.                       *)
NoRow == [known |-> FALSE, reason |-> "pending", streak |-> 0, due |-> 0, last |-> 0, order |-> 0]
Fresh(t) == [NoRow EXCEPT !.known = TRUE]
Ranks == 0 .. Cardinality(Titles) + 1
Rows == [known : BOOLEAN, reason : Reasons, streak : 0 .. MaxStreak, due : 0 .. MaxDelay,
         last : Ranks, order : Ranks]

\* A stop proof is one entry; that no evidence has confirmed it yet is history.
NoCache == [kind |-> "none", fresh |-> 0, stop |-> "none"]
Caches == [kind : {"none", "matched", STABLE, "unavailable"}, fresh : 0 .. MaxDelay,
           stop : {"none", "unconfirmed", "confirmed"}]

TitleTypeOK ==
    /\ source \in [Titles -> [listed : BOOLEAN, artwork : BOOLEAN]]
    /\ cache \in [Titles -> Caches]
    /\ file \in [Titles -> Rows]
    /\ run \in [phase : {"idle", "ask", "probe"}, rows : [Titles -> Rows], todo : Seq(Titles)]
    /\ torn \subseteq Titles
    /\ upsets \in 0 .. MaxUpsets

NoRun == [phase |-> "idle", rows |-> [t \in Titles |-> NoRow], todo |-> <<>>]

TitleInit ==
    /\ source = [t \in Titles |-> [listed |-> TRUE, artwork |-> t \notin Artless]]
    /\ cache = [t \in Titles |-> NoCache]
    /\ file = [t \in Titles |-> NoRow]
    /\ run = NoRun
    /\ torn = {}
    /\ upsets = 0

---------------------------------------------------------------------------
(* What the caches say (vod_tmdb.py).                                       *)

\* A validated stop proof: only of a movie without artwork, and never over a match.
Ignored(t) == cache[t].stop # "none" /\ ~source[t].artwork /\ cache[t].kind # "matched"
CurrentMatch(t) == cache[t].kind = "matched" /\ cache[t].fresh > 0
Hit(t) == cache[t].fresh > 0 \/ Ignored(t)

Confirmed(entry) == [entry EXCEPT !.stop = IF @ = "unconfirmed" THEN "confirmed" ELSE @]

\* What enrich leaves of a title it asked TMDB about and got `answer` for.
Enriched(t, answer) ==
    CASE answer = "matched" -> [cache[t] EXCEPT !.kind = "matched", !.fresh = MatchedTtl]
      [] answer = STABLE -> [kind |-> STABLE, fresh |-> MissTtl,
                             stop |-> IF source[t].artwork THEN "none" ELSE "unconfirmed"]
      [] answer = "unavailable" ->
            [cache[t] EXCEPT !.kind = IF @ = "matched" THEN @ ELSE "unavailable", !.fresh = MissTtl]

---------------------------------------------------------------------------
(* The queue (vod_resolution_queue.py).                                     *)

\* A delay doubles with the failures, three times at most.
Doubled == <<1, 2, 4, 8>>
Delay(reason, failures) ==
    IF reason = "matched" THEN MatchedTtl
    ELSE Min({LastDelay[reason],
              FirstDelay[reason] * Doubled[IF failures = 0 THEN 1 ELSE Min({failures, 4})]})

Group(reason) == IF reason = IGNORED_NO_ARTWORK THEN STABLE ELSE reason

_register(rows, t) == IF rows[t].known THEN rows[t] ELSE Fresh(t)

\* Attempts of this run are the latest: those before it have ranks below.
ThisRun == Cardinality(Titles) + 1

\* The row after a result: an attempt counts, anything else only says what is known.
Recorded(rows, t, reason, attempted) ==
    LET row == _register(rows, t)
        failures == IF reason = "matched" THEN 0
                    ELSE IF Group(row.reason) = Group(reason) THEN Min({row.streak + 1, MaxStreak}) ELSE Min({1, MaxStreak})
    IN  IF attempted
        THEN [row EXCEPT !.reason = reason, !.streak = failures, !.due = Delay(Group(reason), failures),
                         !.last = ThisRun]
        ELSE IF reason = "matched" THEN [row EXCEPT !.reason = reason, !.streak = 0, !.due = MatchedTtl]
        ELSE [row EXCEPT !.reason = reason]

Pending(row) == [row EXCEPT !.reason = "pending", !.due = 0]

\* Titles due, those never asked first, then those asked longest ago, then those
\* selected longest ago; the catalogue's order decides between equals.

\* Mutant of Earlier: the last attempt is not looked at.
EarlierBySelection(a, b) == a.order < b.order
Earlier(a, b) == a.last < b.last \/ (a.last = b.last /\ a.order < b.order)
Queued(rows, due) ==
    {s \in SetToSeqs(due) : \A i, j \in 1 .. Len(s) : i < j => ~Earlier(rows[s[j]], rows[s[i]])}

---------------------------------------------------------------------------
(* The prewarm.                                                             *)

\* Eligible titles the caches do not answer for.
Candidate(t) == source[t].listed /\ ~Ignored(t) /\ ~CurrentMatch(t)

Gathered ==
    [t \in Titles |->
        LET row == file[t]
        IN  IF ~source[t].listed THEN NoRow
            ELSE IF Ignored(t) THEN Recorded(file, t, IGNORED_NO_ARTWORK, FALSE)
            ELSE IF CurrentMatch(t) THEN IF row.known THEN Recorded(file, t, "matched", FALSE) ELSE row
            ELSE IF row.known /\ row.reason = IGNORED_NO_ARTWORK THEN Pending(row)
            ELSE _register(file, t)]

\* Ranks carry the order of what they rank and no more.
Rank(values, value) == Cardinality({v \in values \ {0} : v <= value})
Ranked(rows) ==
    [t \in Titles |-> [rows[t] EXCEPT !.last = Rank({rows[u].last : u \in Titles}, @),
                                     !.order = Rank({rows[u].order : u \in Titles}, @)]]

\* Selections take the next numbers, in order.
Selected(rows, batch) ==
    LET known == {rows[t].order : t \in Titles \ ToSet(batch)}
    IN  [t \in Titles |->
            [rows[t] EXCEPT !.order =
                IF t \in ToSet(batch)
                THEN Cardinality(known \ {0}) + CHOOSE i \in 1 .. Len(batch) : batch[i] = t
                ELSE Rank(known, @)]]

Start ==
    /\ run.phase = "idle"
    /\ LET due == {t \in Titles : /\ Candidate(t)
                                  /\ Gathered[t].reason # IGNORED_NO_ARTWORK
                                  /\ Gathered[t].due = 0}
       IN  \E s \in Queued(Gathered, due) :
              LET batch == SubSeq(s, 1, Min({TitleLimit, Len(s)}))
              IN  run' = [phase |-> "ask", rows |-> Selected(Gathered, batch), todo |-> batch]
    /\ UNCHANGED <<source, cache, file, torn, upsets>>

Record(t, reason, attempted) ==
    run' = [phase |-> "ask", rows |-> [run.rows EXCEPT ![t] = Recorded(run.rows, t, reason, attempted)],
            todo |-> Tail(run.todo)]

NextTitle(t) == run.phase = "ask" /\ run.todo # <<>> /\ Head(run.todo) = t

\* A fresh cache answers: no attempt.
Reuse(t) ==
    /\ NextTitle(t)
    /\ Hit(t)
    /\ Record(t, IF cache[t].kind # "matched" THEN cache[t].kind ELSE "unavailable", FALSE)
    /\ UNCHANGED <<source, cache, file, torn, upsets>>

\* The client's clock refuses the request: no attempt.  The run's own started before it
\* and for as long, so no other title follows.
Refuse(t) ==
    /\ NextTitle(t)
    /\ ~Hit(t)
    /\ run' = [phase |-> "ask",
               rows |-> [run.rows EXCEPT ![t] = Recorded(run.rows, t, "unavailable", FALSE)],
               todo |-> <<>>]
    /\ UNCHANGED <<source, cache, file, torn, upsets>>

Ask(t) ==
    /\ NextTitle(t)
    /\ ~Hit(t)
    /\ \E answer \in {"matched", STABLE, "unavailable"} :
          /\ cache' = [cache EXCEPT ![t] = Enriched(t, answer)]
          /\ IF answer = STABLE
             THEN run' = [run EXCEPT !.phase = "probe"]
             ELSE Record(t, answer, TRUE)
    /\ UNCHANGED <<source, file, torn, upsets>>

\* Mutant of Probe: an evidence that failed leaves the stop proof of the answer before it.
ProbeThatKeepsStops ==
    /\ run.phase = "probe"
    /\ LET t == Head(run.todo) IN Record(t, IF Ignored(t) THEN "unavailable" ELSE STABLE, TRUE)
    /\ UNCHANGED <<source, cache, file, torn, upsets>>

\* The optional evidence of the provider.  Nothing new confirms the answer; new facts
\* give the title a new identity, asked about at once; no answer, for a fault or for
\* the budget, takes the stop proof back.
Probe ==
    /\ run.phase = "probe"
    /\ LET t == Head(run.todo) IN
          \/ /\ Record(t, IF Ignored(t) THEN IGNORED_NO_ARTWORK ELSE STABLE, TRUE)
             /\ cache' = [cache EXCEPT ![t] = Confirmed(@)]
             /\ UNCHANGED <<torn, upsets>>
          \/ \E answer \in {"matched", STABLE, "unavailable"} :
                LET rows == [run.rows EXCEPT ![t] = Fresh(t)]
                    entry == Enriched(t, answer)
                    reason == IF answer = STABLE /\ ~source[t].artwork THEN IGNORED_NO_ARTWORK ELSE answer
                IN  /\ cache' = [cache EXCEPT ![t] = IF answer = STABLE THEN Confirmed(entry)
                                                     ELSE [entry EXCEPT !.stop = "none"]]
                    /\ run' = [phase |-> "ask", rows |-> [rows EXCEPT ![t] = Recorded(rows, t, reason, TRUE)],
                               todo |-> Tail(run.todo)]
                    /\ UNCHANGED <<torn, upsets>>
          \/ /\ Record(t, IF Ignored(t) THEN "unavailable" ELSE STABLE, TRUE)
             /\ \/ cache' = [cache EXCEPT ![t].stop = "none"] /\ UNCHANGED <<torn, upsets>>
                \/ Ignored(t) /\ upsets < MaxUpsets /\ upsets' = upsets + 1 /\ torn' = torn \cup {t} /\ UNCHANGED cache
    /\ UNCHANGED <<source, file>>

\* Out of titles, time or requests: the queue is saved, or its write fails.
Finish ==
    /\ run.phase = "ask"
    /\ run' = NoRun
    /\ \/ file' = Ranked(run.rows) /\ UNCHANGED upsets
       \/ upsets < MaxUpsets /\ upsets' = upsets + 1 /\ UNCHANGED file
    /\ UNCHANGED <<source, cache, torn>>

KillRun ==
    /\ run.phase # "idle"
    /\ upsets < MaxUpsets
    /\ upsets' = upsets + 1
    /\ run' = NoRun
    /\ torn' = torn \cup {t \in Titles : run.phase = "probe" /\ t = Head(run.todo) /\ Ignored(t)}
    /\ UNCHANGED <<source, cache, file>>

---------------------------------------------------------------------------
(* The rest of the system, between runs.                                    *)

Day ==
    /\ run.phase = "idle"
    /\ file' = [t \in Titles |-> [file[t] EXCEPT !.due = IF @ = 0 THEN 0 ELSE @ - 1]]
    /\ cache' = [t \in Titles |-> [cache[t] EXCEPT !.fresh = IF @ = 0 THEN 0 ELSE @ - 1]]
    /\ UNCHANGED <<source, run, torn, upsets>>

\* Another phase enriches a title the caches do not answer for.
Elsewhere(t) ==
    /\ \E answer \in {"matched", STABLE, "unavailable"} :
          ~Hit(t) /\ cache' = [cache EXCEPT ![t] = Confirmed(Enriched(t, answer))]
    /\ UNCHANGED <<source, file, run, torn>>

\* The provider relists, retitles or drops a title: a new identity.
Change(t) ==
    /\ \E new \in [listed : BOOLEAN, artwork : BOOLEAN] : source' = [source EXCEPT ![t] = new]
    /\ \E kept \in {NoCache} \cup ({cache[t]} \cap {c \in Caches : c.kind = "matched"}) :
          cache' = [cache EXCEPT ![t] = [kept EXCEPT !.stop = "none"]]
    /\ file' = [file EXCEPT ![t] = NoRow]
    /\ torn' = torn \ {t}
    /\ UNCHANGED run

\* The caches are evicted, or a title's file of them is lost.
Evict(t) ==
    /\ cache' = [cache EXCEPT ![t] = NoCache]
    /\ torn' = torn \ {t}
    /\ UNCHANGED <<source, file, run>>

BetweenRuns ==
    /\ run.phase = "idle"
    /\ upsets < MaxUpsets
    /\ upsets' = upsets + 1
    /\ \E t \in Titles : Elsewhere(t) \/ Change(t) \/ Evict(t)

TitleNext ==
    \/ Start \/ Probe \/ Finish \/ KillRun \/ Day \/ BetweenRuns
    \/ \E t \in Titles : Reuse(t) \/ Refuse(t) \/ Ask(t)

TitleSpec == TitleInit /\ [][TitleNext]_titleVars

---------------------------------------------------------------------------
\* A stop proof written for a movie without artwork lasts only if the evidence that
\* the prewarm goes on to ask for did not fail: a probe that failed or that the budget
\* left out takes it back, save where the run was killed in between or could not write
\* (backfill_release_dates: the miss is written by enrich before the probe, and
\* reopened after it).
StopsAreConfirmed ==
    run.phase = "idle" => \A t \in Titles : cache[t].stop = "unconfirmed" => t \in torn

StopInv == TitleTypeOK /\ StopsAreConfirmed

\* Nobody assures that TMDB is asked at all: the budgets are those of the operators.  But
\* if titles are asked about again and again, every listed title that is neither matched
\* nor stopped is among them, however short the runs are: a selected batch may outlive its
\* run, the clock may run out at any title, and a row left ignored after its proof was
\* lost has to come back (select_due, record_result, reopen_ignored).  No fairness is
\* assumed, of no step.
Open(t) == source[t].listed /\ cache[t].kind # "matched" /\ ~Ignored(t)
NoTitleStarves ==
    []<><<\E u \in Titles : Ask(u)>>_titleVars =>
        \A t \in Titles : <>[]Open(t) => []<><<Ask(t)>>_titleVars
=============================================================================
