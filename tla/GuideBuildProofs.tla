-------------------------- MODULE GuideBuildProofs --------------------------
(***************************************************************************)
(* Proofs about GuideBuild for any streams, inputs and reviewed candidates:*)
(* every schedule shown was decided or proven, an ID called bound shows    *)
(* the schedule of every stream the provider gives it to, no schedule is   *)
(* hidden under its own ID, and a build that fails leaves the guide before *)
(* it.                                                                     *)
(***************************************************************************)
EXTENDS GuideBuild, FiniteSetTheorems, WellFoundedInduction, TLAPS

-----------------------------------------------------------------------------
(* Least numbers.                                                           *)

LEMMA Least ==
    ASSUME NEW S \in SUBSET Nat, S # {}
    PROVE  \E n \in S : \A m \in S : n <= m
<1> DEFINE R == OpToRel(<, Nat)
<1>1. PICK n \in S : \A m \in S : <<m, n>> \notin R
  BY NatLessThanWellFounded, WFMin
<1>2. \A m \in S : ~(m < n)
  BY <1>1 DEF OpToRel
<1> QED
  BY <1>2

LEMMA MinProperties ==
    ASSUME NEW S \in SUBSET Nat, S # {}
    PROVE  Min(S) \in S /\ \A m \in S : Min(S) <= m
BY Least DEF Min

\* The largest of a set of small integers.
LEMMA MaxProperties ==
    ASSUME NEW S \in SUBSET -1 .. 2, S # {}
    PROVE  Max(S) \in S /\ \A m \in S : m <= Max(S)
<1>1. \E n \in S : \A m \in S : n >= m
  <2>1. CASE 2 \in S
    BY <2>1
  <2>2. CASE 2 \notin S /\ 1 \in S
    BY <2>2
  <2>3. CASE {1, 2} \cap S = {} /\ 0 \in S
    BY <2>3
  <2>4. CASE {0, 1, 2} \cap S = {}
    <3>1. \A m \in S : m = -1
      BY <2>4
    <3>2. PICK n \in S : TRUE
      OBVIOUS
    <3>3. n = -1 /\ \A m \in S : n >= m
      BY <3>1, <3>2
    <3> QED
      BY <3>2, <3>3
  <2> QED
    BY <2>1, <2>2, <2>3, <2>4
<1> QED
  BY <1>1 DEF Max

-----------------------------------------------------------------------------
(* What the inventory proves.                                               *)

LEMMA PlaylistType ==
    ASSUME feed \in [Streams -> Listings], NEW s \in Streams
    PROVE  Playlist(s) \in Lines \cup {NoLine}
BY DEF Playlist, Listings

Unverified(t, i, h) == [status |-> t, id |-> i, shared |-> h, verified |-> FALSE]

\* The playlist's own ID is taken, and only of a line with the name of the API.
LEMMA ProofFacts ==
    ASSUME feed \in [Streams -> Listings], NEW s \in Streams
    PROVE  /\ Proof(s) \in Links
           /\ Proof(s).status = "verified" => Proof(s).id # "none" /\ Proof(s).shared = "none"
           /\ Proof(s).id # "none" => s \in Inventoried
           /\ Proof(s).shared # "none" =>
                 /\ s \in Inventoried /\ Proof(s).id = "none"
                 /\ s \in InPlaylist(Proof(s).shared) \/ feed[s].id = Proof(s).shared
           /\ Proof(s).verified = FALSE
<1>1. Playlist(s) \in Lines \cup {NoLine} /\ feed[s] \in Listings
  BY PlaylistType
<1>2. CASE s \notin Inventoried
  BY <1>2 DEF Proof, NoLink, Links, Statuses
<1>3. CASE s \in Inventoried /\ Playlist(s) = NoLine
  BY <1>1, <1>3 DEF Proof, Links, Statuses, Listings
<1>4. CASE s \in Inventoried /\ Playlist(s) # NoLine
  <2>1. Playlist(s) \in Lines
    BY <1>1, <1>4
  <2> DEFINE line == Playlist(s)
             id == IF line.id # "none" THEN line.id ELSE feed[s].id
  <2>2. id \in {"none"} \cup External /\ line.id \in {"none"} \cup External
    BY <1>1, <2>1 DEF Lines, Listings
  <2>3. line.id # "none" => s \in InPlaylist(id)
    BY <1>4 DEF InPlaylist
  <2>4. \/ \E status \in {"name_mismatch", "conflicting_id", "name_only"} :
              Proof(s) = Unverified(status, "none", "none")
        \/ Proof(s) = Unverified("shared_id", "none", id) /\ id # "none"
        \/ Proof(s) = Unverified("verified", id, "none") /\ id # "none"
    BY <1>4 DEF Proof, Unverified
  <2> HIDE DEF id
  <2>5. id # "none" => s \in InPlaylist(id) \/ feed[s].id = id
    BY <2>3 DEF id
  <2>6. CASE \E status \in {"name_mismatch", "conflicting_id", "name_only"} :
                Proof(s) = Unverified(status, "none", "none")
    <3>1. /\ Proof(s).status # "verified" /\ Proof(s).id = "none" /\ Proof(s).shared = "none"
          /\ Proof(s).verified = FALSE
      BY <2>6 DEF Unverified
    <3>2. Proof(s) \in Links
      BY <2>6 DEF Unverified, Links, Statuses
    <3> QED
      BY <3>1, <3>2
  <2>7. CASE Proof(s) = Unverified("shared_id", "none", id) /\ id # "none"
    <3>1. /\ Proof(s).status = "shared_id" /\ Proof(s).id = "none" /\ Proof(s).shared = id
          /\ Proof(s).verified = FALSE
      BY <2>2, <2>7 DEF Unverified
    <3>2. Proof(s) \in Links
      BY <2>2, <2>7 DEF Unverified, Links, Statuses
    <3> QED
      BY <1>4, <2>5, <2>7, <3>1, <3>2
  <2>8. CASE Proof(s) = Unverified("verified", id, "none") /\ id # "none"
    <3>1. /\ Proof(s).status = "verified" /\ Proof(s).id = id /\ Proof(s).shared = "none"
          /\ Proof(s).verified = FALSE
      BY <2>2, <2>8 DEF Unverified
    <3>2. Proof(s) \in Links
      BY <2>2, <2>8 DEF Unverified, Links, Statuses
    <3> QED
      BY <1>4, <2>8, <3>1, <3>2
  <2> QED
    BY <2>4, <2>6, <2>7, <2>8
<1> QED
  BY <1>2, <1>3, <1>4, <1>1

\* Whoever the provider gives an ID to is counted among its claims.
LEMMA GivesClaims ==
    ASSUME feed \in [Streams -> Listings], NEW t \in Inventoried,
           NEW i \in External, Gives(t, i)
    PROVE  t \in Claims(i)
<1>1. t \in Streams /\ Playlist(t) \in Lines \cup {NoLine}
  BY PlaylistType DEF Inventoried
<1>2. CASE feed[t].id = i
  BY <1>2 DEF Claims
<1>3. CASE /\ feed[t].id = "none" /\ Playlist(t) # NoLine
           /\ Playlist(t).id = i /\ Playlist(t).name = feed[t].name
  <2>1. i # "none" /\ t \in InPlaylist(i)
    BY <1>3 DEF InPlaylist, External
  <2>2. CASE Cardinality(InPlaylist(i)) > 1
    <3>1. Proof(t).shared = i
      BY <1>3, <2>1, <2>2 DEF Proof
    <3> QED
      BY <2>1, <3>1 DEF Claims
  <2>3. CASE ~(Cardinality(InPlaylist(i)) > 1)
    <3>1. Proof(t).id = i
      BY <1>3, <2>1, <2>3 DEF Proof
    <3> QED
      BY <3>1 DEF Claims
  <2> QED
    BY <2>2, <2>3
<1> QED
  BY <1>2, <1>3 DEF Gives

LEMMA ClaimsFinite ==
    ASSUME NEW i
    PROVE  Claims(i) \subseteq Streams /\ IsFiniteSet(Claims(i))
<1>1. Claims(i) \subseteq Streams
  BY DEF Claims, InPlaylist, Inventoried
<1> QED
  BY <1>1, FS_Subset, GuideAssumption

\* An ID that the inventory hands out is claimed by its stream alone, one that it
\* calls shared is claimed by the stream too.
LEMMA HintFacts ==
    ASSUME feed \in [Streams -> Listings], NEW s \in Streams
    PROVE  /\ Hint(s) \in Links
           /\ Hint(s).status = "verified" =>
                 Hint(s).id \in External /\ Hint(s).shared = "none" /\ Claims(Hint(s).id) = {s}
           /\ Hint(s).shared # "none" => s \in Claims(Hint(s).shared)
<1> DEFINE p == Proof(s)
<1>1. /\ p \in Links
      /\ p.status = "verified" => p.id # "none" /\ p.shared = "none"
      /\ p.id # "none" => s \in Inventoried
      /\ p.shared # "none" => /\ s \in Inventoried /\ p.id = "none"
                              /\ s \in InPlaylist(p.shared) \/ feed[s].id = p.shared
  BY ProofFacts
<1>2. p.id # "none" => s \in Claims(p.id)
  BY <1>1 DEF Claims
<1>3. p.shared # "none" => s \in Claims(p.shared)
  <2> SUFFICES ASSUME p.shared # "none" PROVE s \in Claims(p.shared)
    OBVIOUS
  <2>1. /\ s \in Inventoried
        /\ s \in InPlaylist(p.shared) \/ feed[s].id = p.shared
    BY <1>1
  <2>2. InPlaylist(p.shared) \subseteq Claims(p.shared)
    BY <2>1 DEF Claims
  <2>3. feed[s].id = p.shared => s \in Claims(p.shared)
    BY <2>1 DEF Claims
  <2> QED
    BY <2>1, <2>2, <2>3
<1>4. CASE p.id # "none" /\ Cardinality(Claims(p.id)) # 1
  <2>1. Hint(s) = [p EXCEPT !.status = "shared_id", !.id = "none", !.shared = p.id]
    BY <1>4 DEF Hint
  <2> HIDE DEF p
  <2>2. Hint(s) \in Links /\ Hint(s).status = "shared_id" /\ Hint(s).shared = p.id
    BY <1>1, <2>1 DEF Links, Statuses
  <2> QED
    BY <1>2, <1>4, <2>2
<1>5. CASE ~(p.id # "none" /\ Cardinality(Claims(p.id)) # 1)
  <2>1. Hint(s) = p
    BY <1>5 DEF Hint
  <2>2. p.status = "verified" => Claims(p.id) = {s}
    <3> SUFFICES ASSUME p.status = "verified" PROVE Claims(p.id) = {s}
      OBVIOUS
    <3>1. Cardinality(Claims(p.id)) = 1 /\ s \in Claims(p.id)
      BY <1>1, <1>2, <1>5
    <3>2. \E x : Claims(p.id) = {x}
      BY <3>1, ClaimsFinite, FS_Singleton
    <3> QED
      BY <3>1, <3>2
  <2> QED
    BY <1>1, <1>3, <2>1, <2>2 DEF Links
<1> QED
  BY <1>4, <1>5

-----------------------------------------------------------------------------
(***************************************************************************)
(* The inductive invariant: what was given, how far the exchange of the    *)
(* directories is, where each row comes from, what the links are worth.    *)
(***************************************************************************)
Given ==
    /\ server \in {"server_1", "server_2"} /\ before \in {"old", Absent}
    /\ sheet \in [Streams -> Decisions] /\ held \subseteq Streams
    /\ feed \in [Streams -> Listings]

Exchange ==
    /\ stage \in Working \cup {"publishing", "failed", "unreconciled"} =>
          public = before /\ backup = Absent
    /\ stage = "moved" => public = Absent /\ backup = before
    /\ stage = "placed" => public = "new" /\ backup = before
    /\ stage = "done" => public = "new" /\ backup = Absent
    /\ stage = "killed" => public = "new" \/ before \in {public, backup}

\* As decided, under a name of today, or a placeholder for the native guide.
AsDecided(s, r) ==
    /\ s \notin held
    /\ r.source = sheet[s].source /\ r.id = sheet[s].id /\ r.enabled = sheet[s].enabled
    /\ r.action = sheet[s].action /\ r.reason = sheet[s].reason
    /\ r.synthetic = "none" \/ (r.synthetic = "outage" /\ r.source = "panel")
    /\ r.name = sheet[s].name \/ r.name \in Slot \cup Descriptive

Aside(s, r) == r.action = "REVIEW" /\ r.reason = "quarantine"

EventRow(s, r) ==
    ProvenEvent(s) /\ r.name \in Slot \cup Descriptive /\ r.synthetic \in {"event", "outage"}

HeadingRow(s, r) ==
    /\ s \notin held /\ sheet[s].name = "head" /\ feed[s].name = "head"
    /\ r.name = "head" /\ r.synthetic \in {"heading", "outage"}

Connection(s, r) ==
    /\ r.source = "epgshare01" /\ r.synthetic = "none" /\ r.id \in Usable
    /\ server = "server_1" /\ s \notin held
    /\ sheet[s].action # "MANUAL" /\ sheet[s].reason # "manual"
    /\ sheet[s].name = "plus" /\ feed[s].name = "plus"

Loaded(s, r) == AsDecided(s, r) \/ Aside(s, r) \/ EventRow(s, r) \/ HeadingRow(s, r)
Origin(s, r) == Loaded(s, r) \/ Connection(s, r)

\* What a link is worth as long as the reviewed connections are not made.
Trusty(s) ==
    /\ links[s].shared # "none" => s \in Claims(links[s].shared)
    /\ links[s].status = "verified" =>
          links[s].id \in External /\ links[s].shared = "none" /\ Claims(links[s].id) = {s}
    /\ links[s].verified = TRUE => rows[s].name = feed[s].name

\* A proven ID is proven for every stream that the provider gives it to.
Truth ==
    \A s \in Streams : links[s].status = "verified" /\ links[s].id # "none" =>
        \A t \in Inventoried : Gives(t, links[s].id) => links[t].id = links[s].id

Complete == {"writing"} \cup Moving \cup {"done"}
Afterwards == {"fetching"} \cup Complete

\* What the native guide is worth if it is not of this build.
NativeIsCurrent ==
    panel # "fresh" => \A s \in Streams :
        Eligible(rows[s]) /\ ~Local(rows[s]) /\ Effective(rows[s]) = "panel" =>
            panel = "cached" /\ level["panel"][rows[s].id] = 2

IInv ==
    /\ GuideTypeOK /\ Given /\ Exchange
    /\ stage = "loading" => rows = sheet
    /\ stage \in {"reading", "connecting"} =>
          \A s \in Streams : Loaded(s, rows[s]) /\ Trusty(s)
    /\ stage \in Afterwards => (\A s \in Streams : Origin(s, rows[s])) /\ Truth
    /\ stage \in Complete => NativeIsCurrent

-----------------------------------------------------------------------------
(* Loading a row.                                                           *)

LEMMA RetitledRow ==
    ASSUME Given, NEW s \in Streams, NEW r \in Rows, feed[s].name \in Names
    PROVE  LET n == Retitled(s, r)
           IN  /\ n \in Rows /\ n.name = feed[s].name
               /\ n.source = r.source /\ n.id = r.id /\ n.enabled = r.enabled
               /\ n.action = r.action /\ n.reason = r.reason /\ n.synthetic = r.synthetic
<1>1. EventNames(s) \subseteq Names
  BY PlaylistType DEF Given, EventNames, Lines
<1>2. EventIds(s) \subseteq External
  BY DEF EventIds
<1>3. r.name \in Names
  BY DEF Rows
<1> DEFINE names == ({r.name} \cup EventNames(s)) \ {feed[s].name}
           ids == EventIds(s)
<1>4. names \in SUBSET Names /\ ids \in SUBSET External
  BY <1>1, <1>2, <1>3
<1>5. Retitled(s, r) = [r EXCEPT !.name = feed[s].name, !.names = names, !.aliases = ids]
  BY DEF Retitled
<1> HIDE DEF names, ids
<1> QED
  BY <1>4, <1>5 DEF Rows

LEMMA EventOfRow ==
    ASSUME NEW r \in Rows
    PROVE  /\ AsEvent(r) \in Rows /\ AsEvent(r).name = r.name
           /\ \/ AsEvent(r) = r /\ (Eligible(r) \/ r.action # "REVIEW")
              \/ AsEvent(r).synthetic = "event"
<1>1. CASE Eligible(r) \/ r.action # "REVIEW"
  BY <1>1 DEF AsEvent
<1>2. CASE ~(Eligible(r) \/ r.action # "REVIEW")
  <2> DEFINE reason == IF r.reason = "quarantine" THEN "event" ELSE r.reason
  <2>1. reason \in Reasons
    BY DEF Rows, Reasons
  <2>2. AsEvent(r) = [r EXCEPT !.enabled = TRUE, !.action = "AUTO_DUMMY", !.id = "local",
                               !.reason = reason, !.synthetic = "event"]
    BY <1>2 DEF AsEvent
  <2> HIDE DEF reason
  <2> QED
    BY <2>1, <2>2 DEF Rows, Ids
<1> QED
  BY <1>1, <1>2

\* What the Sheet has of a row.
LEMMA DecidedRow ==
    ASSUME Given, NEW s \in Streams
    PROVE  /\ sheet[s] \in Rows /\ sheet[s].synthetic = "none" /\ sheet[s].reason # "quarantine"
           /\ sheet[s].source # "dummy" => sheet[s].id \in External \cup {"none"}
<1>1. sheet[s] \in Decisions
  BY DEF Given
<1>2. /\ sheet[s] \in Rows /\ sheet[s].synthetic = "none"
      /\ sheet[s].reason \in {"none", "manual"}
      /\ sheet[s].source # "dummy" => sheet[s].id \in External \cup {"none"}
  BY <1>1, Zenon DEF Decisions
<1> QED
  BY <1>2

Snapshot(s) == IF s \in held THEN Quarantined(sheet[s]) ELSE sheet[s]

LEMMA SnapshotRow ==
    ASSUME Given, NEW s \in Streams
    PROVE  /\ Snapshot(s) \in Rows /\ Snapshot(s).name = sheet[s].name
           /\ Snapshot(s).synthetic = "none"
           /\ IF s \in held THEN Aside(s, Snapshot(s))
              ELSE AsDecided(s, Snapshot(s)) /\ Snapshot(s).reason # "quarantine"
<1>1. sheet[s] \in Rows /\ sheet[s].synthetic = "none" /\ sheet[s].reason # "quarantine"
  BY DecidedRow
<1>2. CASE s \in held
  <2>1. Quarantined(sheet[s]) \in Rows
    BY <1>1 DEF Quarantined, Rows, Rejected, Reasons
  <2>2. /\ Quarantined(sheet[s]).name = sheet[s].name /\ Quarantined(sheet[s]).synthetic = "none"
        /\ Aside(s, Quarantined(sheet[s]))
    BY <1>1 DEF Quarantined, Rows, Aside
  <2> QED
    BY <1>2, <2>1, <2>2 DEF Snapshot
<1>3. CASE s \notin held
  BY <1>1, <1>3 DEF AsDecided, Snapshot
<1> QED
  BY <1>2, <1>3

LEMMA OverlaidRow ==
    ASSUME Given, NEW s \in Streams
    PROVE  Overlaid(s, Snapshot(s)) \in Rows /\ Loaded(s, Overlaid(s, Snapshot(s)))
<1> DEFINE r == Snapshot(s)
<1>1. /\ r \in Rows /\ r.name = sheet[s].name /\ r.synthetic = "none"
      /\ IF s \in held THEN Aside(s, r) ELSE AsDecided(s, r) /\ r.reason # "quarantine"
  BY SnapshotRow
<1> SUFFICES Overlaid(s, r) \in Rows /\ Loaded(s, Overlaid(s, r))
  OBVIOUS
<1> HIDE DEF r
<1>2. CASE s \notin Inventoried
  BY <1>1, <1>2 DEF Overlaid, Loaded
<1>3. CASE s \in Inventoried /\ Heading(s, r)
  <2>1. /\ Overlaid(s, r) = AsHeading(r)
        /\ r.name = "head" /\ feed[s].name = "head" /\ r.reason # "quarantine"
    BY <1>3 DEF Overlaid, Heading
  <2>2. s \notin held
    BY <1>1, <2>1 DEF Aside
  <2>3. AsHeading(r) \in Rows
    BY <1>1 DEF AsHeading, Rows, Ids
  <2>4. AsHeading(r).name = r.name /\ AsHeading(r).synthetic = "heading"
    BY <1>1 DEF AsHeading, Rows
  <2> QED
    BY <1>1, <2>1, <2>2, <2>3, <2>4 DEF HeadingRow, Loaded
<1>4. CASE s \in Inventoried /\ ~Heading(s, r) /\ (SameSlot(s, r) \/ SameEvent(s, r))
  <2> DEFINE t == Retitled(s, r)
  <2>1. feed[s].name \in Slot \cup Descriptive /\ feed[s].name \in Names
    BY <1>4 DEF SameSlot, SameEvent, Slot, Descriptive, Names
  <2>2. /\ t \in Rows /\ t.name = feed[s].name
        /\ t.source = r.source /\ t.id = r.id /\ t.enabled = r.enabled
        /\ t.action = r.action /\ t.reason = r.reason /\ t.synthetic = r.synthetic
    BY <1>1, <2>1, RetitledRow
  <2> HIDE DEF t
  <2>3. /\ AsEvent(t) \in Rows /\ AsEvent(t).name = t.name
        /\ \/ AsEvent(t) = t /\ (Eligible(t) \/ t.action # "REVIEW")
           \/ AsEvent(t).synthetic = "event"
    BY <2>2, EventOfRow
  <2>4. Overlaid(s, r) = AsEvent(t)
    BY <1>4 DEF Overlaid, t
  <2>5. ProvenEvent(s)
    BY <1>1, <1>4 DEF ProvenEvent, SameSlot, SameEvent, Aside
  <2>6. CASE AsEvent(t).synthetic = "event"
    BY <2>1, <2>2, <2>3, <2>4, <2>5, <2>6 DEF EventRow, Loaded
  <2>7. CASE AsEvent(t) = t /\ (Eligible(t) \/ t.action # "REVIEW")
    <3>1. s \notin held
      BY <1>1, <2>2, <2>7 DEF Aside, Eligible, Rejected
    <3>2. AsDecided(s, t)
      BY <1>1, <2>1, <2>2, <3>1 DEF AsDecided
    <3> QED
      BY <2>2, <2>4, <2>7, <3>2 DEF Loaded
  <2> QED
    BY <2>3, <2>6, <2>7
<1>5. CASE s \in Inventoried /\ ~Heading(s, r) /\ ~(SameSlot(s, r) \/ SameEvent(s, r))
  BY <1>1, <1>5 DEF Overlaid, Loaded
<1> QED
  BY <1>2, <1>3, <1>4, <1>5

\* The alias that a proven link adds changes nothing of where the row comes from.
LEMMA LinkOfRow ==
    ASSUME Given, NEW s \in Streams, NEW r \in Rows
    PROVE  /\ Link(s, r) \in Links
           /\ Link(s, r).shared # "none" => s \in Claims(Link(s, r).shared)
           /\ Link(s, r).status = "verified" =>
                 /\ Link(s, r).id \in External /\ Link(s, r).shared = "none"
                 /\ Claims(Link(s, r).id) = {s}
           /\ Link(s, r).verified = TRUE => r.name = feed[s].name
<1> DEFINE h == Hint(s)
           ok == /\ s \in Inventoried /\ r.reason # "quarantine" /\ r.name = feed[s].name
                 /\ h.status \notin {"name_mismatch", "unavailable"}
           status == IF ok THEN h.status ELSE "unverified"
<1>1. /\ h \in Links
      /\ h.status = "verified" => h.id \in External /\ h.shared = "none" /\ Claims(h.id) = {s}
      /\ h.shared # "none" => s \in Claims(h.shared)
  BY HintFacts DEF Given
<1>2. ok \in BOOLEAN /\ (ok => r.name = feed[s].name)
  OBVIOUS
<1>3. status \in Statuses /\ (status = "verified" => h.status = "verified")
  BY <1>1 DEF Links, Statuses
<1>4. Link(s, r) = [h EXCEPT !.verified = ok, !.status = status]
  BY DEF Link
<1> HIDE DEF h, ok, status
<1>5. /\ Link(s, r) \in Links /\ Link(s, r).shared = h.shared /\ Link(s, r).id = h.id
      /\ Link(s, r).status = status /\ Link(s, r).verified = ok
  BY <1>1, <1>2, <1>3, <1>4 DEF Links
<1> QED
  BY <1>1, <1>2, <1>3, <1>5

WithAlias(r, i) == [r EXCEPT !.aliases = @ \cup {i}]

LEMMA AliasedRow ==
    ASSUME NEW s \in Streams, NEW r \in Rows, NEW i \in External
    PROVE  /\ WithAlias(r, i) \in Rows /\ WithAlias(r, i).name = r.name
           /\ Loaded(s, r) => Loaded(s, WithAlias(r, i))
           /\ Connection(s, r) => Connection(s, WithAlias(r, i))
<1> DEFINE n == WithAlias(r, i)
           ids == r.aliases \cup {i}
<1>1. ids \in SUBSET External
  BY DEF Rows
<1>2. n = [r EXCEPT !.aliases = ids]
  BY DEF WithAlias
<1> HIDE DEF n, ids
<1>3. /\ n \in Rows /\ n.name = r.name /\ n.source = r.source /\ n.id = r.id
      /\ n.enabled = r.enabled /\ n.action = r.action /\ n.reason = r.reason
      /\ n.synthetic = r.synthetic
  BY <1>1, <1>2 DEF Rows
<1>4. n \in Rows /\ n.name = r.name
  BY <1>3
<1>5. AsDecided(s, r) => AsDecided(s, n)
  BY <1>3, Zenon DEF AsDecided
<1>6. Aside(s, r) => Aside(s, n)
  BY <1>3, Zenon DEF Aside
<1>7. EventRow(s, r) => EventRow(s, n)
  BY <1>3, Zenon DEF EventRow
<1>8. HeadingRow(s, r) => HeadingRow(s, n)
  BY <1>3, Zenon DEF HeadingRow
<1>9. Connection(s, r) => Connection(s, n)
  BY <1>3, Zenon DEF Connection
<1>10. Loaded(s, r) => Loaded(s, n)
  BY <1>5, <1>6, <1>7, <1>8 DEF Loaded
<1>11. WithAlias(r, i) = n
  BY DEF n
<1> QED
  BY <1>4, <1>9, <1>10, <1>11, Zenon

LEMMA LinkedRow ==
    ASSUME Given, NEW s \in Streams, NEW r \in Rows, Loaded(s, r)
    PROVE  /\ Linked(s, r) \in Rows /\ Loaded(s, Linked(s, r))
           /\ Linked(s, r).name = r.name
<1>1. CASE Link(s, r).status = "verified"
  <2>1. Linked(s, r) = WithAlias(r, Link(s, r).id)
    BY <1>1 DEF Linked, WithAlias
  <2>2. Link(s, r).id \in External
    BY <1>1, LinkOfRow
  <2> QED
    BY <2>1, <2>2, AliasedRow
<1>2. CASE Link(s, r).status # "verified"
  BY <1>2 DEF Linked
<1> QED
  BY <1>1, <1>2

-----------------------------------------------------------------------------
(* IDs that have a schedule.                                                *)

LEMMA UsableIds ==
    Usable \subseteq External /\ (Usable # {} => Best \in Usable)
<1>1. Candidates \in Seq(External)
  BY GuideAssumption
<1>2. Usable \subseteq External
  BY <1>1 DEF Usable, Range
<1>3. Usable # {} => Best \in Usable
  <2> SUFFICES ASSUME Usable # {} PROVE Best \in Usable
    OBVIOUS
  <2> DEFINE places == {n \in DOMAIN Candidates : Candidates[n] \in Usable}
  <2>1. places \in SUBSET Nat
    BY <1>1
  <2>2. places # {}
    BY DEF Usable, Range
  <2>3. Min(places) \in places
    BY <2>1, <2>2, MinProperties
  <2>4. Best = Candidates[Min(places)]
    BY DEF Best
  <2> QED
    BY <2>3, <2>4
<1> QED
  BY <1>2, <1>3

LEMMA GuideIds ==
    ASSUME Given, NEW s \in Streams, NEW r \in Rows, Origin(s, r),
           Eligible(r), ~Local(r)
    PROVE  r.id \in External
<1>1. r.id # "none" /\ r.action # "REVIEW" /\ r.source # "dummy" /\ r.synthetic = "none"
  BY DEF Eligible, Local, Rejected
<1>2. CASE AsDecided(s, r)
  <2>1. sheet[s].source # "dummy" /\ sheet[s].id = r.id
    BY <1>1, <1>2 DEF AsDecided
  <2> QED
    BY <1>1, <2>1, DecidedRow
<1>3. CASE Connection(s, r)
  BY <1>3, UsableIds DEF Connection
<1> QED
  BY <1>1, <1>2, <1>3 DEF Origin, Loaded, Aside, EventRow, HeadingRow

LEMMA WantedIds ==
    ASSUME Given, rows \in [Streams -> Rows],
           \A s \in Streams : Origin(s, rows[s])
    PROVE  Wanted \subseteq External
<1>1. {i \in Range(Candidates) : \E s \in Streams : Connectable(rows[s])} \subseteq External
  BY GuideAssumption DEF Range
<1>2. \A s \in Streams : Eligible(rows[s]) /\ ~Local(rows[s]) => rows[s].id \in External
  BY GuideIds
<1> QED
  BY <1>1, <1>2 DEF Wanted

\* What a source gives takes the place of what was known of its IDs.
LEMMA LevelsAsRead ==
    ASSUME level \in [Sources -> [External -> 0 .. 2]], NEW c \in Sources,
           NEW S \in SUBSET External, NEW found \in [S -> 0 .. 2]
    PROVE  /\ LevelsRead(c, found) \in [Sources -> [External -> 0 .. 2]]
           /\ \A i \in S : LevelsRead(c, found)[c][i] = found[i]
           /\ \A b \in Sources \ {c} : LevelsRead(c, found)[b] = level[b]
<1> DEFINE merged == [i \in External |-> IF i \in DOMAIN found THEN found[i] ELSE level[c][i]]
<1>1. merged \in [External -> 0 .. 2] /\ \A i \in S : merged[i] = found[i]
  OBVIOUS
<1>2. LevelsRead(c, found) = [level EXCEPT ![c] = merged]
  BY DEF LevelsRead
<1> HIDE DEF merged
<1> QED
  BY <1>1, <1>2

-----------------------------------------------------------------------------
(* The inputs stay, and so does what the inventory proves.                  *)

LEMMA InputsStay ==
    ASSUME UNCHANGED inputs
    PROVE  /\ Given <=> Given'
           /\ Inventoried' = Inventoried
           /\ \A s \in Streams : Playlist(s)' = Playlist(s)
           /\ \A i : Claims(i)' = Claims(i)
           /\ \A s, i : Gives(s, i)' <=> Gives(s, i)
           /\ \A s, r : Loaded(s, r)' <=> Loaded(s, r)
<1>1. server' = server /\ sheet' = sheet /\ held' = held /\ feed' = feed /\ before' = before
  BY DEF inputs
<1>2. Given <=> Given'
  BY <1>1 DEF Given
<1>3. Inventoried' = Inventoried
  BY <1>1 DEF Inventoried
<1>4. \A s : Playlist(s)' = Playlist(s)
  BY <1>1, <1>3 DEF Playlist
<1>5. \A i : InPlaylist(i)' = InPlaylist(i)
  BY <1>3, <1>4 DEF InPlaylist
<1>6. \A s : Proof(s)' = Proof(s)
  BY <1>1, <1>3, <1>4, <1>5, ZenonT(60) DEF Proof, NoLink
<1>7. \A i : Claims(i)' = Claims(i)
  BY <1>1, <1>3, <1>5, <1>6 DEF Claims
<1>8. \A s, i : Gives(s, i)' <=> Gives(s, i)
  BY <1>1, <1>4 DEF Gives
<1>9. \A s, r : Loaded(s, r)' <=> Loaded(s, r)
  BY <1>1 DEF Loaded, AsDecided, Aside, EventRow, HeadingRow, ProvenEvent
<1> QED
  BY <1>2, <1>3, <1>4, <1>7, <1>8, <1>9

-----------------------------------------------------------------------------
(* The steps.                                                               *)

LEMMA LoadStep ==
    ASSUME IInv, Load
    PROVE  IInv'
<1> DEFINE events == [s \in Streams |-> Overlaid(s, Snapshot(s))]
<1>1. /\ UNCHANGED inputs /\ stage = "loading" /\ stage' = "reading"
      /\ UNCHANGED <<level, panel, leaning, public, backup>>
  BY DEF Load
<1>2. /\ rows' = [s \in Streams |-> Linked(s, Overlaid(s, Snapshot(s)))]
      /\ links' = [s \in Streams |-> Link(s, Overlaid(s, Snapshot(s)))]
  BY DEF Load, Snapshot
<1>3. Given /\ GuideTypeOK /\ Exchange
  BY DEF IInv
<1>4. ASSUME NEW s \in Streams
      PROVE  /\ rows'[s] \in Rows /\ Loaded(s, rows'[s])
             /\ links'[s] \in Links
             /\ links'[s].shared # "none" => s \in Claims(links'[s].shared)
             /\ links'[s].status = "verified" =>
                   /\ links'[s].id \in External /\ links'[s].shared = "none"
                   /\ Claims(links'[s].id) = {s}
             /\ links'[s].verified = TRUE => rows'[s].name = feed[s].name
  <2> DEFINE r == Overlaid(s, Snapshot(s))
  <2>1. r \in Rows /\ Loaded(s, r)
    BY <1>3, OverlaidRow
  <2>2. rows'[s] = Linked(s, r) /\ links'[s] = Link(s, r)
    BY <1>2
  <2> HIDE DEF r
  <2>3. /\ Linked(s, r) \in Rows /\ Loaded(s, Linked(s, r))
        /\ Linked(s, r).name = r.name
    BY <1>3, <2>1, LinkedRow
  <2>4. /\ Link(s, r) \in Links
        /\ Link(s, r).shared # "none" => s \in Claims(Link(s, r).shared)
        /\ Link(s, r).status = "verified" =>
              /\ Link(s, r).id \in External /\ Link(s, r).shared = "none"
              /\ Claims(Link(s, r).id) = {s}
        /\ Link(s, r).verified = TRUE => r.name = feed[s].name
    BY <1>3, <2>1, LinkOfRow
  <2> QED
    BY <2>2, <2>3, <2>4
<1>5. feed' = feed /\ \A i : Claims(i)' = Claims(i)
  BY <1>1, InputsStay DEF inputs
<1>6. \A s \in Streams : Trusty(s)'
  BY <1>4, <1>5 DEF Trusty
<1>7. \A s \in Streams : Loaded(s, rows'[s])
  BY <1>4
<1>8. \A s \in Streams : Loaded(s, rows[s])'
  BY <1>1, <1>7 DEF inputs, Loaded, AsDecided, Aside, EventRow, HeadingRow, ProvenEvent
<1>9. rows' \in [Streams -> Rows] /\ links' \in [Streams -> Links]
  <2>1. \A s \in Streams : Linked(s, Overlaid(s, Snapshot(s))) \in Rows
    BY <1>2, <1>4
  <2>2. \A s \in Streams : Link(s, Overlaid(s, Snapshot(s))) \in Links
    BY <1>2, <1>4
  <2> QED
    BY <1>2, <2>1, <2>2
<1>10. GuideTypeOK'
  BY <1>1, <1>3, <1>9 DEF GuideTypeOK, inputs, Working
<1>11. Exchange' /\ Given'
  BY <1>1, <1>3, InputsStay DEF Exchange, Working, Moving, inputs
<1> QED
  BY <1>1, <1>6, <1>8, <1>10, <1>11 DEF IInv, Afterwards, Complete, Moving

LEMMA ReadSharedStep ==
    ASSUME IInv, ReadShared
    PROVE  IInv'
<1>1. /\ UNCHANGED inputs /\ stage = "reading" /\ stage' = "connecting"
      /\ UNCHANGED <<rows, links, panel, leaning, public, backup>>
  BY DEF ReadShared
<1>2. Given /\ GuideTypeOK /\ Exchange /\ \A s \in Streams : Loaded(s, rows[s]) /\ Trusty(s)
  BY <1>1 DEF IInv
<1>3. level' \in [Sources -> [External -> 0 .. 2]]
  <2>1. Wanted \in SUBSET External
    BY <1>2, WantedIds DEF Origin, GuideTypeOK
  <2>2. PICK found \in [Wanted -> 0 .. 2] : level' = LevelsRead("epgshare01", found)
    BY DEF ReadShared
  <2> QED
    BY <1>2, <2>1, <2>2, LevelsAsRead DEF GuideTypeOK, Sources
<1>4. feed' = feed /\ \A i : Claims(i)' = Claims(i)
  BY <1>1, InputsStay DEF inputs
<1>5. \A s \in Streams : Trusty(s)'
  BY <1>1, <1>2, <1>4 DEF Trusty
<1>6. \A s \in Streams : Loaded(s, rows[s])'
  BY <1>1, <1>2 DEF inputs, Loaded, AsDecided, Aside, EventRow, HeadingRow, ProvenEvent
<1>7. GuideTypeOK'
  BY <1>1, <1>2, <1>3 DEF GuideTypeOK, inputs, Working
<1>8. Exchange' /\ Given'
  BY <1>1, <1>2, InputsStay DEF Exchange, Working, Moving, inputs
<1> QED
  BY <1>1, <1>5, <1>6, <1>7, <1>8 DEF IInv, Afterwards, Complete, Moving

Reconnected(r, action, i) ==
    [r EXCEPT !.enabled = TRUE, !.action = action, !.source = "epgshare01", !.id = i,
              !.synthetic = "none"]

\* Only a row as it was decided, of a channel under its name, is connected.
LEMMA ConnectedRow ==
    ASSUME GuideTypeOK, Given, NEW s \in Streams, Loaded(s, rows[s]), Trusty(s)
    PROVE  Connected(s, rows[s]) \in Rows /\ Origin(s, Connected(s, rows[s]))
<1> DEFINE r == rows[s]
           own == ~Local(r) /\ Effective(r) = "epgshare01" /\ r.id \in Usable
           action == IF own /\ Eligible(r) THEN r.action ELSE "AUTO_EPGSHARE"
           id == IF own THEN r.id ELSE Best
           n == Reconnected(r, action, id)
<1>1. r \in Rows /\ links[s] \in Links
  BY DEF GuideTypeOK
<1>2. CASE ~Connectable(r) \/ ~links[s].verified \/ Usable = {}
  BY <1>1, <1>2 DEF Connected, Origin
<1>3. CASE ~(~Connectable(r) \/ ~links[s].verified \/ Usable = {})
  <2>1. Connected(s, r) = n
    BY <1>3 DEF Connected, Reconnected
  <2>2. id \in Usable /\ id \in External
    BY <1>3, UsableIds
  <2>3. action \in {"KEEP_PANEL", "AUTO_EPGSHARE", "AUTO_DUMMY", "MANUAL"} \cup Rejected
    BY <1>1 DEF Rows
  <2>4. /\ server = "server_1" /\ r.name = "plus"
        /\ r.action \notin {"IGNORE", "MANUAL"} /\ r.reason \notin {"quarantine", "manual"}
    BY <1>3 DEF Connectable
  <2>5. links[s].verified = TRUE
    BY <1>1, <1>3 DEF Links
  <2>6. feed[s].name = "plus"
    BY <2>4, <2>5 DEF Trusty
  <2>7. AsDecided(s, r)
    BY <2>4 DEF Loaded, Aside, EventRow, HeadingRow, Slot, Descriptive
  <2>8. /\ s \notin held /\ sheet[s].action # "MANUAL" /\ sheet[s].reason # "manual"
        /\ sheet[s].name = "plus"
    BY <2>4, <2>7 DEF AsDecided, Slot, Descriptive
  <2> HIDE DEF action, id, r
  <2>9. /\ n \in Rows /\ n.source = "epgshare01" /\ n.synthetic = "none" /\ n.id = id
    BY <1>1, <2>2, <2>3 DEF Reconnected, Rows, Ids
  <2> HIDE DEF n
  <2>10. Connection(s, n)
    BY <2>2, <2>4, <2>6, <2>8, <2>9 DEF Connection
  <2>11. Connected(s, r) \in Rows /\ Origin(s, Connected(s, r))
    BY <2>1, <2>9, <2>10 DEF Origin
  <2> QED
    BY <2>11 DEF r
<1> QED
  BY <1>2, <1>3

Reviewed == [s \in Streams |-> Connected(s, rows[s])]
Shares(s) == links[s].shared # "none" /\ Agree(links[s].shared, Reviewed)

WithSharedId(k) == [k EXCEPT !.id = k.shared, !.status = "verified"]

LEMMA ConnectUnfolded ==
    ASSUME Connect
    PROVE  /\ rows' = [s \in Streams |-> IF Shares(s) THEN WithAlias(Reviewed[s], links[s].shared)
                                         ELSE Reviewed[s]]
           /\ links' = [s \in Streams |-> IF Shares(s) THEN WithSharedId(links[s]) ELSE links[s]]
BY DEF Connect, Shares, Reviewed, WithAlias, WithSharedId

\* The streams that share an ID are all those that claim it.
LEMMA SharedByAll ==
    ASSUME NEW i, NEW r, Agree(i, r), i # "none",
           \A s \in Streams : Trusty(s)
    PROVE  \A t \in Claims(i) : links[t].shared = i
<1> DEFINE members == {s \in Streams : links[s].shared = i}
<1>1. members \subseteq Claims(i)
  BY DEF Trusty
<1>2. Cardinality(members) = Cardinality(Claims(i))
  BY DEF Agree
<1>3. members = Claims(i)
  BY <1>1, <1>2, ClaimsFinite, FS_Subset
<1> QED
  BY <1>3

LEMMA SharedLink ==
    ASSUME NEW k \in Links
    PROVE  /\ WithSharedId(k) \in Links /\ WithSharedId(k).id = k.shared
           /\ WithSharedId(k).status = "verified"
BY DEF WithSharedId, Links, Statuses

LEMMA ConnectStep ==
    ASSUME IInv, Connect
    PROVE  IInv'
<1>1. /\ UNCHANGED inputs /\ stage = "connecting" /\ stage' = "fetching"
      /\ UNCHANGED <<level, panel, leaning, public, backup>>
  BY DEF Connect
<1>2. Given /\ GuideTypeOK /\ Exchange /\ \A s \in Streams : Loaded(s, rows[s]) /\ Trusty(s)
  BY <1>1 DEF IInv
<1>3. ASSUME NEW s \in Streams
      PROVE  /\ rows'[s] \in Rows /\ Origin(s, rows'[s])
             /\ links'[s] \in Links
             /\ IF Shares(s) THEN links'[s] = WithSharedId(links[s]) ELSE links'[s] = links[s]
  <2> DEFINE n == Connected(s, rows[s])
             i == links[s].shared
  <2>1. n \in Rows /\ Origin(s, n)
    BY <1>2, ConnectedRow
  <2>2. Reviewed[s] = n
    BY DEF Reviewed
  <2>3. links[s] \in Links
    BY <1>2 DEF GuideTypeOK
  <2>4. CASE Shares(s)
    <3>1. rows'[s] = WithAlias(n, i) /\ links'[s] = WithSharedId(links[s])
      BY <2>2, <2>4, ConnectUnfolded
    <3>2. i \in External
      BY <2>3, <2>4 DEF Shares, Links
    <3> HIDE DEF n, i
    <3>3. WithAlias(n, i) \in Rows /\ Origin(s, WithAlias(n, i))
      BY <2>1, <3>2, AliasedRow DEF Origin
    <3> QED
      BY <2>3, <2>4, <3>1, <3>3, SharedLink
  <2>5. CASE ~Shares(s)
    BY <2>1, <2>2, <2>3, <2>5, ConnectUnfolded
  <2> QED
    BY <2>4, <2>5
<1>4. ASSUME NEW s \in Streams, links'[s].status = "verified", links'[s].id # "none",
             NEW t \in Inventoried, Gives(t, links'[s].id)
      PROVE  links'[t].id = links'[s].id
  <2>1. t \in Streams /\ links[s] \in Links /\ links[t] \in Links
    BY <1>2 DEF Inventoried, GuideTypeOK
  <2>2. CASE ~Shares(s)
    <3>1. links'[s] = links[s]
      BY <1>3, <2>2
    <3>2. links[s].id \in External /\ Claims(links[s].id) = {s}
      BY <1>2, <1>4, <3>1 DEF Trusty
    <3>3. t \in Claims(links[s].id)
      BY <1>2, <1>4, <3>1, <3>2, GivesClaims DEF Given
    <3> QED
      BY <3>2, <3>3
  <2>3. CASE Shares(s)
    <3> DEFINE i == links[s].shared
    <3>1. links'[s].id = i /\ i \in External /\ Agree(i, Reviewed) /\ i # "none"
      BY <1>3, <2>1, <2>3, SharedLink DEF Shares, Links
    <3>2. t \in Claims(i)
      BY <1>2, <1>4, <3>1, GivesClaims DEF Given
    <3>3. links[t].shared = i
      BY <1>2, <3>1, <3>2, SharedByAll
    <3>4. Shares(t)
      BY <3>1, <3>3 DEF Shares
    <3> QED
      BY <1>3, <2>1, <3>1, <3>3, <3>4, SharedLink
  <2> QED
    BY <2>2, <2>3
<1>5. Inventoried' = Inventoried /\ \A t, i : Gives(t, i)' <=> Gives(t, i)
  BY <1>1, InputsStay
<1>6. Truth'
  BY <1>4, <1>5 DEF Truth
<1>7. Usable' = Usable
  BY <1>1 DEF Usable
<1>8. \A s \in Streams : Origin(s, rows[s])'
  <2>1. \A s \in Streams : Origin(s, rows'[s])
    BY <1>3
  <2> QED
    BY <1>1, <1>7, <2>1 DEF inputs, Origin, Connection, Loaded, AsDecided, Aside, EventRow,
                             HeadingRow, ProvenEvent
<1>9. rows' \in [Streams -> Rows] /\ links' \in [Streams -> Links]
  <2>1. \A s \in Streams : (IF Shares(s) THEN WithAlias(Reviewed[s], links[s].shared)
                            ELSE Reviewed[s]) \in Rows
    BY <1>3, ConnectUnfolded
  <2>2. \A s \in Streams : (IF Shares(s) THEN WithSharedId(links[s]) ELSE links[s]) \in Links
    BY <1>3, ConnectUnfolded
  <2> QED
    BY <2>1, <2>2, ConnectUnfolded
<1>10. GuideTypeOK'
  BY <1>1, <1>2, <1>9 DEF GuideTypeOK, inputs, Working
<1>11. Exchange' /\ Given'
  BY <1>1, <1>2, InputsStay DEF Exchange, Working, Moving, inputs
<1> QED
  BY <1>1, <1>6, <1>8, <1>10, <1>11 DEF IInv, Afterwards, Complete, Moving

\* Nothing but a placeholder for the native guide comes of a fallback.
LEMMA FellBackRow ==
    ASSUME Given, GuideTypeOK, NEW ids, NEW s \in Streams, Origin(s, rows[s])
    PROVE  /\ FellBack(ids)[s] \in Rows /\ Origin(s, FellBack(ids)[s])
           /\ IF s \in Native /\ rows[s].id \in ids THEN FellBack(ids)[s].synthetic = "outage"
              ELSE FellBack(ids)[s] = rows[s]
<1>1. rows[s] \in Rows
  BY DEF GuideTypeOK
<1>2. CASE s \in Native /\ rows[s].id \in ids
  <2> DEFINE r == rows[s]
             n == [r EXCEPT !.synthetic = "outage"]
  <2>1. FellBack(ids)[s] = n
    BY <1>2 DEF FellBack
  <2>2. r.source = "panel" /\ server # "server_1" /\ r.action # "REVIEW"
    BY <1>2 DEF Native, Effective, Eligible, Rejected
  <2> HIDE DEF r
  <2>3. r \in Rows /\ Origin(s, r)
    BY <1>1 DEF r
  <2>4. /\ n \in Rows /\ n.name = r.name /\ n.source = r.source /\ n.id = r.id
        /\ n.enabled = r.enabled /\ n.action = r.action /\ n.reason = r.reason
        /\ n.synthetic = "outage"
    BY <2>3 DEF Rows
  <2> HIDE DEF n
  <2>5. CASE AsDecided(s, r)
    <3>1. AsDecided(s, n)
      BY <2>2, <2>4, <2>5 DEF AsDecided
    <3> QED
      BY <1>2, <2>1, <2>4, <3>1 DEF Origin, Loaded
  <2>6. CASE EventRow(s, r)
    <3>1. EventRow(s, n)
      BY <2>4, <2>6 DEF EventRow
    <3> QED
      BY <1>2, <2>1, <2>4, <3>1 DEF Origin, Loaded
  <2>7. CASE HeadingRow(s, r)
    <3>1. HeadingRow(s, n)
      BY <2>4, <2>7 DEF HeadingRow
    <3> QED
      BY <1>2, <2>1, <2>4, <3>1 DEF Origin, Loaded
  <2> QED
    BY <2>2, <2>3, <2>5, <2>6, <2>7 DEF Origin, Loaded, Aside, Connection
<1>3. CASE ~(s \in Native /\ rows[s].id \in ids)
  BY <1>1, <1>3 DEF FellBack
<1> QED
  BY <1>2, <1>3

\* The native guide came, came from the cache, did not come, or is not needed.
LEMMA FetchedStep ==
    ASSUME IInv, NEW ids,
           UNCHANGED <<inputs, links, leaning, public, backup>>,
           stage = "fetching", stage' = "writing", rows' = FellBack(ids),
           panel' \in {"unread", "fresh", "cached", "down"},
           level' \in [Sources -> [External -> 0 .. 2]],
           level'["epgshare01"] = level["epgshare01"],
           NativeIsCurrent'
    PROVE  IInv'
<1>1. UNCHANGED inputs /\ UNCHANGED <<links, leaning, public, backup>>
  OBVIOUS
<1>2. /\ Given /\ GuideTypeOK /\ Exchange /\ Truth
      /\ \A s \in Streams : Origin(s, rows[s])
  BY DEF IInv, Afterwards
<1>3. \A s \in Streams : rows'[s] \in Rows /\ Origin(s, rows'[s])
  BY <1>2, FellBackRow
<1>4. rows' \in [Streams -> Rows]
  <2>1. rows' = [s \in Streams |-> rows'[s]]
    BY DEF FellBack
  <2> QED
    BY <1>3, <2>1
<1>5. Inventoried' = Inventoried /\ \A t, i : Gives(t, i)' <=> Gives(t, i)
  BY <1>1, InputsStay
<1>6. Truth'
  BY <1>1, <1>2, <1>5 DEF Truth
<1>7. Usable' = Usable
  BY DEF Usable
<1>8. \A s \in Streams : Origin(s, rows[s])'
  BY <1>1, <1>3, <1>7 DEF inputs, Origin, Connection, Loaded, AsDecided, Aside, EventRow,
                          HeadingRow, ProvenEvent
<1>9. GuideTypeOK'
  BY <1>1, <1>2, <1>4 DEF GuideTypeOK, inputs, Working
<1>10. Exchange' /\ Given'
  BY <1>1, <1>2, InputsStay DEF Exchange, Working, Moving, inputs
<1> QED
  BY <1>6, <1>8, <1>9, <1>10 DEF IInv, Afterwards, Complete, Moving

LEMMA NobodyFellBack ==
    ASSUME GuideTypeOK
    PROVE  FellBack({}) = rows
BY DEF FellBack, GuideTypeOK

\* Whoever shows the native guide is among the streams that need it.
LEMMA NeedsNative ==
    ASSUME NEW s \in Streams, Eligible(rows[s]), Effective(rows[s]) = "panel"
    PROVE  s \in Native
BY DEF Native, Effective

LEMMA NoNativeStep ==
    ASSUME IInv, NoNative
    PROVE  IInv'
<1>1. /\ UNCHANGED inputs /\ UNCHANGED <<rows, links, level, panel, leaning, public, backup>>
      /\ stage = "fetching" /\ stage' = "writing" /\ Native = {}
  BY DEF NoNative, memory
<1>2. GuideTypeOK
  BY DEF IInv
<1>3. NativeIsCurrent'
  <2>1. \A s \in Streams : ~(Eligible(rows[s]) /\ Effective(rows[s]) = "panel")
    BY <1>1, NeedsNative
  <2>2. \A s \in Streams : ~(Eligible(rows[s]) /\ Effective(rows[s]) = "panel")'
    BY <1>1, <2>1 DEF Eligible, Effective, Blocked, Local, inputs
  <2> QED
    BY <2>2 DEF NativeIsCurrent
<1> QED
  BY <1>1, <1>2, <1>3, NobodyFellBack, FetchedStep DEF GuideTypeOK

LEMMA FetchPanelStep ==
    ASSUME IInv, FetchPanel
    PROVE  IInv'
<1>1. /\ UNCHANGED inputs /\ UNCHANGED <<rows, links, leaning, public, backup>>
      /\ stage = "fetching" /\ stage' = "writing" /\ panel' = "fresh"
  BY DEF FetchPanel
<1>2. GuideTypeOK
  BY DEF IInv
<1>3. PICK found \in [NativeIds \cap External -> 0 .. 2] : level' = LevelsRead("panel", found)
  BY DEF FetchPanel
<1>4. /\ level' \in [Sources -> [External -> 0 .. 2]]
      /\ level'["epgshare01"] = level["epgshare01"]
  BY <1>2, <1>3, LevelsAsRead DEF GuideTypeOK, Sources
<1>5. NativeIsCurrent'
  BY <1>1 DEF NativeIsCurrent
<1> QED
  BY <1>1, <1>2, <1>4, <1>5, NobodyFellBack, FetchedStep

\* Of the streams that need the native guide, those whose IDs fell back show
\* a placeholder.
LEMMA NativeAfterFallback ==
    ASSUME Given, GuideTypeOK, UNCHANGED inputs, NEW ids, rows' = FellBack(ids),
           \A s \in Streams : Origin(s, rows[s]),
           NEW s \in Streams, Eligible(rows[s])', ~Local(rows[s])', (Effective(rows[s]) = "panel")'
    PROVE  s \in Native /\ rows[s].id \notin ids /\ rows'[s] = rows[s]
<1>1. server' = server
  BY DEF inputs
<1>2. rows'[s].synthetic = "none"
  BY DEF Local
<1>3. /\ ~(s \in Native /\ rows[s].id \in ids)
      /\ rows'[s] = rows[s]
  BY <1>2, FellBackRow
<1>4. Eligible(rows[s]) /\ Effective(rows[s]) = "panel"
  BY <1>1, <1>3 DEF Eligible, Effective, Blocked, Local
<1> QED
  BY <1>3, <1>4, NeedsNative

LEMMA PanelDownStep ==
    ASSUME IInv, PanelDown
    PROVE  IInv'
<1>1. /\ UNCHANGED inputs /\ UNCHANGED <<links, level, leaning, public, backup>>
      /\ stage = "fetching" /\ stage' = "writing" /\ panel' = "down"
      /\ rows' = FellBack(NativeIds)
  BY DEF PanelDown
<1>2. Given /\ GuideTypeOK /\ \A s \in Streams : Origin(s, rows[s])
  BY <1>1 DEF IInv, Afterwards
<1>3. ASSUME NEW s \in Streams,
             Eligible(rows[s])', ~Local(rows[s])', (Effective(rows[s]) = "panel")'
      PROVE  FALSE
  <2>1. s \in Native /\ rows[s].id \notin NativeIds
    BY <1>1, <1>2, <1>3, NativeAfterFallback
  <2> QED
    BY <2>1 DEF NativeIds
<1>4. NativeIsCurrent'
  BY <1>3 DEF NativeIsCurrent
<1> QED
  BY <1>1, <1>2, <1>4, FetchedStep DEF GuideTypeOK

LEMMA PanelCachedStep ==
    ASSUME IInv, PanelCached
    PROVE  IInv'
<1>1. /\ UNCHANGED inputs /\ UNCHANGED <<links, leaning, public, backup>>
      /\ stage = "fetching" /\ stage' = "writing" /\ panel' = "cached"
  BY DEF PanelCached
<1>2. Given /\ GuideTypeOK /\ \A s \in Streams : Origin(s, rows[s])
  BY <1>1 DEF IInv, Afterwards
<1>3. PICK found \in [NativeIds \cap External -> 0 .. 2] :
         /\ level' = LevelsRead("panel", [i \in CurrentIds(found) |-> found[i]])
         /\ rows' = FellBack(NativeIds \ CurrentIds(found))
  BY DEF PanelCached
<1> DEFINE usable == CurrentIds(found)
           kept == [i \in usable |-> found[i]]
<1>4. usable \in SUBSET External /\ \A i \in usable : found[i] = 2
  BY DEF CurrentIds
<1>5. kept \in [usable -> 0 .. 2] /\ \A i \in usable : kept[i] = 2
  BY <1>4
<1>6. level' = LevelsRead("panel", kept) /\ rows' = FellBack(NativeIds \ usable)
  BY <1>3
<1> HIDE DEF usable, kept
<1>7. /\ level' \in [Sources -> [External -> 0 .. 2]]
      /\ level'["epgshare01"] = level["epgshare01"]
      /\ \A i \in usable : level'["panel"][i] = 2
  <2>1. level \in [Sources -> [External -> 0 .. 2]] /\ "panel" \in Sources
    BY <1>2 DEF GuideTypeOK, Sources
  <2>2. /\ LevelsRead("panel", kept) \in [Sources -> [External -> 0 .. 2]]
        /\ \A i \in usable : LevelsRead("panel", kept)["panel"][i] = kept[i]
        /\ \A b \in Sources \ {"panel"} : LevelsRead("panel", kept)[b] = level[b]
    BY <1>4, <1>5, <2>1, LevelsAsRead
  <2> QED
    BY <1>5, <1>6, <2>2 DEF Sources
<1>8. ASSUME NEW s \in Streams,
             Eligible(rows[s])', ~Local(rows[s])', (Effective(rows[s]) = "panel")'
      PROVE  level'["panel"][rows'[s].id] = 2
  <2>1. s \in Native /\ rows[s].id \notin NativeIds \ usable /\ rows'[s] = rows[s]
    BY <1>1, <1>2, <1>6, <1>8, NativeAfterFallback
  <2>2. rows'[s].id \in usable
    BY <2>1 DEF NativeIds
  <2> QED
    BY <1>7, <2>2
<1>9. NativeIsCurrent'
  BY <1>1, <1>8 DEF NativeIsCurrent
<1> QED
  BY <1>1, <1>2, <1>6, <1>7, <1>9, FetchedStep

\* The steps after which the process has gone know what was given, and where the
\* directories are.
LEMMA ForgottenStep ==
    ASSUME IInv, Forget, UNCHANGED inputs,
           stage' \in {"failed", "unreconciled", "killed"},
           public' \in {before, "new", Absent}, backup' \in {"old", Absent},
           Exchange'
    PROVE  IInv'
<1>1. Given /\ GuideTypeOK
  BY DEF IInv
<1>2. Given'
  BY <1>1, InputsStay
<1>3. rows' \in [Streams -> Rows]
  BY <1>1 DEF Forget, GuideTypeOK
<1>4. links' \in [Streams -> Links]
  BY DEF Forget, NoLink, Links, Statuses
<1>5. level' \in [Sources -> [External -> 0 .. 2]] /\ panel' = "unread"
  BY DEF Forget, Unread
<1>6. leaning' \in Streams
  BY MinProperties, GuideAssumption DEF Forget
<1>7. GuideTypeOK'
  BY <1>1, <1>3, <1>4, <1>5, <1>6 DEF GuideTypeOK, inputs
<1> QED
  BY <1>2, <1>7 DEF IInv, Afterwards, Complete, Moving

\* The steps that only move directories, or only weigh the schedules.
LEMMA RestingStep ==
    ASSUME IInv, UNCHANGED <<inputs, rows, links, level, panel>>,
           leaning' \in Streams, stage \in Complete, stage' \in Complete,
           public' \in {before, "new", Absent}, backup' \in {"old", Absent},
           Exchange'
    PROVE  IInv'
<1>1. UNCHANGED inputs /\ UNCHANGED <<rows, links, level, panel>>
  OBVIOUS
<1>2. /\ Given /\ GuideTypeOK /\ Truth /\ NativeIsCurrent
      /\ \A s \in Streams : Origin(s, rows[s])
  BY DEF IInv, Afterwards
<1>3. Inventoried' = Inventoried /\ \A t, i : Gives(t, i)' <=> Gives(t, i)
  BY <1>1, InputsStay
<1>4. Truth'
  BY <1>1, <1>2, <1>3 DEF Truth
<1>5. Usable' = Usable
  BY <1>1 DEF Usable
<1>6. \A s \in Streams : Origin(s, rows[s])'
  BY <1>1, <1>2, <1>5 DEF inputs, Origin, Connection, Loaded, AsDecided, Aside, EventRow,
                          HeadingRow, ProvenEvent
<1>7. NativeIsCurrent'
  BY <1>1, <1>2 DEF NativeIsCurrent, Eligible, Effective, Blocked, Local, inputs
<1>8. GuideTypeOK'
  BY <1>1, <1>2 DEF GuideTypeOK, inputs, Complete, Moving, Working
<1>9. Given'
  BY <1>1, <1>2, InputsStay
<1> QED
  BY <1>4, <1>6, <1>7, <1>8, <1>9 DEF IInv, Afterwards, Complete, Moving

LEMMA StutterStep ==
    ASSUME IInv, UNCHANGED buildVars
    PROVE  IInv'
<1>1. /\ UNCHANGED inputs
      /\ UNCHANGED <<rows, links, level, panel, leaning, stage, public, backup>>
  BY DEF buildVars, memory
<1>2. Inventoried' = Inventoried /\ (Given <=> Given') /\ (\A i : Claims(i)' = Claims(i))
      /\ \A t, i : Gives(t, i)' <=> Gives(t, i)
  BY <1>1, InputsStay
<1>3. Usable' = Usable
  BY <1>1 DEF Usable
<1>4. (GuideTypeOK <=> GuideTypeOK') /\ (Exchange <=> Exchange')
  BY <1>1 DEF GuideTypeOK, Exchange, inputs
<1>5. Truth <=> Truth'
  BY <1>1, <1>2 DEF Truth
<1>6. \A s \in Streams : Trusty(s) <=> Trusty(s)'
  BY <1>1, <1>2 DEF Trusty, inputs
<1>7. \A s \in Streams : Loaded(s, rows[s]) <=> Loaded(s, rows[s])'
  BY <1>1 DEF inputs, Loaded, AsDecided, Aside, EventRow, HeadingRow, ProvenEvent
<1>8. \A s \in Streams : Connection(s, rows[s]) <=> Connection(s, rows[s])'
  BY <1>1, <1>3 DEF inputs, Connection
<1>9. NativeIsCurrent <=> NativeIsCurrent'
  BY <1>1 DEF NativeIsCurrent, Eligible, Effective, Blocked, Local, inputs
<1>10. \A s \in Streams : Origin(s, rows[s]) <=> Origin(s, rows[s])'
  BY <1>7, <1>8 DEF Origin
<1>11. (stage = "loading" => rows = sheet) => (stage = "loading" => rows = sheet)'
  BY <1>1 DEF inputs
<1> QED
  BY <1>1, <1>2, <1>4, <1>5, <1>6, <1>7, <1>9, <1>10, <1>11 DEF IInv

LEMMA InitialInvariant ==
    ASSUME BuildInit
    PROVE  IInv
<1>1. PICK input \in Inputs :
         /\ server = input.server /\ sheet = input.sheet /\ held = input.held
         /\ feed = input.feed /\ before = input.before
  BY DEF BuildInit
<1>2. Given
  BY <1>1, GuideAssumption DEF Given
<1>3. sheet \in [Streams -> Rows]
  <2>1. \A s \in Streams : sheet[s] \in Rows
    BY <1>2, DecidedRow
  <2> QED
    BY <1>2, <2>1 DEF Given
<1>4. links \in [Streams -> Links]
  BY DEF BuildInit, NoLink, Links, Statuses
<1>5. level \in [Sources -> [External -> 0 .. 2]]
  BY DEF BuildInit, Unread
<1>6. leaning \in Streams
  BY MinProperties, GuideAssumption DEF BuildInit
<1>7. GuideTypeOK
  BY <1>2, <1>3, <1>4, <1>5, <1>6 DEF BuildInit, GuideTypeOK, Given, Working
<1>8. Exchange
  BY DEF BuildInit, Exchange, Working, Moving
<1> QED
  BY <1>2, <1>7, <1>8 DEF BuildInit, IInv, Afterwards, Complete, Moving

LEMMA InductiveInvariant ==
    ASSUME IInv, [BuildNext]_buildVars
    PROVE  IInv'
<1>1. GuideTypeOK /\ Given /\ Exchange
  BY DEF IInv
<1>2. before \in {"old", Absent} /\ public \in {before, "new", Absent} /\ backup \in {"old", Absent}
  BY <1>1 DEF GuideTypeOK
<1>3. CASE Load
  BY <1>3, LoadStep
<1>4. CASE ReadShared
  BY <1>4, ReadSharedStep
<1>5. CASE Connect
  BY <1>5, ConnectStep
<1>6. CASE NoNative
  BY <1>6, NoNativeStep
<1>7. CASE FetchPanel
  BY <1>7, FetchPanelStep
<1>8. CASE PanelDown
  BY <1>8, PanelDownStep
<1>9. CASE PanelCached
  BY <1>9, PanelCachedStep
<1>10. CASE Write
  <2>1. /\ stage = "writing" /\ stage' = "publishing" /\ leaning' \in Streams
        /\ UNCHANGED <<inputs, rows, links, level, panel, public, backup>>
    BY <1>10 DEF Write
  <2>2. Exchange'
    BY <1>1, <2>1 DEF Exchange, Working, inputs
  <2> QED
    BY <1>2, <2>1, <2>2, RestingStep DEF Complete, Moving
<1>11. CASE WriteFails \/ ReconcileFails \/ Fail
  <2>1. /\ stage \in Working \cup {"publishing"} /\ stage' \in {"failed", "unreconciled"}
        /\ Forget /\ UNCHANGED <<inputs, public, backup>>
    BY <1>11 DEF WriteFails, ReconcileFails, Fail, Working
  <2>2. Exchange'
    BY <1>1, <2>1 DEF Exchange, Working, inputs
  <2> QED
    BY <1>2, <2>1, <2>2, ForgottenStep
<1>12. CASE MoveOld
  <2>1. /\ stage = "publishing" /\ stage' = "moved" /\ public' = Absent /\ backup' = public
        /\ UNCHANGED <<inputs, memory>>
    BY <1>12 DEF MoveOld
  <2>2. public = before
    BY <1>1, <2>1 DEF Exchange
  <2>3. Exchange'
    BY <2>1, <2>2 DEF Exchange, Working, inputs
  <2> QED
    BY <1>1, <1>2, <2>1, <2>2, <2>3, RestingStep DEF Complete, Moving, memory, GuideTypeOK
<1>13. CASE PlaceNew
  <2>1. /\ stage = "moved" /\ stage' = "placed" /\ public' = "new"
        /\ UNCHANGED <<inputs, memory, backup>>
    BY <1>13 DEF PlaceNew
  <2>2. Exchange'
    BY <1>1, <2>1 DEF Exchange, Working, inputs
  <2> QED
    BY <1>1, <1>2, <2>1, <2>2, RestingStep DEF Complete, Moving, memory, GuideTypeOK
<1>14. CASE PlaceFails
  <2>1. /\ stage = "moved" /\ stage' = "failed" /\ Forget
        /\ public' = backup /\ backup' = Absent /\ UNCHANGED inputs
    BY <1>14 DEF PlaceFails
  <2>2. backup = before
    BY <1>1, <2>1 DEF Exchange
  <2>3. Exchange'
    BY <2>1, <2>2 DEF Exchange, inputs
  <2> QED
    BY <1>2, <2>1, <2>2, <2>3, ForgottenStep
<1>15. CASE DropOld
  <2>1. /\ stage = "placed" /\ stage' = "done" /\ backup' = Absent
        /\ UNCHANGED <<inputs, memory, public>>
    BY <1>15 DEF DropOld
  <2>2. Exchange'
    BY <1>1, <2>1 DEF Exchange, Working, inputs
  <2> QED
    BY <1>1, <1>2, <2>1, <2>2, RestingStep DEF Complete, Moving, memory, GuideTypeOK
<1>16. CASE Kill
  <2>1. /\ stage \in Moving /\ stage' = "killed" /\ Forget /\ UNCHANGED <<inputs, public, backup>>
    BY <1>16 DEF Kill
  <2>2. public = "new" \/ before \in {public, backup}
    BY <1>1, <2>1 DEF Exchange, Moving
  <2>3. Exchange'
    BY <2>1, <2>2 DEF Exchange, Working, inputs
  <2> QED
    BY <1>2, <2>1, <2>3, ForgottenStep
<1>17. CASE UNCHANGED buildVars
  BY <1>17, StutterStep
<1> QED
  BY <1>3, <1>4, <1>5, <1>6, <1>7, <1>8, <1>9, <1>10, <1>11, <1>12, <1>13, <1>14, <1>15, <1>16,
     <1>17 DEF BuildNext

THEOREM Invariance == BuildSpec => []IInv
<1>1. BuildInit => IInv
  BY InitialInvariant
<1>2. IInv /\ [BuildNext]_buildVars => IInv'
  BY InductiveInvariant
<1> QED
  BY <1>1, <1>2, PTL DEF BuildSpec

-----------------------------------------------------------------------------
(* What the invariant implies.                                              *)

LEMMA WrittenFacts ==
    ASSUME IInv, Written
    PROVE  /\ Given /\ GuideTypeOK /\ Truth /\ NativeIsCurrent
           /\ \A s \in Streams : rows[s] \in Rows /\ links[s] \in Links /\ Origin(s, rows[s])
BY DEF IInv, Written, Afterwards, Complete, GuideTypeOK

\* The schedule of a row that is nobody's own.
LEMMA GuideSchedule ==
    ASSUME NEW s, NEW r, Eligible(r), ~Local(r), r \in Rows
    PROVE  /\ Schedule(s, r) = <<Effective(r), r.id>>
           /\ Effective(r) = r.source /\ r.source \in Sources
BY DEF Schedule, Eligible, Blocked, Local, Effective, Rows, Sources

LEMMA InvariantImpliesGuideInv ==
    ASSUME IInv
    PROVE  GuideInv
<1>1. GuideTypeOK /\ Exchange
  BY DEF IInv
<1>2. ASSUME Written, panel # "fresh", NEW s \in Streams, Served(s),
             Schedule(s, rows[s])[1] = "panel"
      PROVE  panel = "cached" /\ Level(Schedule(s, rows[s])) = 2
  <2>1. NativeIsCurrent /\ rows[s] \in Rows
    BY <1>2, WrittenFacts
  <2>2. Eligible(rows[s])
    BY <1>2 DEF Served
  <2>3. ~Local(rows[s])
    BY <1>2 DEF Schedule
  <2>4. Schedule(s, rows[s]) = <<Effective(rows[s]), rows[s].id>>
    BY <2>1, <2>2, <2>3, GuideSchedule
  <2>5. Effective(rows[s]) = "panel"
    BY <1>2, <2>4
  <2> QED
    BY <1>2, <2>1, <2>2, <2>3, <2>4, <2>5 DEF NativeIsCurrent, Level
<1>3. CachedGuideIsCurrent
  BY <1>2 DEF CachedGuideIsCurrent
<1>4. /\ stage \in Working \cup {"publishing", "failed", "unreconciled"} =>
            public = before /\ backup = Absent
      /\ stage = "killed" => public = "new" \/ before \in {public, backup}
  BY <1>1 DEF Exchange
<1> QED
  BY <1>1, <1>3, <1>4 DEF GuideInv

LEMMA InvariantImpliesScheduleIsDecided ==
    ASSUME IInv
    PROVE  ScheduleIsDecided
<1> SUFFICES ASSUME Written, NEW s \in Streams, Served(s)
             PROVE  LET own == sheet[s]
                        schedule == Schedule(s, rows[s])
                        decided == s \notin held /\ own.enabled /\ own.action \notin Rejected
                    IN  \/ decided /\ schedule = <<own.source, own.id>>
                        \/ /\ schedule = <<"epgshare01", rows[s].id>> /\ server = "server_1"
                           /\ rows[s].id \in Range(Candidates) /\ Level(schedule) = 2
                           /\ s \notin held /\ own.action # "MANUAL" /\ own.reason # "manual"
                           /\ own.name = "plus" /\ feed[s].name = "plus"
                        \/ /\ schedule = <<"synthetic", s>>
                           /\ \/ decided /\ own.source \in {"dummy", "panel"}
                              \/ ProvenEvent(s)
                              \/ s \notin held /\ own.name = "head" /\ feed[s].name = "head"
  BY DEF ScheduleIsDecided
<1> DEFINE r == rows[s]
           own == sheet[s]
<1>1. r \in Rows /\ Origin(s, r) /\ Eligible(r)
  BY WrittenFacts DEF Served
<1>2. Local(r) => Schedule(s, r) = <<"synthetic", s>>
  BY DEF Schedule
<1>3. ~Local(r) => Schedule(s, r) = <<r.source, r.id>>
  BY <1>1, GuideSchedule
<1>4. r.action # "REVIEW"
  BY <1>1 DEF Eligible, Rejected
<1>5. CASE AsDecided(s, r)
  <2>1. s \notin held /\ own.enabled /\ own.action \notin Rejected
    BY <1>1, <1>5 DEF AsDecided, Eligible
  <2>2. CASE ~Local(r)
    BY <1>3, <1>5, <2>1, <2>2 DEF AsDecided
  <2>3. CASE Local(r)
    <3>1. own.source \in {"dummy", "panel"}
      BY <1>5, <2>3 DEF AsDecided, Local
    <3> QED
      BY <1>2, <2>1, <2>3, <3>1
  <2> QED
    BY <2>2, <2>3
<1>6. CASE EventRow(s, r)
  BY <1>2, <1>6 DEF EventRow, Local
<1>7. CASE HeadingRow(s, r)
  BY <1>2, <1>7 DEF HeadingRow, Local
<1>8. CASE Connection(s, r)
  <2>1. r.source = "epgshare01" /\ r.synthetic = "none" /\ r.id \in Usable
    BY <1>8 DEF Connection
  <2>2. Schedule(s, r) = <<"epgshare01", r.id>>
    BY <1>3, <2>1 DEF Local
  <2>3. Level(Schedule(s, r)) = 2 /\ r.id \in Range(Candidates)
    BY <2>1, <2>2 DEF Level, Usable
  <2> QED
    BY <1>8, <2>2, <2>3 DEF Connection
<1> QED
  BY <1>1, <1>4, <1>5, <1>6, <1>7, <1>8 DEF Origin, Loaded, Aside

LEMMA InvariantImpliesBoundMeansBound ==
    ASSUME IInv
    PROVE  BoundMeansBound
<1> SUFFICES ASSUME Written, NEW s \in Streams, ReportedBound(s),
                    NEW t \in Inventoried, Eligible(rows[t]), Gives(t, links[s].id)
             PROVE  Schedule(t, rows[t]) = Schedule(s, rows[s])
  BY DEF BoundMeansBound
<1> DEFINE i == links[s].id
<1>1. /\ links[s].status = "verified" /\ i # "none" /\ Eligible(rows[s])
      /\ Cardinality(Targets(i)) = 1
  BY DEF ReportedBound
<1>2. links[t].id = i /\ t \in Streams
  BY <1>1, WrittenFacts DEF Truth, Inventoried
<1>3. Schedule(t, rows[t]) \in Targets(i) /\ Schedule(s, rows[s]) \in Targets(i)
  BY <1>1, <1>2 DEF Targets
<1>4. IsFiniteSet(Targets(i))
  <2> DEFINE members == {u \in Streams : Eligible(rows[u]) /\ links[u].id = i}
  <2>1. IsFiniteSet(members)
    BY FS_Subset, GuideAssumption
  <2>2. Targets(i) = {Schedule(u, rows[u]) : u \in members}
    BY DEF Targets
  <2> HIDE DEF members
  <2> DEFINE f == [u \in members |-> Schedule(u, rows[u])]
  <2>3. f \in Surjection(members, Targets(i))
    BY <2>2 DEF Surjection
  <2> QED
    BY <2>1, <2>3, FS_Surjection
<1>5. PICK x : Targets(i) = {x}
  BY <1>1, <1>4, FS_Singleton
<1> QED
  BY <1>3, <1>5

-----------------------------------------------------------------------------
(* The contest for an ID.                                                   *)

\* Only a schedule under its own ID has the highest priority; a local stream has
\* none above that of its name.
LEMMA PriorityFacts ==
    ASSUME NEW s, NEW i, Priorities(s, i) # {}
    PROVE  /\ Max(Priorities(s, i)) \in -1 .. 2
           /\ Max(Priorities(s, i)) = 2 <=> ~Local(rows[s]) /\ rows[s].id = i
           /\ Max(Priorities(s, i)) = 0 <=> /\ Local(rows[s]) /\ rows[s].name = i
           /\ Max(Priorities(s, i)) = -1 <=> /\ rows[s].name # i
                                             /\ ~(~Local(rows[s]) /\ rows[s].id = i)
<1> DEFINE P == Priorities(s, i)
<1>1. /\ P \in SUBSET -1 .. 2
      /\ 2 \in P <=> ~Local(rows[s]) /\ rows[s].id = i
      /\ 1 \in P <=> ~Local(rows[s]) /\ rows[s].name = i
      /\ 0 \in P <=> Local(rows[s]) /\ rows[s].name = i
  BY DEF Priorities
<1> DEFINE top == Max(P)
<1>2. top \in P /\ \A m \in P : m <= top
  BY <1>1, MaxProperties
<1> HIDE DEF P, top
<1>3. /\ P \subseteq {-1, 0, 1, 2} /\ top \in {-1, 0, 1, 2}
      /\ 0 \in P => 1 \notin P /\ 2 \notin P
  BY <1>1, <1>2
<1>4. top = 2 <=> 2 \in P
  BY <1>2, <1>3
<1>5. top = 0 <=> 0 \in P
  BY <1>2, <1>3
<1>6. top = -1 <=> P \cap {0, 1, 2} = {}
  BY <1>2, <1>3
<1>7. /\ top \in -1 .. 2
      /\ top = 2 <=> ~Local(rows[s]) /\ rows[s].id = i
      /\ top = 0 <=> /\ Local(rows[s]) /\ rows[s].name = i
      /\ top = -1 <=> /\ rows[s].name # i
                         /\ ~(~Local(rows[s]) /\ rows[s].id = i)
  BY <1>1, <1>3, <1>4, <1>5, <1>6
<1> QED
  BY <1>7 DEF P, top

\* A local stream without a homonym has its name to itself, if no schedule that is
\* shown has the name for its ID.
LEMMA LocalUnderItsName ==
    ASSUME GuideTypeOK, NEW s \in Streams, Served(s), Local(rows[s]), ~HasOwnId(s),
           \A t \in Streams : Served(t) /\ ~Local(rows[t]) => rows[t].id # rows[s].name
    PROVE  Bound(s, rows[s].name)
<1> DEFINE i == rows[s].name
<1>1. \A t \in Streams : rows[t] \in Rows
  BY DEF GuideTypeOK
<1>2. s \in Homonyms(s)
  BY DEF Homonyms, Served
<1>3. Homonyms(s) = {s}
  <2>1. IsFiniteSet(Homonyms(s))
    BY FS_Subset, GuideAssumption DEF Homonyms
  <2>2. Cardinality(Homonyms(s)) \in Nat /\ Cardinality(Homonyms(s)) # 0
    BY <1>2, <2>1, FS_CardinalityType, FS_EmptySet
  <2>3. Cardinality(Homonyms(s)) = 1
    BY <2>2 DEF HasOwnId
  <2>4. PICK x : Homonyms(s) = {x}
    BY <2>1, <2>3, FS_Singleton
  <2> QED
    BY <1>2, <2>4
<1>4. s \in Contenders(i)
  BY DEF Contenders, Priorities
<1>5. Max(Priorities(s, i)) = 0
  BY <1>4, PriorityFacts DEF Contenders
<1>6. ASSUME NEW t \in Contenders(i), t # s
      PROVE  Max(Priorities(t, i)) = -1
  <2>1. t \in Streams /\ Served(t) /\ Priorities(t, i) # {}
    BY DEF Contenders
  <2>2. t \notin Homonyms(s)
    BY <1>3, <1>6
  <2>3. rows[t].name # i
    BY <2>1, <2>2 DEF Homonyms, Served
  <2>4. ~(~Local(rows[t]) /\ rows[t].id = i)
    BY <2>1
  <2> QED
    BY <2>1, <2>3, <2>4, PriorityFacts
<1>7. \A t \in Contenders(i) \ {s} : Beats(s, t, i) /\ ~Beats(t, s, i)
  BY <1>5, <1>6 DEF Beats
<1> DEFINE best == {u \in Contenders(i) : \A t \in Contenders(i) \ {u} : Beats(u, t, i)}
<1>8. best = {s}
  BY <1>4, <1>7
<1>9. (CHOOSE u \in best : TRUE) = s
  BY <1>8
<1>10. Entry(i) = Schedule(s, rows[s])
  BY <1>4, <1>9 DEF Entry
<1> QED
  BY <1>4, <1>10 DEF Bound

\* Among the schedules of one ID in their sources, one beats all others under it.
LEMMA SomebodyWins ==
    ASSUME GuideTypeOK, NEW s \in Streams, Served(s), ~Local(rows[s]),
           rows[s].id \in External
    PROVE  \E w \in Contenders(rows[s].id) :
              \A t \in Contenders(rows[s].id) \ {w} : Beats(w, t, rows[s].id)
<1> DEFINE i == rows[s].id
           L(t) == Level(Schedule(t, rows[t]))
           owners == {t \in Contenders(i) : ~Local(rows[t]) /\ rows[t].id = i}
           levels == {L(t) : t \in owners}
<1>1. \A t \in Streams : rows[t] \in Rows
  BY DEF GuideTypeOK
<1>2. s \in owners
  BY DEF Contenders, Priorities
<1>3. \A t \in Contenders(i) : t \in Streams /\ Served(t) /\ Priorities(t, i) # {}
  BY DEF Contenders
<1>4. \A t \in owners : Max(Priorities(t, i)) = 2
  BY <1>3, PriorityFacts
<1>5. \A t \in Contenders(i) \ owners : Max(Priorities(t, i)) < 2
  BY <1>3, PriorityFacts
<1>6. ASSUME NEW t \in owners
      PROVE  L(t) \in 0 .. 2
  <2>1. t \in Streams /\ Eligible(rows[t]) /\ ~Local(rows[t]) /\ rows[t].id = i
    BY <1>3 DEF Served
  <2>2. Schedule(t, rows[t]) = <<Effective(rows[t]), i>> /\ Effective(rows[t]) \in Sources
    BY <1>1, <2>1, GuideSchedule
  <2>3. L(t) = level[Effective(rows[t])][i]
    BY <2>2 DEF Level, Sources
  <2> QED
    BY <2>2, <2>3 DEF GuideTypeOK
<1>7. levels \in SUBSET -1 .. 2 /\ levels # {}
  BY <1>2, <1>6
<1>8. Max(levels) \in levels /\ \A m \in levels : m <= Max(levels)
  BY <1>7, MaxProperties
<1> DEFINE top == {t \in owners : L(t) = Max(levels)}
<1>9. top # {} /\ \A t \in owners \ top : L(t) < Max(levels)
  <2>1. PICK t \in owners : L(t) = Max(levels)
    BY <1>8
  <2>2. \A u \in owners : L(u) <= Max(levels) /\ L(u) \in 0 .. 2 /\ Max(levels) \in 0 .. 2
    BY <1>6, <1>8, <2>1
  <2> HIDE DEF L, levels, owners
  <2> QED
    BY <2>1, <2>2
<1>10. top \in SUBSET Nat
  BY <1>3, GuideAssumption
<1> DEFINE w == IF leaning \in top THEN leaning ELSE Min(top)
<1>11. w \in top /\ \A t \in top \ {w} : Leans(w, t)
  <2>1. CASE leaning \in top
    BY <2>1 DEF Leans
  <2>2. CASE leaning \notin top
    <3>1. Min(top) \in top /\ \A t \in top : Min(top) <= t
      BY <1>9, <1>10, MinProperties
    <3>2. w = Min(top)
      BY <2>2
    <3>3. \A t \in top : t \in Nat
      BY <1>10
    <3> HIDE DEF top, w
    <3>4. \A t \in top \ {w} : w < t /\ t # leaning
      BY <2>2, <3>1, <3>2, <3>3
    <3> QED
      BY <3>1, <3>2, <3>4 DEF Leans
  <2> QED
    BY <2>1, <2>2
<1> HIDE DEF w
<1>12. w \in Contenders(i) /\ Max(Priorities(w, i)) = 2 /\ L(w) = Max(levels)
  BY <1>4, <1>11
<1>13. ASSUME NEW t \in Contenders(i) \ {w}
       PROVE  Beats(w, t, i)
  <2>1. CASE t \notin owners
    BY <1>5, <1>12, <2>1 DEF Beats
  <2>2. CASE t \in owners \ top
    <3>1. Max(Priorities(t, i)) = 2 /\ L(w) > L(t)
      BY <1>4, <1>6, <1>9, <1>11, <1>12, <2>2
    <3> QED
      BY <1>12, <3>1 DEF Beats
  <2>3. CASE t \in top
    <3>1. Max(Priorities(t, i)) = 2 /\ L(w) = L(t) /\ Leans(w, t)
      BY <1>4, <1>11, <1>12, <2>3
    <3> QED
      BY <1>12, <3>1 DEF Beats
  <2> QED
    BY <2>1, <2>2, <2>3
<1> QED
  BY <1>12, <1>13

\* Under the ID of a schedule that is shown stands one of that ID in its source.
LEMMA OwnersAreShown ==
    ASSUME IInv, Written, NEW s \in Streams, Served(s), ~Local(rows[s])
    PROVE  Entry(rows[s].id) \in Sources \X {rows[s].id}
<1> DEFINE i == rows[s].id
           best == {u \in Contenders(i) : \A t \in Contenders(i) \ {u} : Beats(u, t, i)}
           w == CHOOSE u \in best : TRUE
<1>1. i \in External
  BY WrittenFacts, GuideIds DEF Served
<1>2. best # {}
  BY WrittenFacts, <1>1, SomebodyWins
<1>3. w \in best
  BY <1>2
<1>4. s \in Contenders(i) /\ Max(Priorities(s, i)) = 2
  <2>1. s \in Contenders(i)
    BY DEF Contenders, Priorities
  <2> QED
    BY <2>1, PriorityFacts DEF Contenders
<1>5. Entry(i) = Schedule(w, rows[w])
  BY <1>4 DEF Entry
<1> HIDE DEF w
<1>6. w \in Contenders(i) /\ (w # s => Beats(w, s, i))
  BY <1>3, <1>4
<1>7. w \in Streams /\ Eligible(rows[w]) /\ Priorities(w, i) # {}
  BY <1>6 DEF Contenders, Served
<1>8. Max(Priorities(w, i)) \in -1 .. 2
  BY <1>7, PriorityFacts
<1>9. Max(Priorities(w, i)) = 2
  BY <1>4, <1>6, <1>8 DEF Beats
<1>10. ~Local(rows[w]) /\ rows[w].id = i
  BY <1>7, <1>9, PriorityFacts
<1>11. Schedule(w, rows[w]) = <<Effective(rows[w]), i>> /\ Effective(rows[w]) \in Sources
  BY WrittenFacts, <1>7, <1>10, GuideSchedule
<1> HIDE DEF i
<1>12. Entry(i) \in Sources \X {i}
  BY <1>5, <1>11
<1> QED
  BY <1>12 DEF i

LEMMA InvariantImpliesHiddenOnlyByOwner ==
    ASSUME IInv
    PROVE  HiddenOnlyByOwner
<1> SUFFICES ASSUME Written, NEW s \in Streams, Served(s), Local(rows[s]), ~HasOwnId(s)
             PROVE  \/ Bound(s, rows[s].name)
                    \/ Entry(rows[s].name) \in Sources \X {rows[s].name}
  BY OwnersAreShown DEF HiddenOnlyByOwner
<1>1. CASE \E t \in Streams : Served(t) /\ ~Local(rows[t]) /\ rows[t].id = rows[s].name
  BY <1>1, OwnersAreShown
<1>2. CASE \A t \in Streams : Served(t) /\ ~Local(rows[t]) => rows[t].id # rows[s].name
  BY <1>2, LocalUnderItsName, WrittenFacts
<1> QED
  BY <1>1, <1>2

-----------------------------------------------------------------------------
(***************************************************************************)
(* The theorems.                                                           *)
(***************************************************************************)
\* However a build ends, it leaves the guide before it until its own is complete;
\* a build that is killed has at most moved it aside, and what is shown of the
\* native guide while the provider is down is current.
THEOREM FailedBuildsKeepTheGuide == BuildSpec => []GuideInv
<1>1. IInv => GuideInv
  BY InvariantImpliesGuideInv
<1> QED
  BY <1>1, Invariance, PTL

\* Every schedule that a written guide shows was decided in the Sheet, is of a
\* reviewed and proven channel, or is a placeholder that is decided or proven.
THEOREM SchedulesAreDecided == BuildSpec => []ScheduleIsDecided
<1>1. IInv => ScheduleIsDecided
  BY InvariantImpliesScheduleIsDecided
<1> QED
  BY <1>1, Invariance, PTL

\* What the health report calls bound shows the schedule of every stream to which
\* the provider gives the ID.
THEOREM BoundIdsAreBound == BuildSpec => []BoundMeansBound
<1>1. IInv => BoundMeansBound
  BY InvariantImpliesBoundMeansBound
<1> QED
  BY <1>1, Invariance, PTL

\* A schedule of a source stays under its ID, and a local stream that has neither an ID of
\* its own nor its name lost the name to a schedule whose ID it is: whatever names, aliases
\* and IDs meet under an ID, a name that is another stream's ID included
\* (build_xml_entries).
THEOREM OnlyOwnersHide == BuildSpec => []HiddenOnlyByOwner
<1>1. IInv => HiddenOnlyByOwner
  BY InvariantImpliesHiddenOnlyByOwner
<1> QED
  BY <1>1, Invariance, PTL

=============================================================================
