------------------------------ MODULE GuideBuild ------------------------------
(***************************************************************************)
(* One guide build (scripts/build_epg_streaming.py) of one server: from    *)
(* the mapping rows of the private Sheet and the inventory of the          *)
(* provider, through the sources of programmes, to the XMLTV guide that    *)
(* takes the place of the one before.                                      *)
(*                                                                         *)
(* The Sheet decides the schedule of every stream.  The inventory of the   *)
(* same run (sync_channel_inventory.py) says what the provider calls the   *)
(* stream today and which guide ID its API and its M3U playlist give it:   *)
(* a name that only rotates in its slot is shown at once, and the IDs      *)
(* become aliases under which a player finds the stream's schedule.  What  *)
(* is published under an ID is settled last, when aliases, names and IDs   *)
(* of several streams meet, and after some schedules turned out missing.   *)
(*                                                                         *)
(* A name stands for its spellings, and an EPGShare ID for its.  The level *)
(* of a schedule is how good its retained programmes are.  The process     *)
(* forgets what it read when it ends early.                                *)
(***************************************************************************)
EXTENDS Integers, SequencesExt

CONSTANTS
    Streams,          \* the numbers of the streams, in their order
    Inputs,           \* what a build may be given
    Candidates,       \* reviewed EPGShare IDs of the channel "plus", best first
    MinimumCoverage,  \* percentage of the streams that must have programmes
    NoLine, Absent

External == {"x", "y"}   \* IDs, of EPGShare and of the provider alike
Ids == External \cup {"none", "dummy", "local"}
\* A channel may be named as an ID is: under names and IDs the guide has one dictionary.
Names == {"news", "plus", "head", "old", "new", "versus", "other"} \cup External
Slot == {"old", "new"}      \* two payloads of one numbered event slot
Descriptive == {"versus"}   \* an event named without a slot

Rejected == {"REVIEW", "IGNORE"}
Reasons == {"none", "manual", "quarantine", "event"}

Rows == [name : Names, enabled : BOOLEAN, source : {"panel", "epgshare01", "dummy"},
         action : {"KEEP_PANEL", "AUTO_EPGSHARE", "AUTO_DUMMY", "MANUAL"} \cup Rejected,
         id : Ids, reason : Reasons, synthetic : {"none", "event", "heading", "outage"},
         names : SUBSET Names, aliases : SUBSET External]

Lines == [name : Names, id : {"none"} \cup External]
Listings == [name : Names \cup {"none"}, id : {"none"} \cup External, line : Lines \cup {NoLine}]

Statuses == {"verified", "shared_id", "name_only", "name_mismatch", "conflicting_id",
             "unverified", "unavailable"}
\* A row of the Sheet: it names no reserved reason, and only a dummy's ID is not one of
\* a guide's.  What the build makes of a row it has not yet.
Decisions ==
    {r \in Rows : /\ r.reason \in {"none", "manual"} /\ r.synthetic = "none"
                  /\ r.names = {} /\ r.aliases = {}
                  /\ r.source # "dummy" => r.id \in External \cup {"none"}}

Links == [status : Statuses, id : {"none"} \cup External, shared : {"none"} \cup External,
          verified : BOOLEAN]

ASSUME GuideAssumption ==
    /\ Streams \subseteq Nat /\ IsFiniteSet(Streams) /\ Streams # {}
    /\ Candidates \in Seq(External) /\ MinimumCoverage \in Nat
    /\ NoLine \notin Lines /\ Absent \notin {"old", "new"}
    /\ \A input \in Inputs :
          /\ input.server \in {"server_1", "server_2"} /\ input.before \in {"old", Absent}
          /\ input.sheet \in [Streams -> Decisions] /\ input.held \subseteq Streams
          /\ input.feed \in [Streams -> Listings]

VARIABLES
    server,   \* of this build
    sheet,    \* the decisions of its streams, as the Sheet has them
    held,     \* the streams in safety quarantine
    feed,     \* the provider's inventory
    before,   \* the guide published before this build
    rows,     \* the rows as this build goes on with them
    links,    \* its proofs of the provider's guide IDs
    level,    \* of the retained programmes, by source and ID
    panel,    \* how the native guide came
    leaning,  \* the stream whose schedule is the better of two of one level
    stage,
    public, backup

inputs == <<server, sheet, held, feed, before>>
memory == <<rows, links, level, panel, leaning>>
buildVars == <<inputs, memory, stage, public, backup>>

Sources == {"panel", "epgshare01"}
Unread == [c \in Sources |-> [i \in External |-> 0]]

Working == {"loading", "reading", "connecting", "fetching", "writing"}
Moving == {"publishing", "moved", "placed"}

GuideTypeOK ==
    /\ server \in {"server_1", "server_2"}
    /\ sheet \in [Streams -> Rows] /\ held \subseteq Streams /\ feed \in [Streams -> Listings]
    /\ rows \in [Streams -> Rows] /\ links \in [Streams -> Links]
    /\ level \in [Sources -> [External -> 0 .. 2]]
    /\ panel \in {"unread", "fresh", "cached", "down"} /\ leaning \in Streams
    /\ stage \in Working \cup Moving \cup {"done", "failed", "unreconciled", "killed"}
    /\ before \in {"old", Absent} /\ public \in {before, "new", Absent} /\ backup \in {"old", Absent}

NoLink == [status |-> "unavailable", id |-> "none", shared |-> "none", verified |-> FALSE]

Forget ==
    /\ rows' = sheet /\ links' = [s \in Streams |-> NoLink]
    /\ level' = Unread /\ panel' = "unread" /\ leaning' = Min(Streams)

BuildInit ==
    /\ \E input \in Inputs :
          /\ server = input.server /\ sheet = input.sheet /\ held = input.held
          /\ feed = input.feed /\ before = input.before
    /\ public = before
    /\ rows = sheet /\ links = [s \in Streams |-> NoLink]
    /\ level = Unread /\ panel = "unread" /\ leaning = Min(Streams)
    /\ stage = "loading" /\ backup = Absent

-----------------------------------------------------------------------------
(***************************************************************************)
(* A row.                                                                  *)
(***************************************************************************)
\* The native guide of Server 1 is never read.
Effective(r) == IF server = "server_1" /\ r.source = "panel" THEN "epgshare01" ELSE r.source

Local(r) == r.source = "dummy" \/ r.synthetic # "none"

Blocked(r) == ~Local(r) /\ server = "server_1" /\ r.source = "panel"

Eligible(r) == r.enabled /\ r.action \notin Rejected /\ r.id # "none" /\ ~Blocked(r)

\* The schedule of stream s by row r.
Schedule(s, r) == IF Local(r) THEN <<"synthetic", s>> ELSE <<Effective(r), r.id>>

Level(schedule) ==
    IF schedule[1] = "synthetic" THEN 2 ELSE level[schedule[1]][schedule[2]]

Quarantined(r) == [r EXCEPT !.enabled = FALSE, !.action = "REVIEW", !.reason = "quarantine"]

-----------------------------------------------------------------------------
(***************************************************************************)
(* What the inventory proves of the provider's names and IDs.              *)
(***************************************************************************)
Inventoried == {s \in Streams : feed[s].name # "none"}

\* Server 1 is asked for its playlist only if its API leaves out an ID.
Playlist(s) ==
    IF server = "server_2" \/ \E t \in Inventoried : feed[t].id = "none" THEN feed[s].line ELSE NoLine

InPlaylist(i) == {s \in Inventoried : Playlist(s) # NoLine /\ Playlist(s).id = i}

Presentation(a, b) == {a, b} \subseteq Slot \/ (a = b /\ a \in Descriptive)

\* An ID of the stream in the API and in the playlist, where they agree.
Proof(s) ==
    LET line == Playlist(s)
        id == IF line # NoLine /\ line.id # "none" THEN line.id ELSE feed[s].id
        Is(status, i, shared) ==
            [status |-> status, id |-> i, shared |-> shared, verified |-> FALSE]
    IN  IF s \notin Inventoried THEN NoLink
        ELSE IF line = NoLine
        THEN Is(IF id = "none" THEN "name_only" ELSE "verified", id, "none")
        ELSE IF line.name # feed[s].name THEN Is("name_mismatch", "none", "none")
        ELSE IF line.id # "none" /\ feed[s].id \notin {"none", line.id}
        THEN Is("conflicting_id", "none", "none")
        ELSE IF id = "none" THEN Is("name_only", "none", "none")
        ELSE IF Cardinality(InPlaylist(id)) > 1 THEN Is("shared_id", "none", id)
        ELSE Is("verified", id, "none")

\* The streams that claim an ID, the unsuitable ones too.
Claims(i) ==
    {s \in Inventoried : feed[s].id = i \/ Proof(s).id = i}
        \cup (IF \E s \in Inventoried : Proof(s).shared = i THEN InPlaylist(i) ELSE {})

\* Mutant of Hint: the provider gives an ID to one stream only.
TrustingHint(s) == Proof(s)

Hint(s) ==
    IF Proof(s).id # "none" /\ Cardinality(Claims(Proof(s).id)) # 1
    THEN [Proof(s) EXCEPT !.status = "shared_id", !.id = "none", !.shared = Proof(s).id]
    ELSE Proof(s)

\* The name and the ID that the playlist gives an event of Server 2.
EventNames(s) ==
    IF server = "server_2" /\ Playlist(s) # NoLine
       /\ Presentation(feed[s].name, Playlist(s).name)
    THEN {Playlist(s).name} ELSE {}

EventIds(s) ==
    {i \in External : EventNames(s) # {} /\ InPlaylist(i) = {s}}

-----------------------------------------------------------------------------
(***************************************************************************)
(* Loading: quarantine, rotating events, proven links.                     *)
(***************************************************************************)
\* A heading that the machine classified, still listed as one.
Heading(s, r) ==
    /\ r.reason # "quarantine" /\ r.name = "head" /\ feed[s].name = "head"
    /\ r.source = "dummy" /\ r.enabled = (r.action = "AUTO_DUMMY")
    /\ r.action \in {"AUTO_DUMMY", "IGNORE"}

AsHeading(r) ==
    [r EXCEPT !.enabled = TRUE, !.action = "AUTO_DUMMY", !.id = "local",
              !.synthetic = "heading"]

SameSlot(s, r) == {r.name, feed[s].name} \subseteq Slot

\* Mutant of SameEvent: a descriptive event keeps its stream in a quarantine too.
SameNamedEvent(s, r) == r.name = feed[s].name /\ r.name \in Descriptive

SameEvent(s, r) ==
    r.reason # "quarantine" /\ r.name = feed[s].name /\ r.name \in Descriptive

\* The name of today, and what else the playlist proves of it.
Retitled(s, r) ==
    [r EXCEPT !.name = feed[s].name,
              !.names = ({r.name} \cup EventNames(s)) \ {feed[s].name},
              !.aliases = EventIds(s)]

\* An unresolved event is its own guide: the row leaves the review, for this
\* build, with the source it had.
AsEvent(r) ==
    IF Eligible(r) \/ r.action # "REVIEW" THEN r
    ELSE [r EXCEPT !.enabled = TRUE, !.action = "AUTO_DUMMY", !.id = "local",
                   !.reason = IF @ = "quarantine" THEN "event" ELSE @,
                   !.synthetic = "event"]

Overlaid(s, r) ==
    IF s \notin Inventoried THEN r
    ELSE IF Heading(s, r) THEN AsHeading(r)
    ELSE IF SameSlot(s, r) \/ SameEvent(s, r) THEN AsEvent(Retitled(s, r))
    ELSE r

\* A link holds for the channel that the row names, outside of a quarantine.
Link(s, r) ==
    LET ok == /\ s \in Inventoried /\ r.reason # "quarantine" /\ r.name = feed[s].name
              /\ Hint(s).status \notin {"name_mismatch", "unavailable"}
    IN  [Hint(s) EXCEPT !.verified = ok, !.status = IF ok THEN @ ELSE "unverified"]

Linked(s, r) ==
    LET link == Link(s, r)
    IN  IF link.status = "verified" THEN [r EXCEPT !.aliases = @ \cup {link.id}] ELSE r

Load ==
    /\ stage = "loading"
    /\ \E s \in Streams \ held : sheet[s].enabled
    /\ LET snapshot == [s \in Streams |-> IF s \in held THEN Quarantined(sheet[s]) ELSE sheet[s]]
           events == [s \in Streams |-> Overlaid(s, snapshot[s])]
       IN  /\ rows' = [s \in Streams |-> Linked(s, events[s])]
           /\ links' = [s \in Streams |-> Link(s, events[s])]
    /\ stage' = "reading"
    /\ UNCHANGED <<inputs, level, panel, leaning, public, backup>>

-----------------------------------------------------------------------------
(***************************************************************************)
(* Reading EPGShare, connecting reviewed channels, sharing IDs.            *)
(***************************************************************************)
\* A decision or a quarantine that a reviewed connection leaves alone.
Connectable(r) ==
    /\ server = "server_1" /\ r.name = "plus"
    /\ r.action \notin {"IGNORE", "MANUAL"} /\ r.reason \notin {"quarantine", "manual"}
    /\ r.action = "REVIEW" \/ r.enabled

Wanted ==
    {rows[s].id : s \in {t \in Streams : Eligible(rows[t]) /\ ~Local(rows[t])
                                          /\ Effective(rows[t]) = "epgshare01"}}
        \cup {i \in Range(Candidates) : \E s \in Streams : Connectable(rows[s])}

\* The levels, after source c gave those of some IDs.
LevelsRead(c, found) ==
    [level EXCEPT ![c] = [i \in External |-> IF i \in DOMAIN found THEN found[i] ELSE @[i]]]

\* What the sources hold of the wanted IDs: nothing, programmes of which none is
\* near, or a current guide.
ReadShared ==
    /\ stage = "reading" /\ stage' = "connecting"
    /\ \E found \in [Wanted -> 0 .. 2] : level' = LevelsRead("epgshare01", found)
    /\ UNCHANGED <<inputs, rows, links, panel, leaning, public, backup>>

Usable == {i \in Range(Candidates) : level["epgshare01"][i] = 2}
Best == Candidates[Min({n \in DOMAIN Candidates : Candidates[n] \in Usable})]

\* Mutant of Connected: the name of the row suffices.
ConnectedByName(s, r) ==
    IF ~Connectable(r) \/ Usable = {} THEN r
    ELSE [r EXCEPT !.enabled = TRUE, !.action = "AUTO_EPGSHARE",
                   !.source = "epgshare01", !.id = Best, !.synthetic = "none"]

\* The row keeps its own ID if that is one of the usable candidates.
Connected(s, r) ==
    LET own == ~Local(r) /\ Effective(r) = "epgshare01" /\ r.id \in Usable
    IN  IF ~Connectable(r) \/ ~links[s].verified \/ Usable = {} THEN r
        ELSE [r EXCEPT !.enabled = TRUE,
                       !.action = IF own /\ Eligible(r) THEN @ ELSE "AUTO_EPGSHARE",
                       !.source = "epgshare01",
                       !.id = IF own THEN @ ELSE Best, !.synthetic = "none"]

\* The streams that the provider gives one ID have it as an alias if each of
\* them is proven and all have one schedule.
Agree(i, r) ==
    LET members == {s \in Streams : links[s].shared = i}
    IN  /\ Cardinality(members) = Cardinality(Claims(i)) /\ Cardinality(members) > 1
        /\ \A s \in members : links[s].verified /\ links[s].status = "shared_id" /\ Eligible(r[s])
        /\ Cardinality({Schedule(s, r[s]) : s \in members}) = 1

Connect ==
    /\ stage = "connecting" /\ stage' = "fetching"
    /\ LET r == [s \in Streams |-> Connected(s, rows[s])]
           Shares(s) == links[s].shared # "none" /\ Agree(links[s].shared, r)
       IN  /\ rows' = [s \in Streams |->
                         IF Shares(s) THEN [r[s] EXCEPT !.aliases = @ \cup {links[s].shared}]
                         ELSE r[s]]
           /\ links' = [s \in Streams |->
                         IF Shares(s) THEN [links[s] EXCEPT !.id = links[s].shared,
                                                            !.status = "verified"]
                         ELSE links[s]]
    /\ UNCHANGED <<inputs, level, panel, leaning, public, backup>>

-----------------------------------------------------------------------------
(***************************************************************************)
(* The provider's native guide, and placeholders for what it does not give.*)
(***************************************************************************)
Native == {s \in Streams : server # "server_1" /\ Eligible(rows[s])
                             /\ Effective(rows[s]) = "panel"}

NativeIds == {rows[s].id : s \in Native}

FellBack(ids) ==
    [s \in Streams |-> IF s \in Native /\ rows[s].id \in ids
                       THEN [rows[s] EXCEPT !.synthetic = "outage"] ELSE rows[s]]

NoNative ==
    /\ stage = "fetching" /\ Native = {} /\ stage' = "writing"
    /\ UNCHANGED <<inputs, memory, public, backup>>

FetchPanel ==
    /\ stage = "fetching" /\ Native # {} /\ stage' = "writing" /\ panel' = "fresh"
    /\ \E found \in [NativeIds \cap External -> 0 .. 2] : level' = LevelsRead("panel", found)
    /\ UNCHANGED <<inputs, rows, links, leaning, public, backup>>

\* Down, in a cooldown or not, and no saved guide, or one that does not parse.
PanelDown ==
    /\ stage = "fetching" /\ Native # {} /\ stage' = "writing" /\ panel' = "down"
    /\ rows' = FellBack(NativeIds)
    /\ UNCHANGED <<inputs, links, level, leaning, public, backup>>

\* Mutant of CurrentIds: a saved schedule with programmes is good enough.
Kept(found) == {i \in DOMAIN found : found[i] > 0}

CurrentIds(found) == {i \in DOMAIN found : found[i] = 2}

\* Of a saved guide, the schedules that are still current; the others are dropped.
PanelCached ==
    /\ stage = "fetching" /\ Native # {} /\ stage' = "writing" /\ panel' = "cached"
    /\ \E found \in [NativeIds \cap External -> 0 .. 2] :
          LET usable == CurrentIds(found)
          IN  /\ level' = LevelsRead("panel", [i \in usable |-> found[i]])
              /\ rows' = FellBack(NativeIds \ usable)
    /\ UNCHANGED <<inputs, links, leaning, public, backup>>

-----------------------------------------------------------------------------
(***************************************************************************)
(* The guide.  An entry shows one schedule; the streams that could be      *)
(* found under its ID compete for it.                                      *)
(***************************************************************************)
Served(s) == Eligible(rows[s]) /\ Level(Schedule(s, rows[s])) > 0

Homonyms(s) == {t \in Streams : Eligible(rows[t]) /\ rows[t].name = rows[s].name}

\* Streams of one name have an ID of their own beside it if they are local.
HasOwnId(s) == Local(rows[s]) /\ Cardinality(Homonyms(s)) > 1

\* The priority with which a stream stands under an ID.
Priorities(s, i) ==
    LET r == rows[s]
    IN  (IF ~Local(r) /\ r.id = i THEN {2} ELSE {})
          \cup (IF r.name = i THEN {IF Local(r) THEN 0 ELSE 1} ELSE {})
          \cup (IF i \in r.names \cup r.aliases THEN {-1} ELSE {})

Contenders(i) == {s \in Streams : Served(s) /\ Priorities(s, i) # {}}

\* Schedules of one level still differ, in how far they reach.
Leans(s, t) == s = leaning \/ (t # leaning /\ s < t)

\* Mutant of Beats: the better schedule wins, whatever it stands under the ID for.
BeatsByLevel(s, t, i) ==
    \/ Level(Schedule(s, rows[s])) > Level(Schedule(t, rows[t]))
    \/ Level(Schedule(s, rows[s])) = Level(Schedule(t, rows[t])) /\ Leans(s, t)

Beats(s, t, i) ==
    LET p == Max(Priorities(s, i))
        q == Max(Priorities(t, i))
        l == Level(Schedule(s, rows[s]))
        k == Level(Schedule(t, rows[t]))
    IN  p > q \/ (p = q /\ (l > k \/ (l = k /\ Leans(s, t))))

\* The schedule under an ID.
Entry(i) ==
    LET best == {s \in Contenders(i) : \A t \in Contenders(i) \ {s} : Beats(s, t, i)}
    IN  IF Contenders(i) = {} THEN Absent
        ELSE LET s == CHOOSE s \in best : TRUE IN Schedule(s, rows[s])

Bound(s, i) == Contenders(i) # {} /\ Entry(i) = Schedule(s, rows[s])

\* What the health report says of the ID that the provider gives a stream.
Targets(i) == {Schedule(s, rows[s]) : s \in {t \in Streams : Eligible(rows[t]) /\ links[t].id = i}}

\* Mutant of ReportedBound: the entry decides.
EntryBound(s) ==
    /\ links[s].status = "verified" /\ links[s].id # "none" /\ Eligible(rows[s])
    /\ Bound(s, links[s].id)

ReportedBound(s) ==
    /\ links[s].status = "verified" /\ links[s].id # "none" /\ Eligible(rows[s])
    /\ Cardinality(Targets(links[s].id)) = 1
    /\ Bound(s, links[s].id)

\* The accounting of all rows, with the native guide of Server 1 excluded.
Reconciled ==
    server = "server_1" => \A s \in Streams : rows[s].source # "panel" \/ ~Served(s)

Counted == {s \in Streams : Eligible(rows[s]) /\ rows[s].synthetic # "heading"}

CoverageMet ==
    100 * Cardinality({s \in Counted : Served(s)})
        >= MinimumCoverage * (IF Counted = {} THEN 1 ELSE Cardinality(Counted))

Write ==
    /\ stage = "writing" /\ Reconciled /\ CoverageMet /\ stage' = "publishing"
    /\ leaning' \in Streams
    /\ UNCHANGED <<inputs, rows, links, level, panel, public, backup>>

WriteFails ==
    /\ stage = "writing" /\ Reconciled /\ ~CoverageMet /\ stage' = "failed" /\ Forget
    /\ UNCHANGED <<inputs, public, backup>>

ReconcileFails ==
    /\ stage = "writing" /\ ~Reconciled /\ stage' = "unreconciled" /\ Forget
    /\ UNCHANGED <<inputs, public, backup>>

-----------------------------------------------------------------------------
(***************************************************************************)
(* Publishing: the new directory takes the place of the old one.           *)
(***************************************************************************)
MoveOld ==
    /\ stage = "publishing" /\ stage' = "moved"
    /\ public' = Absent /\ backup' = public
    /\ UNCHANGED <<inputs, memory>>

PlaceNew ==
    /\ stage = "moved" /\ stage' = "placed" /\ public' = "new"
    /\ UNCHANGED <<inputs, memory, backup>>

\* Mutant of PlaceFails: nothing is put back.
PlaceGivesUp ==
    /\ stage = "moved" /\ stage' = "failed" /\ Forget
    /\ UNCHANGED <<inputs, public, backup>>

PlaceFails ==
    /\ stage = "moved" /\ stage' = "failed" /\ Forget
    /\ public' = backup /\ backup' = Absent
    /\ UNCHANGED inputs

DropOld ==
    /\ stage = "placed" /\ stage' = "done" /\ backup' = Absent
    /\ UNCHANGED <<inputs, memory, public>>

\* A source that does not parse, a full disk, a step out of time.
Fail ==
    /\ stage \in Working \cup {"publishing"} /\ stage' = "failed" /\ Forget
    /\ UNCHANGED <<inputs, public, backup>>

Kill ==
    /\ stage \in Moving /\ stage' = "killed" /\ Forget
    /\ UNCHANGED <<inputs, public, backup>>

BuildNext ==
    \/ Load \/ ReadShared \/ Connect
    \/ NoNative \/ FetchPanel \/ PanelDown \/ PanelCached
    \/ Write \/ WriteFails \/ ReconcileFails
    \/ MoveOld \/ PlaceNew \/ PlaceFails \/ DropOld
    \/ Fail \/ Kill

BuildSpec == BuildInit /\ [][BuildNext]_buildVars

-----------------------------------------------------------------------------
(***************************************************************************)
(* Properties.                                                             *)
(***************************************************************************)
Written == stage \in Moving \cup {"done"}

\* While the provider is down its schedules are shown only as far as they are
\* current; nothing of an older guide stands beside them.
CachedGuideIsCurrent ==
    Written /\ panel # "fresh" => \A s \in Streams :
        Served(s) /\ Schedule(s, rows[s])[1] = "panel" =>
            panel = "cached" /\ Level(Schedule(s, rows[s])) = 2

GuideInv ==
    /\ GuideTypeOK
    \* A build that fails leaves the guide before it, one that is killed at most
    \* moved it aside.
    /\ stage \in Working \cup {"publishing", "failed", "unreconciled"} =>
          public = before /\ backup = Absent
    /\ stage = "killed" => public = "new" \/ before \in {public, backup}
    /\ CachedGuideIsCurrent

\* The event that the row names is still in its slot, or is still the event.
ProvenEvent(s) ==
    \/ {sheet[s].name, feed[s].name} \subseteq Slot
    \/ s \notin held /\ sheet[s].name = feed[s].name /\ sheet[s].name \in Descriptive

\* A schedule that is not the stream's own comes from the Sheet's decision for
\* it, in the source that was decided, or from a reviewed candidate that is
\* current, of a channel that the inventory proves and nobody decided by hand; of
\* a stream in quarantine it never comes.  A placeholder is decided, stands in for
\* the native guide, or names an event or a heading that the inventory proves.
ScheduleIsDecided ==
    Written => \A s \in Streams : Served(s) =>
        LET own == sheet[s]
            schedule == Schedule(s, rows[s])
            decided == s \notin held /\ own.enabled /\ own.action \notin Rejected
        IN  \/ decided /\ schedule = <<own.source, own.id>>
            \/ /\ schedule = <<"epgshare01", rows[s].id>> /\ server = "server_1"
               /\ rows[s].id \in Range(Candidates) /\ Level(schedule) = 2
               /\ s \notin held /\ own.action # "MANUAL" /\ own.reason # "manual"
               /\ own.name = "plus" /\ feed[s].name = "plus"
            \/ /\ schedule = <<"synthetic", s>>
               /\ \/ decided /\ own.source \in {"dummy", "panel"}
                  \/ ProvenEvent(s)
                  \/ s \notin held /\ own.name = "head" /\ feed[s].name = "head"

\* The provider gives stream s the guide ID i, and does not contradict itself.
Gives(s, i) ==
    \/ feed[s].id = i
    \/ /\ feed[s].id = "none" /\ Playlist(s) # NoLine
       /\ Playlist(s).id = i /\ Playlist(s).name = feed[s].name

\* An ID that the health report calls bound shows the schedule of every stream
\* to which the provider gives it, whatever was connected, shared or fell back
\* after the ID was proven.
BoundMeansBound ==
    Written => \A s \in Streams : ReportedBound(s) =>
        \A t \in Inventoried : Eligible(rows[t]) /\ Gives(t, links[s].id) =>
            Schedule(t, rows[t]) = Schedule(s, rows[s])

\* Whatever meets under an ID, and be it a name and an ID: a schedule stays under the ID
\* it has in its source, if not one of the same ID in the other source; a local stream
\* is found by an ID of its own or by its name, and only where that name is the ID of a
\* schedule that is shown there does it lose it (build_xml_entries: the stream then
\* stands under none).
HiddenOnlyByOwner ==
    Written => \A s \in Streams : Served(s) =>
        LET Owned(i) == Entry(i) \in Sources \X {i}
        IN  IF Local(rows[s])
            THEN HasOwnId(s) \/ Bound(s, rows[s].name) \/ Owned(rows[s].name)
            ELSE Owned(rows[s].id)

\* Rows that the operator excluded are not published, also not as an event
\* ("Explicit IGNORE/SKIP/REJECTED decisions remain excluded").
IgnoredStaysExcluded ==
    Written => \A s \in Streams :
        sheet[s].action = "IGNORE" /\ sheet[s].name # "head" => ~Served(s)

\* The accounting holds of every row the build itself may make ("can give an
\* unresolved slot its own local synthetic schedule").
AccountingHolds == stage # "unreconciled"
=============================================================================
