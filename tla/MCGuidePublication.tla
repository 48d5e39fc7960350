--------------------------- MODULE MCGuidePublication ---------------------------
(***************************************************************************)
(* From a guide to the site, for TLC: the build of one server's guide      *)
(* (GuideBuild), and the publication of what build jobs leave              *)
(* (Publication), for which such a build is a job that succeeds or fails.  *)
(* A behaviour is one of the two; the other stays as it starts.            *)
(***************************************************************************)
EXTENDS MCPublication, GuideBuild

VARIABLE which   \* of the two this behaviour is

Row(name, action, source, id, enabled, reason) ==
    [name |-> name, enabled |-> enabled, source |-> source, action |-> action,
     id |-> id, reason |-> reason, synthetic |-> "none", names |-> {}, aliases |-> {}]

\* The decisions: native, EPGShare, local (also of a channel that
\* is named as a guide ID is), by hand, under review, excluded.
MCRows == {
    Row("news", "KEEP_PANEL", "panel", "x", TRUE, "none"),
    Row("news", "AUTO_EPGSHARE", "epgshare01", "x", TRUE, "none"),
    Row("news", "AUTO_DUMMY", "dummy", "dummy", TRUE, "none"),
    Row("x", "AUTO_DUMMY", "dummy", "dummy", TRUE, "none"),
    Row("old", "KEEP_PANEL", "panel", "x", TRUE, "none"),
    Row("old", "REVIEW", "panel", "x", FALSE, "none"),
    Row("old", "IGNORE", "dummy", "none", FALSE, "none"),
    Row("versus", "REVIEW", "epgshare01", "none", FALSE, "none"),
    Row("plus", "REVIEW", "panel", "x", FALSE, "none"),
    Row("plus", "AUTO_EPGSHARE", "epgshare01", "x", TRUE, "none"),
    Row("plus", "MANUAL", "dummy", "dummy", TRUE, "none"),
    Row("head", "IGNORE", "dummy", "dummy", FALSE, "none")}

Of(name, id, line) == [name |-> name, id |-> id, line |-> line]
As(name, id) == [name |-> name, id |-> id]

\* How the provider lists a stream of a name: with an ID in the API, in the
\* playlist, in both, in neither; under the next payload of its slot; as another
\* channel; not at all.
Rotated(name) == IF name = "old" THEN "new" ELSE name
MCListings(name) == {
    Of("none", "none", NoLine),
    Of(name, "none", NoLine), Of(Rotated(name), "x", NoLine),
    Of(name, "none", As(name, "x")), Of(Rotated(name), "y", As(name, "x")),
    Of("other", "x", As(name, "x"))}

MCOthers == {r \in MCRows : r.action \in {"KEEP_PANEL", "AUTO_EPGSHARE"} \/ r.name = "plus"}

\* Server 1 was never published, Server 2 was.
MCCandidates == <<"y", "x">>

MCInputs == UNION {
    {[server |-> number, before |-> IF number = "server_1" THEN Absent ELSE "old",
      sheet |-> <<a, b>>, held |-> aside, feed |-> <<f, g>>] :
        number \in {"server_1", "server_2"}, aside \in {{}, {1}},
        f \in MCListings(a.name), g \in MCListings(b.name)} :
    a \in MCRows, b \in MCOthers}

\* A build that does not run.
MCIdle == CHOOSE input \in MCInputs : TRUE

MCInit ==
    /\ Init /\ BuildInit
    /\ \/ which = "build"
       \/ /\ which = "publication"
          /\ inputs = <<MCIdle.server, MCIdle.sheet, MCIdle.held, MCIdle.feed, MCIdle.before>>

MCNext ==
    \/ which = "publication" /\ Next /\ UNCHANGED <<which, buildVars>>
    \/ which = "build" /\ BuildNext /\ UNCHANGED <<which, vars>>

MCSpec == MCInit /\ [][MCNext]_<<which, vars, buildVars>>
=============================================================================
