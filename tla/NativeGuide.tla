----------------------------- MODULE NativeGuide -----------------------------
(***************************************************************************)
(* The last good native guides of the providers: saved, sealed and         *)
(* restored by scripts/private_panel_cache.py, used when a provider is     *)
(* down by the guide build (scripts/build_epg_streaming.py), asked for     *)
(* between builds by the recovery workflow (scripts/recover_native_epg.py, *)
(* scripts/diagnose_provider_transport.py), which requests one refresh     *)
(* when a provider is back.                                                *)
(*                                                                         *)
(* main.yml and native-epg-recovery.yml share one concurrency group: one   *)
(* run at a time, the others wait.  All  that a run hands on is its sealed *)
(* bundle in the Actions cache and, by publishing, the site's health       *)
(* report.  A step may be killed, a runner lost, a cache request may fail. *)
(*                                                                         *)
(* Times are relative: a Tick makes guides older and cooldowns shorter.  No *)
(* time passes within a refresh, which counts ages from its one reading of *)
(* the clock.                                                              *)
(***************************************************************************)
EXTENDS Integers

CONSTANTS
    Servers,    \* the numbers of the servers with a native guide
    Steady,     \* those of them that are back for good, once they settle
    MaxAge,     \* after which a saved guide is not used
    Delays,     \* of the Retry-After that providers send
    Window,     \* for which a finished refresh is recent and a probe holds
    Lag,        \* for which the site may still serve the report before
    MaxRun,     \* ticks from a recovery's reading of the clock to its end (bound)
    MaxFaults,  \* steps that fail, and changes of account (bound)
    Absent, NoJob

ASSUME NativeGuideAssumption ==
    /\ {MaxAge, Window, Lag, MaxRun, MaxFaults} \subseteq Nat /\ Delays \subseteq Nat \ {0}
    /\ Servers \subseteq Nat /\ Steady \subseteq Servers /\ Absent \notin Nat
    /\ Lag <= Window   \* Pages caches a file as long as a refresh is recent

Latest == MaxAge + 1
Ages == 0 .. Latest

\* What a private directory holds for a server: the age of the capture that its
\* metadata declares, whether the bytes beside it are others, and the cooldown
\* left.  What is of an account configured before counts as too old, or over.
Files == [guide : Ages \cup {Absent}, torn : BOOLEAN,
          cooldown : Nat \cup {Absent}]

Nothing == [guide |-> Absent, torn |-> FALSE, cooldown |-> Absent]
Empty == [s \in Servers |-> Nothing]

VARIABLES
    settled,  \* whether they are back
    faults,
    health,   \* the servers that the site's report and the one before it list
              \* as unavailable, and how long ago it was published
    waiting,  \* whether a live refresh waits for the lock
    finished, \* how long ago the last live refresh ended
    bundle,   \* the newest sealed bundle in the Actions cache
    job,      \* the run that holds the lock
    dir,      \* its private directory
    told,     \* history, while nothing has failed: what is left of the delay
              \* each provider last gave
    kept      \* history: the youngest guide sealed and not lost since

vars == <<settled, faults, health, waiting, finished, bundle, job, dir, told, kept>>

\* What a provider answers: a guide, one without current programmes, nothing for
\* now, or something that is no guide.
Answers(s) == IF ~settled THEN {"guide", "stale", "down", "broken"}
              ELSE IF s \in Steady THEN {"guide"} ELSE {"guide", "stale", "down"}

Reports == {"current", "previous"}
Kinds == {"refresh", "recovery"}

Jobs == [kind : Kinds,
         step : {"reviewing", "building", "saving", "sealing", "publishing",
                 "planning", "selecting", "probing", "requesting"},
         since : 0 .. MaxRun,   \* its reading of the clock
         left : SUBSET Servers, outcome : [Servers -> {"none", "cached", "placeholder"}],
         asked : Servers \cup {Absent}, usable : SUBSET Servers,
         failed : BOOLEAN, missed : BOOLEAN, changed : BOOLEAN,
         read : Reports \cup {Absent}, report : Reports \cup {Absent}]

ASSUME NoJobAssumption == NoJob \notin Jobs

TypeOK ==
    /\ settled \in BOOLEAN /\ faults \in 0 .. MaxFaults
    /\ health \in [current : SUBSET Servers, previous : SUBSET Servers, age : 0 .. Lag]
    /\ waiting \in BOOLEAN /\ finished \in 0 .. Window
    /\ bundle \in [Servers -> Files] /\ dir \in [Servers -> Files]
    /\ job \in Jobs \cup {NoJob}
    /\ told \in [Servers -> Nat] /\ kept \in [Servers -> Ages \cup {Absent}]

Init ==
    /\ settled = FALSE /\ faults = 0
    /\ health = [current |-> {}, previous |-> {}, age |-> Lag]
    /\ waiting = FALSE /\ finished = Window
    /\ bundle = Empty /\ job = NoJob /\ dir = Empty
    /\ told = [s \in Servers |-> 0] /\ kept = [s \in Servers |-> Absent]

-----------------------------------------------------------------------------
(***************************************************************************)
(* The environment.                                                        *)
(***************************************************************************)
Older(age, limit) == IF age \in {Absent, limit} THEN age ELSE age + 1

\* Mutant of Shorter: what is over goes on.
Overdue(delay) == IF delay = Absent THEN delay ELSE delay - 1

Shorter(delay) == IF delay \in {Absent, 0} THEN delay ELSE delay - 1

Aged(files) == [s \in Servers |-> [files[s] EXCEPT
                 !.guide = Older(@, Latest), !.cooldown = Shorter(@)]]

Tick ==
    /\ job # NoJob => job.kind = "recovery" /\ job.since < MaxRun
    /\ job' = IF job = NoJob THEN NoJob ELSE [job EXCEPT !.since = @ + 1]
    /\ bundle' = Aged(bundle) /\ dir' = Aged(dir)
    /\ told' = [s \in Servers |-> Shorter(told[s])]
    /\ kept' = [s \in Servers |-> Older(kept[s], Latest)]
    /\ finished' = Older(finished, Window)
    /\ health' = IF health.age + 1 < Lag THEN [health EXCEPT !.age = @ + 1]
                 ELSE [health EXCEPT !.age = Lag, !.previous = health.current]
    /\ UNCHANGED <<settled, faults, waiting>>

\* From here on some providers answer with a current guide, and none with what
\* is no guide.
Settle ==
    /\ job = NoJob /\ faults = MaxFaults /\ ~settled /\ settled' = TRUE
    /\ UNCHANGED <<faults, health, waiting, finished, bundle, job, dir, told, kept>>

Fault ==
    /\ faults < MaxFaults /\ faults' = faults + 1
    /\ told' = [s \in Servers |-> 0]

Estranged(f) == [f EXCEPT !.guide = IF @ = Absent THEN @ ELSE Latest,
                          !.cooldown = IF @ = Absent THEN @ ELSE 0]

\* The operator configures another account or another provider.
Rotate(s) ==
    /\ job = NoJob /\ Fault
    /\ bundle' = [bundle EXCEPT ![s] = Estranged(@)] /\ kept' = [kept EXCEPT ![s] = Absent]
    /\ UNCHANGED <<settled, health, waiting, finished, job, dir>>

\* The daily schedule or an operator; one waits at a time.  Behind a refresh it
\* can as well be requested when that has ended.
Request ==
    /\ job # NoJob => job.kind = "recovery"
    /\ ~waiting /\ waiting' = TRUE
    /\ UNCHANGED <<settled, faults, health, finished, bundle, job, dir, told, kept>>

NothingKept == [s \in Servers |-> Absent]

\* The Actions cache drops the bundle.
Evict ==
    /\ job = NoJob /\ Fault /\ bundle # Empty /\ bundle' = Empty /\ kept' = NothingKept
    /\ UNCHANGED <<settled, health, waiting, finished, job, dir>>

-----------------------------------------------------------------------------
(***************************************************************************)
(* scripts/private_panel_cache.py                                          *)
(***************************************************************************)
\* load_source: the metadata binds the bytes to the account and to their age.
Loadable(f) == f.guide # Absent /\ ~f.torn /\ f.guide <= MaxAge

\* load_cooldown
Cooling(f) == f.cooldown # Absent /\ f.cooldown > 0

\* save_cooldown: never shorter for the same account.
Cooled(f, delay) ==
    [f EXCEPT !.cooldown = IF @ # Absent /\ @ > delay THEN @ ELSE delay]

\* clear_cooldown
Lifted(f) == [f EXCEPT !.cooldown = Absent]

\* Mutant of Whole: the bytes are not compared with their metadata.
PresentOnly(files) ==
    /\ files # Empty
    /\ \A s \in Servers : files[s].torn => files[s].guide # Absent

\* _validate_files
Whole(files) == files # Empty /\ \A s \in Servers : ~files[s].torn

\* restore: all of the bundle is valid, or none of it is used.
Restored == IF \A s \in Servers : ~bundle[s].torn THEN bundle ELSE Empty

-----------------------------------------------------------------------------
(***************************************************************************)
(* A run and its requests to the providers.                                *)
(***************************************************************************)
At(step) == job # NoJob /\ job.step = step

NewJob(kind, step) ==
    [kind |-> kind, step |-> step, since |-> 0, left |-> Servers,
     outcome |-> [s \in Servers |-> "none"], asked |-> Absent, usable |-> {}, failed |-> FALSE,
     missed |-> FALSE, changed |-> FALSE, read |-> Absent, report |-> Absent]

StartRefresh ==
    /\ job = NoJob /\ waiting /\ waiting' = FALSE
    /\ job' = NewJob("refresh", "reviewing") /\ dir' = Restored
    /\ UNCHANGED <<settled, faults, health, finished, bundle, told, kept>>

\* The recovery is scheduled every two hours and waits for the lock like others.
StartRecovery ==
    /\ job = NoJob /\ job' = NewJob("recovery", "planning")
    /\ UNCHANGED <<settled, faults, health, waiting, finished, bundle, dir, told, kept>>

\* The servers are asked in order.
Turn(s) == s \in job.left /\ \A t \in job.left : s <= t

\* The cache request of a run fails, and the run goes on without.
RestoreFails ==
    /\ job # NoJob /\ job.step \in {"reviewing", "selecting"} /\ ~job.missed /\ Fault
    /\ dir = Restored /\ dir' = Empty /\ job' = [job EXCEPT !.missed = TRUE]
    /\ UNCHANGED <<settled, health, waiting, finished, bundle, kept>>

Tell(s, delay) == told' = IF faults = 0 THEN [told EXCEPT ![s] = delay] ELSE told

\* download_panel_xmltv.  The answer lifts a cooldown; an outage may set one;
\* what is no guide at all leaves the directory alone.
Download(s, answer) ==
    \/ /\ answer \in {"guide", "stale"}
       /\ dir' = [dir EXCEPT ![s] = Lifted(@)] /\ Tell(s, 0)
    \/ answer \in {"down", "broken"} /\ UNCHANGED <<dir, told>>
    \/ /\ answer = "down"
       /\ \E delay \in Delays : dir' = [dir EXCEPT ![s] = Cooled(@, delay)] /\ Tell(s, delay)

-----------------------------------------------------------------------------
(***************************************************************************)
(* A live refresh: the review of native candidates, the build, the seal,   *)
(* the publication.                                                        *)
(***************************************************************************)
\* The inventory step asks the servers that have candidates to review; whatever
\* comes of it, no guide is saved.
Review(s) ==
    /\ At("reviewing") /\ Turn(s) /\ ~Cooling(dir[s])
    /\ \E answer \in Answers(s) : Download(s, answer)
    /\ job' = [job EXCEPT !.left = @ \ {s}]
    /\ UNCHANGED <<settled, faults, health, waiting, finished, bundle, kept>>

Skip(s) ==
    /\ At("reviewing") /\ Turn(s) /\ job' = [job EXCEPT !.left = @ \ {s}]
    /\ UNCHANGED <<settled, faults, health, waiting, finished, bundle, dir, told, kept>>

EndReview ==
    /\ At("reviewing") /\ job.left = {}
    /\ job' = [job EXCEPT !.step = "building", !.left = Servers]
    /\ UNCHANGED <<settled, faults, health, waiting, finished, bundle, dir, told, kept>>

Served(s, outcome) == [job EXCEPT !.left = @ \ {s}, !.outcome[s] = outcome]

\* ingest_native_panel_with_cache: during an outage the saved guide, if it may be
\* loaded; placeholders otherwise.
Fallback(s) == Served(s, IF Loadable(dir[s]) THEN "cached" ELSE "placeholder")

BuildInCooldown(s) ==
    /\ At("building") /\ Turn(s) /\ Cooling(dir[s])
    /\ job' = Fallback(s)
    /\ UNCHANGED <<settled, faults, health, waiting, finished, bundle, dir, told, kept>>

\* What is no guide fails the build; a guide with current programmes is saved.
Build(s) ==
    /\ At("building") /\ Turn(s) /\ ~Cooling(dir[s])
    /\ \E answer \in Answers(s) :
          /\ Download(s, answer)
          /\ job' = CASE answer = "guide" -> [Served(s, "none") EXCEPT !.step = "saving", !.asked = s]
                     [] answer = "stale" -> Served(s, "none")
                     [] answer = "down" -> Fallback(s)
                     [] answer = "broken" -> [job EXCEPT !.failed = TRUE, !.step = "sealing"]
    /\ UNCHANGED <<settled, faults, health, waiting, finished, bundle, kept>>

\* save_source replaces the bytes, then their metadata.
AfterSave == [job EXCEPT !.step = IF job.kind = "recovery" THEN "probing" ELSE "building",
                         !.asked = Absent, !.changed = TRUE]

SaveBytes ==
    /\ At("saving") /\ ~dir[job.asked].torn
    /\ dir' = [dir EXCEPT ![job.asked].torn = TRUE]
    /\ UNCHANGED <<settled, faults, health, waiting, finished, bundle, job, told, kept>>

SaveMetadata ==
    /\ At("saving") /\ dir[job.asked].torn
    /\ dir' = [dir EXCEPT ![job.asked] = Lifted([@ EXCEPT !.guide = 0, !.torn = FALSE])]
    /\ job' = AfterSave
    /\ UNCHANGED <<settled, faults, health, waiting, finished, bundle, told, kept>>

\* Either write fails; save_source says so and the run goes on.
SaveFails ==
    /\ At("saving") /\ Fault /\ job' = AfterSave
    /\ UNCHANGED <<settled, health, waiting, finished, bundle, dir, kept>>

EndBuild ==
    /\ At("building") /\ job.left = {}
    /\ job' = [job EXCEPT !.step = "sealing"]
    /\ UNCHANGED <<settled, faults, health, waiting, finished, bundle, dir, told, kept>>

End ==
    /\ job' = NoJob /\ dir' = Empty
    /\ finished' = IF job.kind = "recovery" THEN finished ELSE 0

\* A step of a refresh fails or is killed: the seal, marked always(), still runs.
StepFails ==
    /\ job # NoJob /\ job.kind # "recovery" /\ job.step \in {"reviewing", "building", "saving"}
    /\ Fault /\ job' = [job EXCEPT !.failed = TRUE, !.step = "sealing"]
    /\ UNCHANGED <<settled, health, waiting, finished, bundle, dir, kept>>

\* The runner is lost, the publisher fails, or a step of the recovery does.
RunFails ==
    /\ job # NoJob /\ Fault /\ End
    /\ UNCHANGED <<settled, health, waiting, bundle, kept>>

AfterSeal ==
    [job EXCEPT !.step = IF job.kind = "recovery" THEN "requesting" ELSE "publishing"]

\* Mutant of Seal: only a run that has not failed seals.
SealWhenSuccessful ==
    /\ At("sealing") /\ job' = AfterSeal
    /\ IF Whole(dir) /\ ~job.failed
       THEN bundle' = dir /\ kept' = [s \in Servers |-> dir[s].guide]
       ELSE UNCHANGED <<bundle, kept>>
    /\ UNCHANGED <<settled, faults, health, waiting, finished, dir, told>>

\* seal and save: all the private files or none.
Seal ==
    /\ At("sealing") /\ job' = AfterSeal
    /\ IF Whole(dir) THEN bundle' = dir /\ kept' = [s \in Servers |-> dir[s].guide]
       ELSE UNCHANGED <<bundle, kept>>
    /\ UNCHANGED <<settled, faults, health, waiting, finished, dir, told>>

SealFails ==
    /\ At("sealing") /\ Fault /\ job' = AfterSeal
    /\ UNCHANGED <<settled, health, waiting, finished, bundle, dir, kept>>

Publish ==
    /\ At("publishing") /\ End
    /\ health' = IF job.failed THEN health
                 ELSE [current |-> {s \in Servers : job.outcome[s] \in {"cached", "placeholder"}},
                       previous |-> health.current, age |-> 0]
    /\ UNCHANGED <<settled, faults, waiting, bundle, told, kept>>

-----------------------------------------------------------------------------
(***************************************************************************)
(* The recovery workflow: plan, probe, dispatch.  Each reads the report and *)
(* then the list of live refreshes.                                        *)
(***************************************************************************)
\* Controller.state.  The site may serve the previous report for a while.
ReadHealth ==
    /\ job # NoJob /\ job.step \in {"planning", "selecting", "requesting"} /\ job.read = Absent
    /\ \E r \in Reports : (r = "previous" => health.age < Lag) /\ job' = [job EXCEPT !.read = r]
    /\ UNCHANGED <<settled, faults, health, waiting, finished, bundle, dir, told, kept>>

Targets(r) == health[r]

\* Mutant of ActiveOrRecent: a refresh that has just ended is not recent.
Active == waiting

ActiveOrRecent == waiting \/ finished < Window

Plan ==
    /\ At("planning") /\ job.read # Absent
    /\ IF Targets(job.read) # {} /\ ~ActiveOrRecent
       THEN /\ job' = [job EXCEPT !.step = "selecting", !.read = Absent, !.since = 0]
            /\ dir' = Restored /\ UNCHANGED finished
       ELSE End
    /\ UNCHANGED <<settled, faults, health, waiting, bundle, told, kept>>

SelectTargets ==
    /\ At("selecting") /\ job.read # Absent
    /\ job' = [job EXCEPT !.step = "probing", !.read = Absent, !.report = job.read,
                          !.left = IF ActiveOrRecent THEN {} ELSE Targets(job.read)]
    /\ UNCHANGED <<settled, faults, health, waiting, finished, bundle, dir, told, kept>>

\* native_epg_probe asks once, and saves a guide that is current.
Probe(s) ==
    /\ At("probing") /\ Turn(s) /\ ~Cooling(dir[s])
    /\ \E answer \in Answers(s) :
          /\ Download(s, answer)
          /\ job' = LET on == [job EXCEPT !.left = @ \ {s}, !.changed = @ \/ dir' # dir]
                    IN  IF answer # "guide" THEN on
                        ELSE [on EXCEPT !.step = "saving", !.asked = s, !.usable = @ \cup {s}]
    /\ UNCHANGED <<settled, faults, health, waiting, finished, bundle, kept>>

ProbeInCooldown(s) ==
    /\ At("probing") /\ Turn(s) /\ Cooling(dir[s])
    /\ job' = [job EXCEPT !.left = @ \ {s}]
    /\ UNCHANGED <<settled, faults, health, waiting, finished, bundle, dir, told, kept>>

EndProbe ==
    /\ At("probing") /\ job.left = {}
    /\ job' = [job EXCEPT !.since = 0, !.step = IF job.changed THEN "sealing" ELSE "requesting"]
    /\ UNCHANGED <<settled, faults, health, waiting, finished, bundle, dir, told, kept>>

\* Mutant of DispatchAllowed: every target must have recovered.
DispatchWhenAll ==
    /\ job.usable = Targets(job.read) /\ job.usable # {} /\ job.since <= Window
    /\ job.report = job.read /\ ~ActiveOrRecent

\* dispatch_allowed
DispatchAllowed ==
    /\ job.usable # {} /\ job.since <= Window
    /\ job.report = job.read
    /\ ~ActiveOrRecent

Dispatch ==
    /\ At("requesting") /\ job.read # Absent
    /\ waiting' = (waiting \/ DispatchAllowed)
    /\ End
    /\ UNCHANGED <<settled, faults, health, bundle, told, kept>>

-----------------------------------------------------------------------------
Asks(s) == Review(s) \/ Build(s) \/ Probe(s)

Steps ==
    \/ StartRefresh \/ EndReview \/ SaveBytes \/ SaveMetadata \/ EndBuild \/ Seal \/ Publish
    \/ ReadHealth \/ Plan \/ SelectTargets \/ EndProbe \/ Dispatch
    \/ \E s \in Servers : Asks(s) \/ Skip(s) \/ BuildInCooldown(s) \/ ProbeInCooldown(s)

Next ==
    \/ Steps \/ StartRecovery \/ Request \/ Tick \/ Settle \/ Evict \/ RestoreFails \/ SaveFails \/ StepFails \/ RunFails \/ SealFails
    \/ \E s \in Servers : Rotate(s)

Spec == Init /\ [][Next]_vars

\* The runner works, time passes, the lock is granted in the order of requests
\* (queue: max), and the recovery is scheduled again and again; nothing is assumed
\* of the daily refresh or of its operator.
FairSpec == Spec /\ WF_vars(Steps) /\ SF_vars(Tick) /\ SF_vars(StartRefresh) /\ SF_vars(StartRecovery)

-----------------------------------------------------------------------------
(***************************************************************************)
(* Properties.                                                             *)
(***************************************************************************)
\* A provider is not asked again before the time it gave, whichever runs asked
\* it meanwhile and however they ended: the cooldown travels in the bundle, also
\* that of a run that fails (main.yml).  Losing the bundle loses it.
CooldownHonoured ==
    [][\A s \in Servers : told[s] > 0 => ~Asks(s)]_vars

NativeInv ==
    /\ TypeOK
    \* A build settles for placeholders only when no guide of this account, sealed
    \* by some run and not lost by the cache since, is young enough: neither a
    \* kill between the two writes nor a torn pair of the other server hides it.
    /\ job # NoJob =>
          \A s \in Servers : (job.outcome[s] = "placeholder" /\ ~job.missed) =>
              kept[s] = Absent \/ kept[s] > MaxAge

\* A refresh is requested only when a server that the newest report lists as
\* unavailable answered the probe: the site may serve the report before, but not
\* for longer than a refresh counts as recent.
DispatchIsNeeded ==
    [][(job # NoJob /\ waiting' # waiting /\ job' = NoJob) =>
          job.usable \cap health.current # {}]_vars

\* The providers are asked as little as that: no answer is fetched, and no refresh
\* requested, that is not due.
ProvidersSpared == CooldownHonoured /\ DispatchIsNeeded

\* A provider that is back leaves the list of unavailable servers, by the
\* recovery workflow alone, unless another answers with what is no guide, which
\* fails every build.
Recovers == \A s \in Steady : settled ~> [](s \notin health.current)
==============================================================================
