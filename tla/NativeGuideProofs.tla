-------------------------- MODULE NativeGuideProofs --------------------------
(***************************************************************************)
(* Proofs about NativeGuide for any servers, delays, ages and faults: a    *)
(* provider is not asked before the time it gave, a refresh is requested   *)
(* only when a server the newest report lists answers, and a build never   *)
(* overlooks a saved guide.                                                *)
(***************************************************************************)
EXTENDS NativeGuide, TLAPS

(***************************************************************************)
(* The inductive invariant.                                                *)
(***************************************************************************)
RefreshSteps == {"reviewing", "building", "saving", "sealing", "publishing"}
AfterPlan == {"selecting", "probing", "saving", "sealing", "requesting"}

Working == job # NoJob

StepInv ==
    Working =>
      /\ job.kind = "refresh" => job.step \in RefreshSteps
      /\ job.kind = "recovery" => job.step \in AfterPlan \cup {"planning"}
      /\ job.step = "saving" => job.asked \in Servers /\ job.asked \notin job.left
      /\ job.kind = "recovery" => \A s \in Servers : job.outcome[s] # "placeholder"

\* No bundle is torn, nor a directory outside the two writes unless one failed; and
\* history does not claim more than the bundle holds.
FilesInv ==
    /\ \A s \in Servers : ~bundle[s].torn
    /\ \A s \in Servers : kept[s] \in {Absent, bundle[s].guide}
    /\ faults = 0 =>
         \A s \in Servers : dir[s].torn => Working /\ job.step = "saving" /\ s = job.asked

\* The delays that the providers gave are in these files.
Honest(files, owed) ==
    \A s \in Servers : owed[s] > 0 => files[s].cooldown # Absent /\ files[s].cooldown >= owed[s]

\* They are in the bundle between runs and in the run's directory meanwhile: in the
\* bundle too as long as nothing has changed or once it is sealed.
CarriedByBundle(j) ==
    \/ j = NoJob
    \/ j.step \in {"planning", "selecting", "publishing", "requesting"}
    \/ j.kind = "recovery" /\ j.step \in {"probing", "saving"} /\ ~j.changed

CarriedByDir(j) ==
    /\ j # NoJob
    /\ j.step \in {"reviewing", "building", "saving", "selecting", "probing", "sealing"}

NothingOwed(owed) == \A s \in Servers : owed[s] = 0

CooldownInv ==
    /\ faults > 0 => NothingOwed(told)
    /\ CarriedByBundle(job) => Honest(bundle, told)
    /\ CarriedByDir(job) => Honest(dir, told)
    /\ Working /\ job.step = "saving" => told[job.asked] = 0

\* A build's directory holds the sealed guides of the servers it has still to serve,
\* and placeholders stand only for what it does not hold.
Unusable(age) == age = Absent \/ age > MaxAge

GuideInv ==
    Working /\ job.kind = "refresh" /\ ~job.missed =>
      /\ job.step \in {"reviewing", "building", "saving"} =>
           \A s \in Servers : s \in job.left \/ job.step = "reviewing" =>
              dir[s].guide = bundle[s].guide /\ ~dir[s].torn
      /\ job.step \in {"reviewing", "building", "saving"} =>
           \A s \in Servers : s \in job.left \/ job.step = "reviewing" =>
              job.outcome[s] # "placeholder"
      /\ \A s \in Servers : job.outcome[s] = "placeholder" =>
           /\ s # job.asked \/ job.step # "saving"
           /\ Unusable(kept[s]) /\ (job.step # "publishing" => Unusable(dir[s].guide))

\* Past its plan, a recovery reads the newest report only.
ReportInv ==
    /\ health.age < Lag => finished <= health.age
    /\ Working /\ job.kind = "recovery" /\ job.step \in AfterPlan =>
         /\ finished = Window
         /\ job.read \in {"current", Absent} /\ job.report \in {"current", Absent}
         /\ job.usable \subseteq health.current
         /\ job.step \in {"probing", "saving"} => job.left \subseteq health.current
    /\ Working /\ job.step = "planning" => job.usable = {} /\ job.report = Absent

IInv == TypeOK /\ StepInv /\ FilesInv /\ CooldownInv /\ GuideInv /\ ReportInv

-----------------------------------------------------------------------------
(***************************************************************************)
(* What a file, a directory and a run become.                              *)
(***************************************************************************)
LEMMA AgeTypes ==
    /\ MaxAge \in Nat /\ Window \in Nat /\ Lag \in Nat /\ MaxRun \in Nat /\ MaxFaults \in Nat
    /\ Latest \in Nat /\ Latest > MaxAge /\ 0 \in Ages /\ Latest \in Ages
    /\ 0 \in 0 .. MaxRun /\ Absent \notin Nat /\ Ages \subseteq Nat /\ Absent \notin Servers
    /\ Absent \notin Ages
    /\ \A delay \in Delays : delay \in Nat /\ delay > 0
<1>1. {MaxAge, Window, Lag, MaxRun, MaxFaults} \subseteq Nat
  BY NativeGuideAssumption
<1>2. /\ Delays \subseteq Nat \ {0} /\ Servers \subseteq Nat /\ Absent \notin Nat
  BY NativeGuideAssumption
<1>3. MaxAge \in Nat /\ Window \in Nat /\ Lag \in Nat /\ MaxRun \in Nat /\ MaxFaults \in Nat
  BY <1>1
<1>4. Latest \in Nat /\ Latest > MaxAge /\ 0 \in Ages /\ Latest \in Ages /\ Ages \subseteq Nat
  <2>1. Latest \in Nat /\ Latest > MaxAge
    BY <1>3 DEF Latest
  <2> QED
    BY <2>1 DEF Ages
<1>5. Absent \notin Ages /\ Absent \notin Servers
  BY <1>2, <1>4
<1>6. \A delay \in Delays : delay \in Nat /\ delay > 0
  BY <1>2
<1>7. 0 \in 0 .. MaxRun
  BY <1>3
<1> QED
  BY <1>2, <1>3, <1>4, <1>5, <1>6, <1>7

LEMMA OlderIsAge ==
  ASSUME NEW age \in Ages \cup {Absent}
  PROVE  Older(age, Latest) \in Ages \cup {Absent}
  BY AgeTypes DEF Older, Ages

LEMMA ShorterDelay ==
  ASSUME NEW delay \in Nat \cup {Absent}
  PROVE  /\ Shorter(delay) \in Nat \cup {Absent}
         /\ delay \in Nat => Shorter(delay) \in Nat
         /\ delay = 0 => Shorter(delay) = 0
         /\ delay # Absent /\ delay > 0 => Shorter(delay) = delay - 1
  BY AgeTypes DEF Shorter

LEMMA FileUpdates ==
  ASSUME NEW f \in Files
  PROVE  /\ Lifted(f) \in Files /\ Lifted(f).guide = f.guide
         /\ Lifted(f).torn = f.torn /\ Lifted(f).cooldown = Absent
         /\ \A delay \in Nat :
              /\ Cooled(f, delay) \in Files /\ Cooled(f, delay).guide = f.guide
              /\ Cooled(f, delay).torn = f.torn
              /\ Cooled(f, delay).cooldown # Absent /\ Cooled(f, delay).cooldown >= delay
         /\ Estranged(f) \in Files /\ Estranged(f).torn = f.torn
         /\ [f EXCEPT !.torn = TRUE] \in Files
         /\ [f EXCEPT !.torn = TRUE].guide = f.guide
         /\ [f EXCEPT !.torn = TRUE].cooldown = f.cooldown
<1>1. /\ Lifted(f) \in Files /\ Lifted(f).guide = f.guide
      /\ Lifted(f).torn = f.torn /\ Lifted(f).cooldown = Absent
  BY DEF Files, Lifted
<1>2. ASSUME NEW delay \in Nat
      PROVE  /\ Cooled(f, delay) \in Files /\ Cooled(f, delay).guide = f.guide
             /\ Cooled(f, delay).torn = f.torn
             /\ Cooled(f, delay).cooldown # Absent /\ Cooled(f, delay).cooldown >= delay
  <2> DEFINE new == IF f.cooldown # Absent /\ f.cooldown > delay THEN f.cooldown ELSE delay
  <2>1. new \in Nat /\ new >= delay /\ new # Absent
    BY AgeTypes DEF Files
  <2>2. Cooled(f, delay) = [f EXCEPT !.cooldown = new]
    BY DEF Cooled
  <2> HIDE DEF new
  <2> QED
    BY <2>1, <2>2 DEF Files
<1>3. Estranged(f) \in Files /\ Estranged(f).torn = f.torn
  <2> DEFINE guide == IF f.guide = Absent THEN f.guide ELSE Latest
             cooldown == IF f.cooldown = Absent THEN f.cooldown ELSE 0
  <2>1. guide \in Ages \cup {Absent} /\ cooldown \in Nat \cup {Absent}
    BY AgeTypes DEF Files
  <2>2. Estranged(f) = [f EXCEPT !.guide = guide, !.cooldown = cooldown]
    BY DEF Estranged
  <2> HIDE DEF guide, cooldown
  <2> QED
    BY <2>1, <2>2 DEF Files
<1>4. /\ [f EXCEPT !.torn = TRUE] \in Files
      /\ [f EXCEPT !.torn = TRUE].guide = f.guide
      /\ [f EXCEPT !.torn = TRUE].cooldown = f.cooldown
  BY DEF Files
<1> QED
  BY <1>1, <1>2, <1>3, <1>4

LEMMA FileSaved ==
  ASSUME NEW f \in Files, NEW g, g = Lifted([f EXCEPT !.guide = 0, !.torn = FALSE])
  PROVE  g \in Files /\ g.guide = 0 /\ g.torn = FALSE /\ g.cooldown = Absent
  BY AgeTypes DEF Files, Lifted

LEMMA FilesUpdate ==
  ASSUME NEW files \in [Servers -> Files], NEW s \in Servers, NEW f \in Files
  PROVE  /\ [files EXCEPT ![s] = f] \in [Servers -> Files]
         /\ [files EXCEPT ![s] = f][s] = f
         /\ \A t \in Servers : t # s => [files EXCEPT ![s] = f][t] = files[t]
  OBVIOUS

LEMMA AgedFiles ==
  ASSUME NEW files \in [Servers -> Files]
  PROVE  /\ Aged(files) \in [Servers -> Files]
         /\ \A s \in Servers :
              /\ Aged(files)[s].torn = files[s].torn
              /\ Aged(files)[s].guide = Older(files[s].guide, Latest)
              /\ Aged(files)[s].cooldown = Shorter(files[s].cooldown)
<1> SUFFICES ASSUME NEW s \in Servers
             PROVE  LET f == [files[s] EXCEPT !.guide = Older(@, Latest), !.cooldown = Shorter(@)]
                    IN  /\ f \in Files
                        /\ f.torn = files[s].torn
                        /\ f.guide = Older(files[s].guide, Latest)
                        /\ f.cooldown = Shorter(files[s].cooldown)
  BY DEF Aged
<1> DEFINE f == files[s]
           guide == Older(f.guide, Latest)
           cooldown == Shorter(f.cooldown)
<1>1. f \in Files
  OBVIOUS
<1>2. f.guide \in Ages \cup {Absent} /\ f.cooldown \in Nat \cup {Absent}
  BY <1>1 DEF Files
<1>3. guide \in Ages \cup {Absent} /\ cooldown \in Nat \cup {Absent}
  BY <1>2, OlderIsAge, ShorterDelay
<1> HIDE DEF f, guide, cooldown
<1>4. LET g == [f EXCEPT !.guide = guide, !.cooldown = cooldown]
      IN  g \in Files /\ g.torn = f.torn /\ g.guide = guide /\ g.cooldown = cooldown
  BY <1>1, <1>3 DEF Files
<1> QED
  BY <1>4 DEF f, guide, cooldown

LEMMA EmptyFiles ==
  /\ Empty \in [Servers -> Files]
  /\ \A s \in Servers : /\ Empty[s].guide = Absent /\ ~Empty[s].torn
                        /\ Empty[s].cooldown = Absent
  BY AgeTypes DEF Empty, Nothing, Files

LEMMA RestoredIsBundle ==
  ASSUME \A s \in Servers : ~bundle[s].torn
  PROVE  Restored = bundle
  BY DEF Restored

\* An answer touches only the cooldown of the server that was asked.
LEMMA DownloadFiles ==
  ASSUME dir \in [Servers -> Files], told \in [Servers -> Nat],
         NEW s \in Servers, NEW answer, Download(s, answer)
  PROVE  /\ dir' \in [Servers -> Files] /\ told' \in [Servers -> Nat]
         /\ \A t \in Servers : dir'[t].guide = dir[t].guide /\ dir'[t].torn = dir[t].torn
         /\ \A t \in Servers : t # s => dir'[t] = dir[t] /\ told'[t] = told[t]
         /\ answer = "guide" => dir'[s].cooldown = Absent
<1>1. CASE answer \in {"guide", "stale"} /\ dir' = [dir EXCEPT ![s] = Lifted(@)] /\ Tell(s, 0)
  <2>1. dir[s] \in Files
    OBVIOUS
  <2> DEFINE f == Lifted(dir[s])
  <2>2. f \in Files /\ f.guide = dir[s].guide /\ f.torn = dir[s].torn /\ f.cooldown = Absent
    BY <2>1, FileUpdates
  <2>3. dir' = [dir EXCEPT ![s] = f]
    BY <1>1
  <2>4. told' \in [Servers -> Nat] /\ \A t \in Servers : t # s => told'[t] = told[t]
    BY <1>1 DEF Tell
  <2> HIDE DEF f
  <2> QED
    BY <2>2, <2>3, <2>4
<1>2. CASE answer \in {"down", "broken"} /\ UNCHANGED <<dir, told>>
  BY <1>2
<1>3. CASE answer = "down" /\ \E delay \in Delays :
              dir' = [dir EXCEPT ![s] = Cooled(@, delay)] /\ Tell(s, delay)
  <2>1. PICK delay \in Delays : dir' = [dir EXCEPT ![s] = Cooled(@, delay)] /\ Tell(s, delay)
    BY <1>3
  <2> DEFINE f == Cooled(dir[s], delay)
  <2>2. dir[s] \in Files /\ delay \in Nat
    BY AgeTypes
  <2>3. f \in Files /\ f.guide = dir[s].guide /\ f.torn = dir[s].torn
    BY <2>2, FileUpdates
  <2>4. dir' = [dir EXCEPT ![s] = f]
    BY <2>1
  <2>5. told' \in [Servers -> Nat] /\ \A t \in Servers : t # s => told'[t] = told[t]
    BY <2>1, <2>2 DEF Tell
  <2> HIDE DEF f
  <2> QED
    BY <1>3, <2>3, <2>4, <2>5
<1> QED
  BY <1>1, <1>2, <1>3 DEF Download

\* And the directory is honest afterwards if it was before; a delay that was not
\* there shows in it.
LEMMA DownloadIsHonest ==
  ASSUME dir \in [Servers -> Files], told \in [Servers -> Nat], Honest(dir, told),
         faults > 0 => NothingOwed(told),
         NEW s \in Servers, ~Cooling(dir[s]), NEW answer, Download(s, answer), faults' = faults
  PROVE  /\ Honest(dir, told)'
         /\ faults > 0 => NothingOwed(told)'
         /\ answer = "guide" => told'[s] = 0
         /\ told'[s] = 0 \/ (told'[s] > 0 /\ dir'[s].cooldown # dir[s].cooldown)
<1>0. dir[s] \in Files
  OBVIOUS
<1>1. told[s] = 0
  BY <1>0 DEF Honest, Cooling, Files
<1>2. CASE answer \in {"guide", "stale"} /\ dir' = [dir EXCEPT ![s] = Lifted(@)] /\ Tell(s, 0)
  BY <1>1, <1>2 DEF Tell, Honest
<1>3. CASE answer \in {"down", "broken"} /\ UNCHANGED <<dir, told>>
  BY <1>1, <1>3 DEF Honest
<1>4. CASE answer = "down" /\ \E delay \in Delays :
              dir' = [dir EXCEPT ![s] = Cooled(@, delay)] /\ Tell(s, delay)
  <2>1. PICK delay \in Delays : dir' = [dir EXCEPT ![s] = Cooled(@, delay)] /\ Tell(s, delay)
    BY <1>4
  <2>2. delay \in Nat /\ delay > 0
    BY AgeTypes
  <2>3. /\ Cooled(dir[s], delay).cooldown # Absent /\ Cooled(dir[s], delay).cooldown >= delay
        /\ Cooled(dir[s], delay) \in Files
    BY <1>0, <2>2, FileUpdates
  <2>4. dir'[s] = Cooled(dir[s], delay) /\ \A t \in Servers : t # s => dir'[t] = dir[t]
    BY <2>1
  <2>5. told' = told \/ (faults = 0 /\ told' = [told EXCEPT ![s] = delay])
    BY <2>1 DEF Tell
  <2>6. Cooled(dir[s], delay).cooldown # dir[s].cooldown
    BY <1>0, <2>2, <2>3 DEF Cooling, Files
  <2> QED
    BY <1>1, <1>4, <2>2, <2>3, <2>4, <2>5, <2>6 DEF Honest, Files
<1> QED
  BY <1>2, <1>3, <1>4 DEF Download

StepNames == {"reviewing", "building", "saving", "sealing", "publishing",
              "planning", "selecting", "probing", "requesting"}

\* What a step may change of its run, one field or several at a time; the others
\* stay.
LEMMA JobSteps ==
  ASSUME NEW j \in Jobs, NEW step \in StepNames
  PROVE  [j EXCEPT !.step = step] \in Jobs
  BY DEF Jobs, StepNames

LEMMA JobLeft ==
  ASSUME NEW j \in Jobs, NEW left \in SUBSET Servers
  PROVE  [j EXCEPT !.left = left] \in Jobs
  BY DEF Jobs, StepNames

LEMMA JobStepsWith ==
  ASSUME NEW j \in Jobs, NEW step \in StepNames, NEW left \in SUBSET Servers
  PROVE  [j EXCEPT !.step = step, !.left = left] \in Jobs
  BY DEF Jobs, StepNames

LEMMA JobFails ==
  ASSUME NEW j \in Jobs, NEW step \in StepNames
  PROVE  [j EXCEPT !.failed = TRUE, !.step = step] \in Jobs
  BY DEF Jobs, StepNames

LEMMA JobMisses ==
  ASSUME NEW j \in Jobs
  PROVE  [j EXCEPT !.missed = TRUE] \in Jobs
  BY DEF Jobs, StepNames

LEMMA JobLasts ==
  ASSUME NEW j \in Jobs, NEW n \in 0 .. MaxRun
  PROVE  [j EXCEPT !.since = n] \in Jobs
  BY DEF Jobs, StepNames

LEMMA JobRestarts ==
  ASSUME NEW j \in Jobs, NEW step \in StepNames, NEW n \in 0 .. MaxRun
  PROVE  [j EXCEPT !.since = n, !.step = step] \in Jobs
  BY DEF Jobs, StepNames

LEMMA JobSaved ==
  ASSUME NEW j \in Jobs, NEW step \in StepNames
  PROVE  [j EXCEPT !.step = step, !.asked = Absent, !.changed = TRUE] \in Jobs
  BY DEF Jobs, StepNames

LEMMA JobReads ==
  ASSUME NEW j \in Jobs, NEW r \in Reports
  PROVE  [j EXCEPT !.read = r] \in Jobs
  BY DEF Jobs, StepNames

LEMMA JobPlanned ==
  ASSUME NEW j \in Jobs, NEW step \in StepNames, NEW n \in 0 .. MaxRun
  PROVE  [j EXCEPT !.step = step, !.read = Absent, !.since = n] \in Jobs
  BY DEF Jobs, StepNames

LEMMA JobSelects ==
  ASSUME NEW j \in Jobs, NEW step \in StepNames, NEW r \in Reports, NEW left \in SUBSET Servers
  PROVE  [j EXCEPT !.step = step, !.read = Absent, !.report = r, !.left = left] \in Jobs
  BY DEF Jobs, StepNames

LEMMA JobProbes ==
  ASSUME NEW j \in Jobs, NEW left \in SUBSET Servers, NEW c \in BOOLEAN
  PROVE  [j EXCEPT !.left = left, !.changed = c] \in Jobs
  BY DEF Jobs, StepNames

LEMMA JobsAreRuns ==
  ASSUME NEW j \in Jobs
  PROVE  j # NoJob
  BY NoJobAssumption

LEMMA JobServes ==
  ASSUME job \in Jobs, NEW s \in Servers, NEW outcome \in {"none", "cached", "placeholder"}
  PROVE  /\ Served(s, outcome) \in Jobs /\ Served(s, outcome).left = job.left \ {s}
         /\ Served(s, outcome).kind = job.kind /\ Served(s, outcome).step = job.step
         /\ Served(s, outcome).asked = job.asked /\ Served(s, outcome).failed = job.failed
         /\ Served(s, outcome).missed = job.missed /\ Served(s, outcome).changed = job.changed
         /\ Served(s, outcome).read = job.read /\ Served(s, outcome).report = job.report
         /\ Served(s, outcome).usable = job.usable
         /\ \A t \in Servers :
              Served(s, outcome).outcome[t] = IF t = s THEN outcome ELSE job.outcome[t]
<1> DEFINE left == job.left \ {s}
           outcomes == [job.outcome EXCEPT ![s] = outcome]
<1>1. /\ left \in SUBSET Servers /\ outcomes \in [Servers -> {"none", "cached", "placeholder"}]
      /\ \A t \in Servers : outcomes[t] = IF t = s THEN outcome ELSE job.outcome[t]
  BY DEF Jobs
<1>2. Served(s, outcome) = [job EXCEPT !.left = left, !.outcome = outcomes]
  BY DEF Jobs, Served
<1>3. left = job.left \ {s}
  OBVIOUS
<1> HIDE DEF left, outcomes
<1> QED
  BY <1>1, <1>2, <1>3 DEF Jobs

LEMMA JobSaves ==
  ASSUME NEW j \in Jobs, NEW s \in Servers
  PROVE  LET new == [j EXCEPT !.step = "saving", !.asked = s]
         IN  /\ new \in Jobs /\ new.step = "saving" /\ new.asked = s /\ new.left = j.left
             /\ new.kind = j.kind /\ new.outcome = j.outcome /\ new.failed = j.failed
             /\ new.missed = j.missed /\ new.changed = j.changed
             /\ new.read = j.read /\ new.report = j.report /\ new.usable = j.usable
  BY DEF Jobs

LEMMA NewJobs ==
  ASSUME NEW kind \in Kinds, NEW step \in StepNames
  PROVE  NewJob(kind, step) \in Jobs
  BY AgeTypes DEF NewJob, Jobs, StepNames

LEMMA AtJob ==
  ASSUME TypeOK, NEW step, At(step)
  PROVE  job \in Jobs /\ job # NoJob /\ job.step = step
  BY DEF TypeOK, At

LEMMA CooldownStays ==
  ASSUME CooldownInv, UNCHANGED <<faults, told, bundle, dir>>,
         CarriedByBundle(job)' => CarriedByBundle(job),
         CarriedByDir(job)' => CarriedByDir(job),
         Working' /\ job'.step = "saving" =>
            Working /\ job.step = "saving" /\ job'.asked = job.asked
  PROVE  CooldownInv'
<1>1. /\ Honest(bundle, told)' <=> Honest(bundle, told)
      /\ Honest(dir, told)' <=> Honest(dir, told)
      /\ NothingOwed(told)' <=> NothingOwed(told)
  BY DEF Honest, NothingOwed
<1> QED
  BY <1>1 DEF CooldownInv

LEMMA NothingOwedIsHonest ==
  ASSUME NothingOwed(told)',
         Working' /\ job'.step = "saving" => job'.asked \in Servers
  PROVE  CooldownInv'
<1>1. Honest(bundle, told)' /\ Honest(dir, told)'
  BY DEF Honest, NothingOwed
<1> QED
  BY <1>1 DEF CooldownInv, NothingOwed

-----------------------------------------------------------------------------
(***************************************************************************)
(* A live refresh preserves the invariant.                                 *)
(***************************************************************************)
LEMMA EndReviewStep ==
  ASSUME IInv, EndReview
  PROVE  IInv'
<1>1. job \in Jobs /\ job # NoJob /\ job.step = "reviewing"
  BY AtJob DEF IInv, EndReview
<1>2. job' = [job EXCEPT !.step = "building", !.left = Servers] /\ job' \in Jobs
  BY <1>1, JobStepsWith DEF EndReview, StepNames
<1>3. /\ job' # NoJob
      /\ job'.step = "building" /\ job'.left = Servers /\ job'.kind = job.kind
      /\ job'.outcome = job.outcome /\ job'.asked = job.asked /\ job'.missed = job.missed
      /\ job'.changed = job.changed /\ job'.read = job.read /\ job'.report = job.report
      /\ job'.usable = job.usable
  BY <1>1, <1>2, JobsAreRuns DEF Jobs
<1>4. job.kind = "refresh"
  BY <1>1 DEF IInv, StepInv, AfterPlan, Working, Jobs, Kinds
<1>5. UNCHANGED <<settled, faults, health, waiting, finished, bundle, dir, told, kept>>
  BY DEF EndReview
<1>6. TypeOK'
  BY <1>2, <1>5 DEF IInv, TypeOK
<1>7. StepInv'
  BY <1>1, <1>3, <1>4 DEF StepInv, RefreshSteps, AfterPlan, Working
<1>8. FilesInv'
  BY <1>1, <1>3, <1>5 DEF IInv, FilesInv, Working
<1>9. CooldownInv'
  BY <1>1, <1>3, <1>4, <1>5, CooldownStays DEF IInv, CarriedByBundle, CarriedByDir, Working
<1>10. GuideInv'
  BY <1>1, <1>3, <1>4, <1>5 DEF IInv, GuideInv, Working
<1>11. ReportInv'
  BY <1>1, <1>3, <1>4, <1>5 DEF IInv, ReportInv, Working
<1> QED
  BY <1>6, <1>7, <1>8, <1>9, <1>10, <1>11 DEF IInv

LEMMA SkipStep ==
  ASSUME IInv, NEW s \in Servers, Skip(s)
  PROVE  IInv'
<1>1. job \in Jobs /\ job # NoJob /\ job.step = "reviewing"
  BY AtJob DEF IInv, Skip
<1>2. job' = [job EXCEPT !.left = job.left \ {s}] /\ job' \in Jobs
  <2>1. job.left \ {s} \in SUBSET Servers
    BY <1>1 DEF Jobs
  <2> QED
    BY <1>1, <2>1, JobLeft DEF Skip
<1>3. /\ job' # NoJob
      /\ job'.left = job.left \ {s} /\ job'.kind = job.kind /\ job'.step = job.step
      /\ job'.outcome = job.outcome /\ job'.asked = job.asked /\ job'.missed = job.missed
      /\ job'.changed = job.changed /\ job'.read = job.read /\ job'.report = job.report
      /\ job'.usable = job.usable
  BY <1>1, <1>2, JobsAreRuns DEF Jobs
<1>4. job.kind = "refresh"
  BY <1>1 DEF IInv, StepInv, AfterPlan, Working, Jobs, Kinds
<1>5. UNCHANGED <<settled, faults, health, waiting, finished, bundle, dir, told, kept>>
  BY DEF Skip
<1>6. TypeOK'
  BY <1>2, <1>5 DEF IInv, TypeOK
<1>7. StepInv'
  BY <1>1, <1>3, <1>4 DEF StepInv, RefreshSteps, AfterPlan, Working
<1>8. FilesInv'
  BY <1>1, <1>3, <1>5 DEF IInv, FilesInv, Working
<1>9. CooldownInv'
  BY <1>1, <1>3, <1>4, <1>5, CooldownStays DEF IInv, CarriedByBundle, CarriedByDir, Working
<1>10. GuideInv'
  BY <1>1, <1>3, <1>4, <1>5 DEF IInv, GuideInv, Working
<1>11. ReportInv'
  BY <1>1, <1>3, <1>4, <1>5 DEF IInv, ReportInv, Working
<1> QED
  BY <1>6, <1>7, <1>8, <1>9, <1>10, <1>11 DEF IInv

LEMMA EndBuildStep ==
  ASSUME IInv, EndBuild
  PROVE  IInv'
<1>1. job \in Jobs /\ job # NoJob /\ job.step = "building"
  BY AtJob DEF IInv, EndBuild
<1>2. job' = [job EXCEPT !.step = "sealing"] /\ job' \in Jobs
  BY <1>1, JobSteps DEF EndBuild, StepNames
<1>3. /\ job' # NoJob
      /\ job'.step = "sealing" /\ job'.kind = job.kind /\ job'.left = job.left
      /\ job'.outcome = job.outcome /\ job'.asked = job.asked /\ job'.missed = job.missed
      /\ job'.changed = job.changed /\ job'.read = job.read /\ job'.report = job.report
      /\ job'.usable = job.usable
  BY <1>1, <1>2, JobsAreRuns DEF Jobs
<1>4. job.kind = "refresh"
  BY <1>1 DEF IInv, StepInv, AfterPlan, Working, Jobs, Kinds
<1>5. UNCHANGED <<settled, faults, health, waiting, finished, bundle, dir, told, kept>>
  BY DEF EndBuild
<1>6. TypeOK'
  BY <1>2, <1>5 DEF IInv, TypeOK
<1>7. StepInv'
  BY <1>1, <1>3, <1>4 DEF StepInv, RefreshSteps, AfterPlan, Working
<1>8. FilesInv'
  BY <1>1, <1>3, <1>5 DEF IInv, FilesInv, Working
<1>9. CooldownInv'
  BY <1>1, <1>3, <1>4, <1>5, CooldownStays DEF IInv, CarriedByBundle, CarriedByDir, Working
<1>10. GuideInv'
  BY <1>1, <1>3, <1>4, <1>5 DEF IInv, GuideInv, Working
<1>11. ReportInv'
  BY <1>1, <1>3, <1>4, <1>5 DEF IInv, ReportInv, Working
<1> QED
  BY <1>6, <1>7, <1>8, <1>9, <1>10, <1>11 DEF IInv

\* A server is served: its outcome is a placeholder only for want of a saved guide.
LEMMA ServedKeepsGuides ==
  ASSUME GuideInv, job \in Jobs, Working, job.step = "building",
         dir \in [Servers -> Files], kept \in [Servers -> Ages \cup {Absent}], FilesInv,
         NEW s \in job.left, NEW outcome, outcome = "placeholder" => ~Loadable(dir[s]),
         \A t \in Servers : dir'[t].guide = dir[t].guide /\ dir'[t].torn = dir[t].torn,
         UNCHANGED <<bundle, kept>>,
         job'.kind = job.kind, job'.missed = job.missed, job'.left = job.left \ {s},
         \A t \in Servers : job'.outcome[t] = IF t = s THEN outcome ELSE job.outcome[t],
         \/ job'.step = "building"
         \/ job'.step = "saving" /\ job'.asked = s /\ outcome = "none"
  PROVE  GuideInv'
<1> SUFFICES ASSUME job.kind = "refresh", ~job.missed
             PROVE  GuideInv'
  BY DEF GuideInv
<1>1. s \in Servers /\ job.left \subseteq Servers
  BY DEF Jobs
<1>2. \A t \in job.left : dir[t].guide = bundle[t].guide /\ ~dir[t].torn
  BY <1>1 DEF GuideInv
<1>3. outcome = "placeholder" => Unusable(dir[s].guide) /\ Unusable(kept[s])
  <2> SUFFICES ASSUME outcome = "placeholder"
               PROVE  Unusable(dir[s].guide) /\ Unusable(kept[s])
    OBVIOUS
  <2>1. ~Loadable(dir[s]) /\ ~dir[s].torn /\ dir[s] \in Files
    BY <1>1, <1>2
  <2>2. Unusable(dir[s].guide)
    <3>1. dir[s].guide \in Ages \cup {Absent}
      BY <2>1 DEF Files
    <3>2. dir[s].guide # Absent => dir[s].guide \in Nat /\ MaxAge \in Nat
      BY <3>1, AgeTypes
    <3> QED
      BY <2>1, <3>2 DEF Loadable, Unusable
  <2>3. kept[s] \in {Absent, dir[s].guide}
    BY <1>1, <1>2 DEF FilesInv
  <2> QED
    BY <2>2, <2>3 DEF Unusable
<1>4. \A t \in Servers : t \in job.left \ {s} =>
         dir'[t].guide = bundle'[t].guide /\ ~dir'[t].torn /\ job'.outcome[t] # "placeholder"
  BY <1>1, <1>2 DEF GuideInv
<1>5. \A t \in Servers : job.outcome[t] = "placeholder" =>
         Unusable(kept[t]) /\ Unusable(dir[t].guide)
  BY DEF GuideInv
<1>6. \A t \in Servers : job'.outcome[t] = "placeholder" =>
         /\ Unusable(kept'[t]) /\ Unusable(dir'[t].guide)
         /\ t # job'.asked \/ job'.step # "saving"
  BY <1>1, <1>3, <1>5 DEF Unusable
<1> QED
  BY <1>4, <1>6 DEF GuideInv, Unusable

LEMMA BuildInCooldownStep ==
  ASSUME IInv, NEW s \in Servers, BuildInCooldown(s)
  PROVE  IInv'
<1> DEFINE outcome == IF Loadable(dir[s]) THEN "cached" ELSE "placeholder"
<1>1. job \in Jobs /\ job # NoJob /\ job.step = "building"
  BY AtJob DEF IInv, BuildInCooldown
<1>2. job' = Served(s, outcome) /\ outcome \in {"none", "cached", "placeholder"}
  BY DEF BuildInCooldown, Fallback
<1> outcome = "placeholder" => ~Loadable(dir[s])
  OBVIOUS
<1> HIDE DEF outcome
<1>3. /\ job' \in Jobs /\ job' # NoJob /\ s \in job.left /\ job'.left = job.left \ {s}
      /\ job'.kind = job.kind /\ job'.step = job.step /\ job'.asked = job.asked
      /\ job'.missed = job.missed /\ job'.changed = job.changed
      /\ job'.read = job.read /\ job'.report = job.report /\ job'.usable = job.usable
      /\ \A t \in Servers : job'.outcome[t] = IF t = s THEN outcome ELSE job.outcome[t]
  BY <1>1, <1>2, JobServes, JobsAreRuns DEF BuildInCooldown, Turn
<1>4. job.kind = "refresh"
  BY <1>1 DEF IInv, StepInv, AfterPlan, Working, Jobs, Kinds
<1>5. UNCHANGED <<settled, faults, health, waiting, finished, bundle, dir, told, kept>>
  BY DEF BuildInCooldown
<1>6. TypeOK'
  BY <1>3, <1>5 DEF IInv, TypeOK
<1>7. StepInv'
  BY <1>1, <1>3, <1>4 DEF StepInv, RefreshSteps, AfterPlan, Working
<1>8. FilesInv'
  BY <1>1, <1>3, <1>5 DEF IInv, FilesInv, Working
<1>9. CooldownInv'
  BY <1>1, <1>3, <1>4, <1>5, CooldownStays DEF IInv, CarriedByBundle, CarriedByDir, Working
<1>10. GuideInv'
  BY <1>1, <1>3, <1>5, ServedKeepsGuides DEF IInv, TypeOK, Working
<1>11. ReportInv'
  BY <1>1, <1>3, <1>4, <1>5 DEF IInv, ReportInv, Working
<1> QED
  BY <1>6, <1>7, <1>8, <1>9, <1>10, <1>11 DEF IInv

\* An answer preserves what CooldownInv says, if a change of the directory is noted.
LEMMA AnswerKeepsCooldowns ==
  ASSUME TypeOK, CooldownInv, CarriedByDir(job), UNCHANGED <<faults, bundle>>,
         NEW s \in Servers, ~Cooling(dir[s]), NEW answer, Download(s, answer),
         CarriedByBundle(job)' => CarriedByBundle(job) /\ dir' = dir,
         Working' /\ job'.step = "saving" => answer = "guide" /\ job'.asked = s
  PROVE  CooldownInv'
<1>1. Honest(dir, told) /\ (faults > 0 => NothingOwed(told))
  BY DEF CooldownInv
<1>2. dir \in [Servers -> Files] /\ told \in [Servers -> Nat]
  BY DEF TypeOK
<1>3. /\ Honest(dir, told)' /\ (faults > 0 => NothingOwed(told)')
      /\ answer = "guide" => told'[s] = 0
      /\ told'[s] = 0 \/ (told'[s] > 0 /\ dir'[s].cooldown # dir[s].cooldown)
  BY <1>1, <1>2, DownloadIsHonest
<1>4. \A t \in Servers : t # s => told'[t] = told[t]
  BY <1>2, DownloadFiles
<1>5. CarriedByBundle(job)' => Honest(bundle, told)'
  <2> SUFFICES ASSUME CarriedByBundle(job)'
               PROVE  Honest(bundle, told)'
    OBVIOUS
  <2>1. Honest(bundle, told)
    BY DEF CooldownInv
  <2>2. told'[s] = 0
    BY <1>3
  <2> QED
    BY <1>4, <2>1, <2>2 DEF Honest
<1>6. Working' /\ job'.step = "saving" => told'[job'.asked] = 0
  BY <1>3
<1> QED
  BY <1>3, <1>5, <1>6 DEF CooldownInv

LEMMA ReviewStep ==
  ASSUME IInv, NEW s \in Servers, Review(s)
  PROVE  IInv'
<1>1. job \in Jobs /\ job # NoJob /\ job.step = "reviewing"
  BY AtJob DEF IInv, Review
<1>2. job' = [job EXCEPT !.left = job.left \ {s}] /\ job' \in Jobs
  <2>1. job.left \ {s} \in SUBSET Servers
    BY <1>1 DEF Jobs
  <2> QED
    BY <1>1, <2>1, JobLeft DEF Review
<1>3. /\ job' # NoJob
      /\ job'.left = job.left \ {s} /\ job'.kind = job.kind /\ job'.step = job.step
      /\ job'.outcome = job.outcome /\ job'.asked = job.asked /\ job'.missed = job.missed
      /\ job'.changed = job.changed /\ job'.read = job.read /\ job'.report = job.report
      /\ job'.usable = job.usable
  BY <1>1, <1>2, JobsAreRuns DEF Jobs
<1>4. job.kind = "refresh"
  BY <1>1 DEF IInv, StepInv, AfterPlan, Working, Jobs, Kinds
<1>5. UNCHANGED <<settled, faults, health, waiting, finished, bundle, kept>>
  BY DEF Review
<1>6. PICK answer \in Answers(s) : Download(s, answer)
  BY DEF Review
<1>7. /\ dir' \in [Servers -> Files] /\ told' \in [Servers -> Nat]
      /\ \A t \in Servers : dir'[t].guide = dir[t].guide /\ dir'[t].torn = dir[t].torn
  BY <1>6, DownloadFiles DEF IInv, TypeOK
<1>8. TypeOK'
  BY <1>2, <1>5, <1>7 DEF IInv, TypeOK
<1>9. StepInv'
  BY <1>1, <1>3, <1>4 DEF StepInv, RefreshSteps, AfterPlan, Working
<1>10. FilesInv'
  BY <1>1, <1>3, <1>5, <1>7 DEF IInv, FilesInv, Working
<1>11. CooldownInv'
  <2>1. CarriedByDir(job) /\ ~CarriedByBundle(job)' /\ ~Cooling(dir[s])
    BY <1>1, <1>3, <1>4 DEF CarriedByDir, CarriedByBundle, Review
  <2>2. TypeOK /\ CooldownInv
    BY DEF IInv
  <2>3. job'.step # "saving"
    BY <1>1, <1>3
  <2> QED
    BY <1>5, <1>6, <2>1, <2>2, <2>3, AnswerKeepsCooldowns
<1>12. GuideInv'
  BY <1>1, <1>3, <1>4, <1>5, <1>7 DEF IInv, GuideInv, Working
<1>13. ReportInv'
  BY <1>1, <1>3, <1>4, <1>5 DEF IInv, ReportInv, Working
<1> QED
  BY <1>8, <1>9, <1>10, <1>11, <1>12, <1>13 DEF IInv

LEMMA BuildStep ==
  ASSUME IInv, NEW s \in Servers, Build(s)
  PROVE  IInv'
<1>1. job \in Jobs /\ job # NoJob /\ job.step = "building" /\ s \in job.left
  BY AtJob DEF IInv, Build, Turn
<1>2. job.kind = "refresh"
  BY <1>1 DEF IInv, StepInv, AfterPlan, Working, Jobs, Kinds
<1>3. UNCHANGED <<settled, faults, health, waiting, finished, bundle, kept>>
  BY DEF Build
<1>4. PICK answer \in Answers(s) :
        /\ Download(s, answer)
        /\ job' = CASE answer = "guide" -> [Served(s, "none") EXCEPT !.step = "saving", !.asked = s]
                    [] answer = "stale" -> Served(s, "none")
                    [] answer = "down" -> Fallback(s)
                    [] answer = "broken" -> [job EXCEPT !.failed = TRUE, !.step = "sealing"]
  BY DEF Build
<1>5. /\ dir' \in [Servers -> Files] /\ told' \in [Servers -> Nat]
      /\ \A t \in Servers : dir'[t].guide = dir[t].guide /\ dir'[t].torn = dir[t].torn
  BY <1>4, DownloadFiles DEF IInv, TypeOK
<1>6. answer \in {"guide", "stale", "down", "broken"}
  BY DEF Answers
<1>7. /\ job' \in Jobs /\ job' # NoJob /\ job'.kind = "refresh" /\ job'.missed = job.missed
      /\ job'.step = "saving" => answer = "guide" /\ job'.asked = s /\ job'.left = job.left \ {s}
      /\ job'.step \in {"building", "saving", "sealing"}
  <2>1. CASE answer = "guide"
    <3> DEFINE served == Served(s, "none")
    <3>1. /\ served \in Jobs /\ served.kind = job.kind /\ served.missed = job.missed
          /\ served.left = job.left \ {s}
      BY <1>1, JobServes
    <3>2. job' = [served EXCEPT !.step = "saving", !.asked = s]
      BY <1>4, <2>1
    <3> HIDE DEF served
    <3>3. /\ job' \in Jobs /\ job'.kind = served.kind /\ job'.missed = served.missed
          /\ job'.step = "saving" /\ job'.asked = s /\ job'.left = served.left
      BY <3>1, <3>2, JobSaves
    <3> QED
      BY <1>2, <2>1, <3>1, <3>3, JobsAreRuns
  <2>2. CASE answer \in {"stale", "down"}
    <3>1. PICK outcome \in {"none", "cached", "placeholder"} : job' = Served(s, outcome)
      BY <1>4, <2>2 DEF Fallback
    <3> QED
      BY <1>1, <1>2, <2>2, <3>1, JobServes, JobsAreRuns
  <2>3. CASE answer = "broken"
    <3>1. job' = [job EXCEPT !.failed = TRUE, !.step = "sealing"]
      BY <1>4, <2>3
    <3>2. job' \in Jobs
      BY <1>1, <3>1, JobFails DEF StepNames
    <3> QED
      BY <1>1, <1>2, <3>1, <3>2, JobsAreRuns DEF Jobs
  <2> QED
    BY <1>6, <2>1, <2>2, <2>3
<1>8. TypeOK'
  BY <1>3, <1>5, <1>7 DEF IInv, TypeOK
<1>9. StepInv'
  BY <1>7 DEF StepInv, RefreshSteps, AfterPlan, Working
<1>10. FilesInv'
  BY <1>1, <1>3, <1>5, <1>7 DEF IInv, FilesInv, Working
<1>11. CooldownInv'
  <2>1. CarriedByDir(job) /\ ~CarriedByBundle(job)' /\ ~Cooling(dir[s])
    BY <1>1, <1>7 DEF CarriedByDir, CarriedByBundle, Build
  <2>2. TypeOK /\ CooldownInv
    BY DEF IInv
  <2> QED
    BY <1>3, <1>4, <1>7, <2>1, <2>2, AnswerKeepsCooldowns
<1>12. GuideInv'
  <2>1. CASE answer = "broken"
    <3>1. /\ job'.step = "sealing" /\ job'.outcome = job.outcome /\ job'.missed = job.missed
      BY <1>1, <1>4, <2>1 DEF Jobs
    <3> QED
      BY <1>1, <1>2, <1>3, <1>5, <1>7, <3>1 DEF IInv, GuideInv, Working
  <2>2. CASE answer # "broken"
    <3>1. PICK outcome \in {"none", "cached", "placeholder"} :
            /\ outcome = "placeholder" => ~Loadable(dir[s])
            /\ \/ answer # "guide" /\ job' = Served(s, outcome)
               \/ /\ answer = "guide" /\ outcome = "none"
                  /\ job' = [Served(s, outcome) EXCEPT !.step = "saving", !.asked = s]
      <4>1. CASE answer \in {"guide", "stale"}
        BY <1>4, <4>1
      <4>2. CASE answer = "down"
        BY <1>4, <4>2 DEF Fallback
      <4> QED
        BY <1>6, <2>2, <4>1, <4>2
    <3>2. /\ job'.kind = job.kind /\ job'.missed = job.missed /\ job'.left = job.left \ {s}
          /\ \A t \in Servers : job'.outcome[t] = IF t = s THEN outcome ELSE job.outcome[t]
          /\ \/ job'.step = "building"
             \/ job'.step = "saving" /\ job'.asked = s /\ outcome = "none"
      <4> DEFINE served == Served(s, outcome)
      <4>1. /\ served \in Jobs /\ served.kind = job.kind /\ served.missed = job.missed
            /\ served.left = job.left \ {s} /\ served.step = "building"
            /\ \A t \in Servers : served.outcome[t] = IF t = s THEN outcome ELSE job.outcome[t]
        BY <1>1, JobServes
      <4>2. \/ job' = served
            \/ outcome = "none" /\ job' = [served EXCEPT !.step = "saving", !.asked = s]
        BY <3>1
      <4> HIDE DEF served
      <4>3. CASE job' = served
        BY <4>1, <4>3
      <4>4. CASE outcome = "none" /\ job' = [served EXCEPT !.step = "saving", !.asked = s]
        <5>1. /\ job'.kind = served.kind /\ job'.missed = served.missed /\ job'.left = served.left
              /\ job'.outcome = served.outcome /\ job'.step = "saving" /\ job'.asked = s
          BY <4>1, <4>4, JobSaves
        <5> QED
          BY <4>1, <4>4, <5>1
      <4> QED
        BY <4>2, <4>3, <4>4
    <3> QED
      BY <1>1, <1>3, <1>5, <3>1, <3>2, ServedKeepsGuides DEF IInv, TypeOK, Working
  <2> QED
    BY <2>1, <2>2
<1>13. ReportInv'
  BY <1>1, <1>2, <1>3, <1>7 DEF IInv, ReportInv, Working
<1> QED
  BY <1>8, <1>9, <1>10, <1>11, <1>12, <1>13 DEF IInv

LEMMA SaveBytesStep ==
  ASSUME IInv, SaveBytes
  PROVE  IInv'
<1>1. job \in Jobs /\ job # NoJob /\ job.step = "saving"
  BY AtJob DEF IInv, SaveBytes
<1>2. job.asked \in Servers /\ job.asked \notin job.left
  BY <1>1 DEF IInv, StepInv, Working
<1>3. UNCHANGED <<settled, faults, health, waiting, finished, bundle, job, told, kept>>
  BY DEF SaveBytes
<1>4. /\ dir' \in [Servers -> Files] /\ \A s \in Servers : s # job.asked => dir'[s] = dir[s]
      /\ dir'[job.asked].guide = dir[job.asked].guide
      /\ dir'[job.asked].cooldown = dir[job.asked].cooldown
  <2> DEFINE f == [dir[job.asked] EXCEPT !.torn = TRUE]
  <2>1. /\ f \in Files /\ f.guide = dir[job.asked].guide
        /\ f.cooldown = dir[job.asked].cooldown
    BY <1>2, FileUpdates DEF IInv, TypeOK
  <2>2. dir \in [Servers -> Files] /\ dir' = [dir EXCEPT ![job.asked] = f]
    BY DEF IInv, TypeOK, SaveBytes
  <2> HIDE DEF f
  <2> QED
    BY <1>2, <2>1, <2>2
<1>5. TypeOK'
  BY <1>3, <1>4 DEF IInv, TypeOK
<1>6. StepInv'
  BY <1>3 DEF IInv, StepInv, Working
<1>7. FilesInv'
  BY <1>1, <1>3, <1>4 DEF IInv, FilesInv, Working
<1>8. CooldownInv'
  <2>1. Honest(dir, told) => Honest(dir, told)'
    BY <1>2, <1>3, <1>4 DEF Honest
  <2>2. Honest(bundle, told) => Honest(bundle, told)'
    BY <1>3 DEF Honest
  <2> QED
    BY <1>1, <1>3, <2>1, <2>2
       DEF IInv, CooldownInv, Working, CarriedByDir, CarriedByBundle, NothingOwed
<1>9. GuideInv'
  <2> SUFFICES ASSUME job.kind = "refresh", ~job.missed
               PROVE  GuideInv'
    BY <1>3 DEF GuideInv
  <2>1. \A s \in Servers : s \in job.left => dir'[s] = dir[s]
    BY <1>2, <1>4
  <2>2. \A s \in Servers : dir'[s].guide = dir[s].guide
    BY <1>2, <1>4
  <2> QED
    BY <1>1, <1>3, <2>1, <2>2 DEF IInv, GuideInv, Working
<1>10. ReportInv'
  BY <1>3 DEF IInv, ReportInv, Working
<1> QED
  BY <1>5, <1>6, <1>7, <1>8, <1>9, <1>10 DEF IInv

\* What follows a save, whether it succeeded or not.
LEMMA JobAfterSave ==
  ASSUME job \in Jobs, StepInv, job.step = "saving", job' = AfterSave
  PROVE  /\ job' \in Jobs /\ job' # NoJob /\ job'.asked = Absent /\ job'.changed = TRUE
         /\ job'.step = IF job.kind = "recovery" THEN "probing" ELSE "building"
         /\ job'.kind = job.kind /\ job'.left = job.left /\ job'.outcome = job.outcome
         /\ job'.missed = job.missed /\ job'.read = job.read /\ job'.report = job.report
         /\ job'.usable = job.usable
<1> DEFINE step == IF job.kind = "recovery" THEN "probing" ELSE "building"
<1>1. step \in StepNames /\ job' = [job EXCEPT !.step = step, !.asked = Absent, !.changed = TRUE]
  BY DEF AfterSave, StepNames
<1> HIDE DEF step
<1>2. job' \in Jobs /\ job' # NoJob
  BY <1>1, JobSaved, JobsAreRuns
<1>3. /\ job'.asked = Absent /\ job'.changed = TRUE /\ job'.step = step
      /\ job'.kind = job.kind /\ job'.left = job.left /\ job'.outcome = job.outcome
      /\ job'.missed = job.missed /\ job'.read = job.read /\ job'.report = job.report
      /\ job'.usable = job.usable
  BY <1>1 DEF Jobs
<1> QED
  BY <1>2, <1>3 DEF step

LEMMA AfterSaveKeepsInv ==
  ASSUME IInv, job \in Jobs, job # NoJob, job.step = "saving", job' = AfterSave,
         UNCHANGED <<bundle, kept, health, finished>>,
         \A s \in Servers : s # job.asked => dir'[s] = dir[s]
  PROVE  StepInv' /\ GuideInv' /\ ReportInv'
<1>1. /\ job' \in Jobs /\ job' # NoJob /\ job'.asked = Absent
      /\ job'.step = IF job.kind = "recovery" THEN "probing" ELSE "building"
      /\ job'.kind = job.kind /\ job'.left = job.left /\ job'.outcome = job.outcome
      /\ job'.missed = job.missed /\ job'.read = job.read /\ job'.report = job.report
      /\ job'.usable = job.usable
  BY JobAfterSave DEF IInv
<1>2. StepInv'
  BY <1>1 DEF IInv, StepInv, Working, RefreshSteps, AfterPlan, Jobs, Kinds
<1>3. GuideInv'
  <2> SUFFICES ASSUME job.kind = "refresh", ~job.missed
               PROVE  GuideInv'
    BY <1>1 DEF GuideInv
  <2>1. job.asked \notin job.left
    BY DEF IInv, StepInv, Working
  <2>2. \A s \in Servers : s \in job.left => dir'[s] = dir[s]
    BY <2>1
  <2>3. \A s \in Servers : job.outcome[s] = "placeholder" => dir'[s] = dir[s]
    BY DEF IInv, GuideInv, Working
  <2> QED
    BY <1>1, <2>2, <2>3 DEF IInv, GuideInv, Working
<1>4. ReportInv'
  BY <1>1 DEF IInv, ReportInv, Working, AfterPlan
<1> QED
  BY <1>2, <1>3, <1>4

LEMMA SaveMetadataStep ==
  ASSUME IInv, SaveMetadata
  PROVE  IInv'
<1>1. job \in Jobs /\ job # NoJob /\ job.step = "saving"
  BY AtJob DEF IInv, SaveMetadata
<1>2. job.asked \in Servers
  BY <1>1 DEF IInv, StepInv, Working
<1>3. UNCHANGED <<settled, faults, health, waiting, finished, bundle, told, kept>>
  BY DEF SaveMetadata
<1>4. /\ job' \in Jobs /\ job' # NoJob /\ job'.changed = TRUE
      /\ job'.step \in {"probing", "building"}
  BY <1>1, JobAfterSave DEF IInv, SaveMetadata
<1>5. /\ dir' \in [Servers -> Files] /\ \A s \in Servers : s # job.asked => dir'[s] = dir[s]
      /\ dir'[job.asked].torn = FALSE
  <2> DEFINE f == Lifted([dir[job.asked] EXCEPT !.guide = 0, !.torn = FALSE])
  <2>1. f \in Files /\ f.torn = FALSE
    BY <1>2, FileSaved DEF IInv, TypeOK
  <2>2. dir \in [Servers -> Files] /\ dir' = [dir EXCEPT ![job.asked] = f]
    BY DEF IInv, TypeOK, SaveMetadata
  <2> HIDE DEF f
  <2> QED
    BY <1>2, <2>1, <2>2
<1>6. TypeOK'
  BY <1>3, <1>4, <1>5 DEF IInv, TypeOK
<1>7. FilesInv'
  BY <1>1, <1>3, <1>4, <1>5 DEF IInv, FilesInv, Working
<1>8. CooldownInv'
  <2>1. told[job.asked] = 0
    BY <1>1 DEF IInv, CooldownInv, Working
  <2>2. Honest(dir, told) => Honest(dir, told)'
    BY <1>3, <1>5, <2>1 DEF Honest
  <2> QED
    BY <1>1, <1>3, <1>4, <2>2
       DEF IInv, CooldownInv, Working, CarriedByDir, CarriedByBundle, NothingOwed
<1>9. StepInv' /\ GuideInv' /\ ReportInv'
  BY <1>1, <1>3, <1>5, AfterSaveKeepsInv DEF SaveMetadata
<1> QED
  BY <1>6, <1>7, <1>8, <1>9 DEF IInv

LEMMA FaultForgives ==
  ASSUME TypeOK, Fault
  PROVE  /\ NothingOwed(told)' /\ told' \in [Servers -> Nat]
         /\ faults' \in 0 .. MaxFaults /\ faults' > 0
<1>1. MaxFaults \in Nat /\ faults \in 0 .. MaxFaults
  BY AgeTypes DEF TypeOK
<1>2. faults' \in 0 .. MaxFaults /\ faults' > 0
  BY <1>1 DEF Fault
<1> QED
  BY <1>2 DEF Fault, NothingOwed

LEMMA SaveFailsStep ==
  ASSUME IInv, SaveFails
  PROVE  IInv'
<1>1. job \in Jobs /\ job # NoJob /\ job.step = "saving"
  BY AtJob DEF IInv, SaveFails
<1>2. UNCHANGED <<settled, health, waiting, finished, bundle, dir, kept>>
  BY DEF SaveFails
<1>3. job' \in Jobs /\ job' # NoJob /\ job'.step \in {"probing", "building"}
  BY <1>1, JobAfterSave DEF IInv, SaveFails
<1>4. /\ NothingOwed(told)' /\ told' \in [Servers -> Nat]
      /\ faults' \in 0 .. MaxFaults /\ faults' > 0
  BY FaultForgives DEF IInv, SaveFails
<1>5. TypeOK'
  BY <1>2, <1>3, <1>4 DEF IInv, TypeOK
<1>6. FilesInv'
  BY <1>2, <1>4 DEF IInv, FilesInv
<1>7. CooldownInv'
  BY <1>3, <1>4, NothingOwedIsHonest
<1>8. StepInv' /\ GuideInv' /\ ReportInv'
  BY <1>1, <1>2, AfterSaveKeepsInv DEF SaveFails
<1> QED
  BY <1>5, <1>6, <1>7, <1>8 DEF IInv

LEMMA StepFailsStep ==
  ASSUME IInv, StepFails
  PROVE  IInv'
<1>1. /\ job \in Jobs /\ job # NoJob /\ job.kind = "refresh"
      /\ job.step \in {"reviewing", "building", "saving"}
      /\ job' = [job EXCEPT !.failed = TRUE, !.step = "sealing"]
  BY DEF IInv, TypeOK, StepFails, Jobs, Kinds
<1>2. /\ job' \in Jobs /\ job' # NoJob
  BY <1>1, JobFails, JobsAreRuns DEF StepNames
<1>3. /\ job'.step = "sealing" /\ job'.kind = job.kind /\ job'.outcome = job.outcome
      /\ job'.missed = job.missed
  BY <1>1 DEF Jobs
<1>4. UNCHANGED <<settled, health, waiting, finished, bundle, dir, kept>>
  BY DEF StepFails
<1>5. /\ NothingOwed(told)' /\ told' \in [Servers -> Nat]
      /\ faults' \in 0 .. MaxFaults /\ faults' > 0
  BY FaultForgives DEF IInv, StepFails
<1>6. TypeOK'
  BY <1>2, <1>4, <1>5 DEF IInv, TypeOK
<1>7. StepInv'
  BY <1>1, <1>3 DEF StepInv, RefreshSteps, Working
<1>8. FilesInv'
  BY <1>4, <1>5 DEF IInv, FilesInv
<1>9. CooldownInv'
  BY <1>3, <1>5, NothingOwedIsHonest
<1>10. GuideInv'
  BY <1>1, <1>3, <1>4 DEF IInv, GuideInv, Working
<1>11. ReportInv'
  BY <1>1, <1>3, <1>4 DEF IInv, ReportInv, Working
<1> QED
  BY <1>6, <1>7, <1>8, <1>9, <1>10, <1>11 DEF IInv

LEMMA RestoreFailsStep ==
  ASSUME IInv, RestoreFails
  PROVE  IInv'
<1>1. /\ job \in Jobs /\ job # NoJob /\ job.step \in {"reviewing", "selecting"}
      /\ job' = [job EXCEPT !.missed = TRUE]
  BY DEF IInv, TypeOK, RestoreFails
<1>2. job' \in Jobs /\ job' # NoJob
  BY <1>1, JobMisses, JobsAreRuns
<1>3. /\ job'.missed = TRUE /\ job'.step = job.step /\ job'.kind = job.kind
      /\ job'.left = job.left /\ job'.outcome = job.outcome /\ job'.asked = job.asked
      /\ job'.read = job.read /\ job'.report = job.report /\ job'.usable = job.usable
  BY <1>1 DEF Jobs
<1>4. /\ UNCHANGED <<settled, health, waiting, finished, bundle, kept>> /\ dir' = Empty
  BY DEF RestoreFails
<1>5. /\ NothingOwed(told)' /\ told' \in [Servers -> Nat]
      /\ faults' \in 0 .. MaxFaults /\ faults' > 0
  BY FaultForgives DEF IInv, RestoreFails
<1>6. TypeOK'
  BY <1>2, <1>4, <1>5, EmptyFiles DEF IInv, TypeOK
<1>7. StepInv'
  BY <1>1, <1>2, <1>3 DEF IInv, StepInv, Working
<1>8. FilesInv'
  BY <1>4, <1>5 DEF IInv, FilesInv
<1>9. CooldownInv'
  BY <1>1, <1>3, <1>5, NothingOwedIsHonest
<1>10. GuideInv'
  BY <1>3 DEF GuideInv
<1>11. ReportInv'
  BY <1>1, <1>2, <1>3, <1>4 DEF IInv, ReportInv, Working
<1> QED
  BY <1>6, <1>7, <1>8, <1>9, <1>10, <1>11 DEF IInv

\* The seal follows a build or a probe; what a run does next is publish or request.
LEMMA JobAfterSeal ==
  ASSUME IInv, job \in Jobs, job # NoJob, job.step = "sealing", job' = AfterSeal,
         UNCHANGED <<health, finished>>
  PROVE  /\ job' \in Jobs /\ job' # NoJob /\ job'.step \in {"publishing", "requesting"}
         /\ job'.kind = job.kind /\ job'.outcome = job.outcome /\ job'.missed = job.missed
         /\ job'.kind = "refresh" => job'.step = "publishing"
         /\ StepInv' /\ ReportInv'
<1> DEFINE step == IF job.kind = "recovery" THEN "requesting" ELSE "publishing"
<1>1. step \in StepNames /\ job' = [job EXCEPT !.step = step]
  BY DEF AfterSeal, StepNames
<1>2. /\ step \in {"publishing", "requesting"} /\ (job.kind = "recovery" <=> step = "requesting")
      /\ job.kind \in {"refresh", "recovery"}
  BY DEF Jobs, Kinds
<1> HIDE DEF step
<1>3. job' \in Jobs /\ job' # NoJob
  BY <1>1, JobSteps, JobsAreRuns
<1>4. /\ job'.step = step /\ job'.kind = job.kind /\ job'.outcome = job.outcome
      /\ job'.missed = job.missed /\ job'.read = job.read /\ job'.report = job.report
      /\ job'.usable = job.usable
  BY <1>1 DEF Jobs
<1>5. StepInv'
  BY <1>2, <1>3, <1>4 DEF IInv, StepInv, Working, RefreshSteps, AfterPlan
<1>6. ReportInv'
  BY <1>2, <1>3, <1>4 DEF IInv, ReportInv, Working, AfterPlan
<1> QED
  BY <1>2, <1>3, <1>4, <1>5, <1>6

LEMMA SealStep ==
  ASSUME IInv, Seal
  PROVE  IInv'
<1>1. job \in Jobs /\ job # NoJob /\ job.step = "sealing"
  BY AtJob DEF IInv, Seal
<1>2. UNCHANGED <<settled, faults, health, waiting, finished, dir, told>>
  BY DEF Seal
<1>3. /\ job' \in Jobs /\ job' # NoJob /\ job'.step \in {"publishing", "requesting"}
      /\ job'.kind = job.kind /\ job'.outcome = job.outcome /\ job'.missed = job.missed
      /\ job'.kind = "refresh" => job'.step = "publishing"
      /\ StepInv' /\ ReportInv'
  BY <1>1, <1>2, JobAfterSeal DEF Seal
<1>4. \/ Whole(dir) /\ bundle' = dir /\ kept' = [s \in Servers |-> dir[s].guide]
      \/ ~Whole(dir) /\ UNCHANGED <<bundle, kept>>
  BY DEF Seal
<1>5. TypeOK'
  <2>1. \A s \in Servers : dir[s].guide \in Ages \cup {Absent}
    BY DEF IInv, TypeOK, Files
  <2> QED
    BY <1>2, <1>3, <1>4, <2>1 DEF IInv, TypeOK
<1>6. FilesInv'
  <2>1. CASE Whole(dir) /\ bundle' = dir /\ kept' = [s \in Servers |-> dir[s].guide]
    BY <1>1, <1>2, <1>3, <2>1 DEF IInv, FilesInv, Whole, Working
  <2>2. CASE UNCHANGED <<bundle, kept>>
    BY <1>1, <1>2, <1>3, <2>2 DEF IInv, FilesInv, Working
  <2> QED
    BY <1>4, <2>1, <2>2
<1>7. CooldownInv'
  <2>1. CASE faults > 0
    BY <1>2, <1>3, <2>1, NothingOwedIsHonest DEF IInv, CooldownInv, NothingOwed
  <2>2. CASE ~(faults > 0)
    <3>1. Honest(dir, told)
      BY <1>1 DEF IInv, CooldownInv, CarriedByDir
    <3>2. \A s \in Servers : ~dir[s].torn
      <4>1. faults = 0
        BY <2>2, AgeTypes DEF IInv, TypeOK
      <4> QED
        BY <1>1, <4>1 DEF IInv, FilesInv, Working
    <3>3. Honest(bundle, told)'
      <4>1. CASE Whole(dir) /\ bundle' = dir
        BY <1>2, <3>1, <4>1 DEF Honest
      <4>2. CASE ~Whole(dir)
        <5>1. dir = Empty
          BY <3>2, <4>2 DEF Whole
        <5>2. \A s \in Servers : ~(told[s] > 0)
          BY <3>1, <5>1, EmptyFiles DEF Honest
        <5> QED
          BY <1>2, <5>2 DEF Honest
      <4> QED
        BY <1>4, <4>1, <4>2
    <3>4. ~CarriedByDir(job)' /\ job'.step # "saving"
      BY <1>3 DEF CarriedByDir
    <3> QED
      BY <1>2, <2>2, <3>3, <3>4 DEF CooldownInv
  <2> QED
    BY <2>1, <2>2
<1>8. GuideInv'
  <2> SUFFICES ASSUME job.kind = "refresh", ~job.missed
               PROVE  GuideInv'
    BY <1>3 DEF GuideInv
  <2>1. \A s \in Servers : job.outcome[s] = "placeholder" =>
           Unusable(kept[s]) /\ Unusable(dir[s].guide)
    BY <1>1 DEF IInv, GuideInv, Working
  <2>2. \A s \in Servers : job.outcome[s] = "placeholder" => Unusable(kept'[s])
    BY <1>4, <2>1
  <2> QED
    BY <1>3, <2>2 DEF GuideInv, Unusable
<1> QED
  BY <1>3, <1>5, <1>6, <1>7, <1>8 DEF IInv

LEMMA SealFailsStep ==
  ASSUME IInv, SealFails
  PROVE  IInv'
<1>1. job \in Jobs /\ job # NoJob /\ job.step = "sealing"
  BY AtJob DEF IInv, SealFails
<1>2. UNCHANGED <<settled, health, waiting, finished, bundle, dir, kept>>
  BY DEF SealFails
<1>3. /\ job' \in Jobs /\ job' # NoJob /\ job'.step \in {"publishing", "requesting"}
      /\ job'.kind = job.kind /\ job'.outcome = job.outcome /\ job'.missed = job.missed
      /\ job'.kind = "refresh" => job'.step = "publishing"
      /\ StepInv' /\ ReportInv'
  BY <1>1, <1>2, JobAfterSeal DEF SealFails
<1>4. /\ NothingOwed(told)' /\ told' \in [Servers -> Nat]
      /\ faults' \in 0 .. MaxFaults /\ faults' > 0
  BY FaultForgives DEF IInv, SealFails
<1>5. TypeOK'
  BY <1>2, <1>3, <1>4 DEF IInv, TypeOK
<1>6. FilesInv'
  BY <1>2, <1>4 DEF IInv, FilesInv
<1>7. CooldownInv'
  BY <1>3, <1>4, NothingOwedIsHonest
<1>8. GuideInv'
  BY <1>1, <1>2, <1>3 DEF IInv, GuideInv, Working
<1> QED
  BY <1>3, <1>5, <1>6, <1>7, <1>8 DEF IInv

\* A run that ends leaves the lock free and its directory empty.
LEMMA EndKeepsInv ==
  ASSUME IInv, End, UNCHANGED <<bundle, kept>>,
         bundle \in [Servers -> Files],
         \/ NothingOwed(told)'
         \/ /\ UNCHANGED <<faults, told>> /\ CarriedByBundle(job)
  PROVE  StepInv' /\ FilesInv' /\ CooldownInv' /\ GuideInv' /\ dir' \in [Servers -> Files]
<1>1. job' = NoJob /\ dir' = Empty
  BY DEF End
<1>2. StepInv' /\ FilesInv' /\ GuideInv' /\ dir' \in [Servers -> Files]
  BY <1>1, EmptyFiles DEF IInv, StepInv, FilesInv, GuideInv, Working
<1>3. CooldownInv'
  <2>1. ~Working' /\ ~CarriedByDir(job)'
    BY <1>1 DEF Working, CarriedByDir
  <2>2. CASE NothingOwed(told)'
    BY <2>1, <2>2, NothingOwedIsHonest
  <2>3. CASE UNCHANGED <<faults, told>> /\ CarriedByBundle(job)
    <3>1. Honest(bundle, told) /\ (faults > 0 => NothingOwed(told))
      BY <2>3 DEF IInv, CooldownInv
    <3>2. Honest(bundle, told)' /\ (faults' > 0 => NothingOwed(told)')
      BY <2>3, <3>1 DEF Honest, NothingOwed
    <3> QED
      BY <2>1, <3>2 DEF CooldownInv
  <2> QED
    BY <2>2, <2>3
<1> QED
  BY <1>2, <1>3

LEMMA PublishStep ==
  ASSUME IInv, Publish
  PROVE  IInv'
<1>1. job \in Jobs /\ job # NoJob /\ job.step = "publishing"
  BY AtJob DEF IInv, Publish
<1>2. job.kind = "refresh"
  BY <1>1 DEF IInv, StepInv, AfterPlan, Working, Jobs, Kinds
<1>3. /\ UNCHANGED <<settled, faults, waiting, bundle, told, kept>>
      /\ job' = NoJob /\ dir' = Empty /\ finished' = 0
  BY <1>2 DEF Publish, End
<1>4. /\ health' \in [current : SUBSET Servers, previous : SUBSET Servers, age : 0 .. Lag]
      /\ health'.age \in 0 .. Lag
  <2>1. health \in [current : SUBSET Servers, previous : SUBSET Servers, age : 0 .. Lag]
    BY DEF IInv, TypeOK
  <2>2. 0 \in 0 .. Lag
    BY AgeTypes
  <2>3. \/ health' = health
        \/ health' = [current |-> {s \in Servers : job.outcome[s] \in {"cached", "placeholder"}},
                      previous |-> health.current, age |-> 0]
    BY DEF Publish
  <2> QED
    BY <2>1, <2>2, <2>3
<1>5. StepInv' /\ FilesInv' /\ CooldownInv' /\ GuideInv' /\ dir' \in [Servers -> Files]
  <2>1. CarriedByBundle(job) /\ End /\ bundle \in [Servers -> Files]
    BY <1>1 DEF CarriedByBundle, Publish, IInv, TypeOK
  <2> QED
    BY <1>3, <2>1, EndKeepsInv
<1>6. TypeOK'
  BY <1>3, <1>4, <1>5, AgeTypes DEF IInv, TypeOK
<1>7. ReportInv'
  <2>1. finished' <= health'.age
    BY <1>3, <1>4, AgeTypes
  <2> QED
    BY <1>3, <2>1 DEF ReportInv, Working
<1> QED
  BY <1>5, <1>6, <1>7 DEF IInv

LEMMA RunFailsStep ==
  ASSUME IInv, RunFails
  PROVE  IInv'
<1>1. /\ UNCHANGED <<settled, health, waiting, bundle, kept>>
      /\ job' = NoJob /\ dir' = Empty /\ finished' \in {finished, 0}
  BY DEF RunFails, End
<1>2. /\ NothingOwed(told)' /\ told' \in [Servers -> Nat]
      /\ faults' \in 0 .. MaxFaults /\ faults' > 0
  BY FaultForgives DEF IInv, RunFails
<1>3. StepInv' /\ FilesInv' /\ CooldownInv' /\ GuideInv' /\ dir' \in [Servers -> Files]
  BY <1>1, <1>2, EndKeepsInv DEF RunFails, IInv, TypeOK
<1>4. TypeOK'
  BY <1>1, <1>2, <1>3, AgeTypes DEF IInv, TypeOK
<1>5. ReportInv'
  <2>1. health.age \in Nat
    BY AgeTypes DEF IInv, TypeOK
  <2> QED
    BY <1>1, <2>1 DEF IInv, ReportInv, Working
<1> QED
  BY <1>3, <1>4, <1>5 DEF IInv

-----------------------------------------------------------------------------
(***************************************************************************)
(* A recovery preserves the invariant.                                     *)
(***************************************************************************)
LEMMA ReadHealthStep ==
  ASSUME IInv, ReadHealth
  PROVE  IInv'
<1>1. /\ job \in Jobs /\ job # NoJob /\ job.kind = "recovery"
      /\ job.step \in {"planning", "selecting", "requesting"} /\ job.read = Absent
  BY DEF IInv, TypeOK, ReadHealth, StepInv, RefreshSteps, Working, Jobs, Kinds
<1>2. PICK r \in Reports : (r = "previous" => health.age < Lag) /\ job' = [job EXCEPT !.read = r]
  BY DEF ReadHealth
<1>3. UNCHANGED <<settled, faults, health, waiting, finished, bundle, dir, told, kept>>
  BY DEF ReadHealth
<1>4. job' \in Jobs /\ job' # NoJob
  BY <1>1, <1>2, JobReads, JobsAreRuns
<1>5. /\ job'.read = r /\ job'.kind = job.kind /\ job'.step = job.step /\ job'.left = job.left
      /\ job'.outcome = job.outcome /\ job'.asked = job.asked /\ job'.missed = job.missed
      /\ job'.changed = job.changed /\ job'.report = job.report /\ job'.usable = job.usable
  BY <1>1, <1>2 DEF Jobs
<1>6. TypeOK'
  BY <1>3, <1>4 DEF IInv, TypeOK
<1>7. StepInv'
  BY <1>1, <1>4, <1>5 DEF IInv, StepInv, Working
<1>8. FilesInv'
  BY <1>1, <1>3, <1>4, <1>5 DEF IInv, FilesInv, Working
<1>9. CooldownInv'
  BY <1>1, <1>3, <1>4, <1>5, CooldownStays DEF IInv, CarriedByBundle, CarriedByDir, Working
<1>10. GuideInv'
  BY <1>1, <1>5 DEF GuideInv
<1>11. ReportInv'
  <2>1. health.age \in Nat /\ Lag \in Nat /\ Window \in Nat /\ Lag <= Window /\ finished \in Nat
    BY AgeTypes, NativeGuideAssumption DEF IInv, TypeOK
  <2>2. job.step \in AfterPlan => r = "current"
    <3>1. job.step \in AfterPlan => finished = Window
      BY <1>1 DEF IInv, ReportInv, Working
    <3>2. health.age < Lag => finished <= health.age
      BY DEF IInv, ReportInv
    <3> QED
      BY <1>2, <2>1, <3>1, <3>2 DEF Reports
  <2> QED
    BY <1>1, <1>3, <1>4, <1>5, <2>2 DEF IInv, ReportInv, Working
<1> QED
  BY <1>6, <1>7, <1>8, <1>9, <1>10, <1>11 DEF IInv

LEMMA PlanStep ==
  ASSUME IInv, Plan
  PROVE  IInv'
<1>1. /\ job \in Jobs /\ job # NoJob /\ job.step = "planning" /\ job.kind = "recovery"
      /\ job.usable = {} /\ job.report = Absent
  BY AtJob DEF IInv, Plan, StepInv, RefreshSteps, Working, Jobs, Kinds, ReportInv
<1>2. UNCHANGED <<settled, faults, health, waiting, bundle, told, kept>>
  BY DEF Plan
<1>3. CASE End
  <2>1. job' = NoJob /\ finished' = finished
    BY <1>1, <1>3 DEF End
  <2>2. StepInv' /\ FilesInv' /\ CooldownInv' /\ GuideInv' /\ dir' \in [Servers -> Files]
    BY <1>1, <1>2, <1>3, EndKeepsInv DEF IInv, TypeOK, CarriedByBundle
  <2>3. TypeOK'
    BY <1>2, <2>1, <2>2 DEF IInv, TypeOK
  <2>4. ReportInv'
    BY <1>2, <2>1 DEF IInv, ReportInv, Working
  <2> QED
    BY <2>2, <2>3, <2>4 DEF IInv
<1>4. CASE /\ ~ActiveOrRecent /\ dir' = Restored /\ UNCHANGED finished
           /\ job' = [job EXCEPT !.step = "selecting", !.read = Absent, !.since = 0]
  <2>1. dir' = bundle /\ bundle \in [Servers -> Files] /\ bundle' = bundle
    BY <1>2, <1>4, RestoredIsBundle DEF IInv, TypeOK, FilesInv
  <2>2. job' \in Jobs /\ job' # NoJob
    BY <1>1, <1>4, JobPlanned, JobsAreRuns, AgeTypes DEF StepNames
  <2>3. /\ job'.step = "selecting" /\ job'.read = Absent /\ job'.kind = "recovery"
        /\ job'.outcome = job.outcome /\ job'.report = Absent /\ job'.usable = {}
    BY <1>1, <1>4 DEF Jobs
  <2>4. finished = Window
    BY <1>4, AgeTypes DEF ActiveOrRecent, IInv, TypeOK
  <2>5. TypeOK'
    BY <1>2, <1>4, <2>1, <2>2 DEF IInv, TypeOK
  <2>6. StepInv'
    BY <1>1, <2>2, <2>3 DEF IInv, StepInv, Working, AfterPlan
  <2>7. FilesInv'
    BY <1>2, <2>1 DEF IInv, FilesInv, Working
  <2>8. CooldownInv'
    <3>1. Honest(bundle, told) /\ (faults > 0 => NothingOwed(told))
      BY <1>1 DEF IInv, CooldownInv, CarriedByBundle
    <3>2. Honest(bundle, told)' /\ Honest(dir, told)' /\ (faults' > 0 => NothingOwed(told)')
      BY <1>2, <2>1, <3>1 DEF Honest, NothingOwed
    <3> QED
      BY <2>3, <3>2 DEF CooldownInv
  <2>9. GuideInv'
    BY <2>3 DEF GuideInv
  <2>10. ReportInv'
    BY <1>2, <1>4, <2>3, <2>4 DEF IInv, ReportInv, Working
  <2> QED
    BY <2>5, <2>6, <2>7, <2>8, <2>9, <2>10 DEF IInv
<1> QED
  BY <1>3, <1>4 DEF Plan

LEMMA SelectTargetsStep ==
  ASSUME IInv, SelectTargets
  PROVE  IInv'
<1>1. /\ job \in Jobs /\ job # NoJob /\ job.step = "selecting" /\ job.kind = "recovery"
      /\ job.read = "current" /\ job.usable \subseteq health.current /\ finished = Window
  BY AtJob DEF IInv, SelectTargets, StepInv, RefreshSteps, Working, Jobs, Kinds, ReportInv,
               AfterPlan
<1> DEFINE left == IF ActiveOrRecent THEN {} ELSE Targets(job.read)
<1>2. job' = [job EXCEPT !.step = "probing", !.read = Absent, !.report = job.read, !.left = left]
  BY DEF SelectTargets
<1>3. left \subseteq health.current /\ left \in SUBSET Servers
  <2>1. health.current \in SUBSET Servers
    BY DEF IInv, TypeOK
  <2> QED
    BY <1>1, <2>1 DEF Targets
<1> HIDE DEF left
<1>4. UNCHANGED <<settled, faults, health, waiting, finished, bundle, dir, told, kept>>
  BY DEF SelectTargets
<1>5. job' \in Jobs /\ job' # NoJob
  BY <1>1, <1>2, <1>3, JobSelects, JobsAreRuns DEF StepNames, Reports
<1>6. /\ job'.step = "probing" /\ job'.read = Absent /\ job'.report = "current"
      /\ job'.left = left /\ job'.kind = job.kind /\ job'.outcome = job.outcome
      /\ job'.changed = job.changed /\ job'.usable = job.usable
  BY <1>1, <1>2 DEF Jobs
<1>7. TypeOK'
  BY <1>4, <1>5 DEF IInv, TypeOK
<1>8. StepInv'
  BY <1>1, <1>6 DEF IInv, StepInv, Working, AfterPlan
<1>9. FilesInv'
  BY <1>1, <1>4, <1>6 DEF IInv, FilesInv, Working
<1>10. CooldownInv'
  BY <1>1, <1>4, <1>5, <1>6, CooldownStays DEF IInv, CarriedByBundle, CarriedByDir, Working
<1>11. GuideInv'
  BY <1>1, <1>6 DEF GuideInv
<1>12. ReportInv'
  BY <1>1, <1>3, <1>4, <1>6 DEF IInv, ReportInv, Working
<1> QED
  BY <1>7, <1>8, <1>9, <1>10, <1>11, <1>12 DEF IInv

LEMMA ProbeStep ==
  ASSUME IInv, NEW s \in Servers, Probe(s)
  PROVE  IInv'
<1>1. /\ job \in Jobs /\ job # NoJob /\ job.step = "probing" /\ job.kind = "recovery"
      /\ s \in job.left
  BY AtJob DEF IInv, Probe, Turn, StepInv, RefreshSteps, Working, Jobs, Kinds
<1>2. UNCHANGED <<settled, faults, health, waiting, finished, bundle, kept>>
  BY DEF Probe
<1> DEFINE left == job.left \ {s}
           changed == job.changed \/ dir' # dir
           on == [job EXCEPT !.left = left, !.changed = changed]
<1>3. PICK answer \in Answers(s) :
        /\ Download(s, answer)
        /\ job' = IF answer # "guide" THEN on
                  ELSE [on EXCEPT !.step = "saving", !.asked = s, !.usable = @ \cup {s}]
  BY DEF Probe
<1>4. /\ dir' \in [Servers -> Files] /\ told' \in [Servers -> Nat]
      /\ \A t \in Servers : dir'[t].guide = dir[t].guide /\ dir'[t].torn = dir[t].torn
  BY <1>3, DownloadFiles DEF IInv, TypeOK
<1>5. left \in SUBSET Servers /\ changed \in BOOLEAN /\ (~changed => ~job.changed /\ dir' = dir)
      /\ s \notin left /\ left \subseteq job.left
  BY <1>1 DEF Jobs
<1> HIDE DEF left, changed
<1>6. /\ on \in Jobs /\ on.left = left /\ on.changed = changed /\ on.kind = job.kind
      /\ on.step = job.step /\ on.outcome = job.outcome /\ on.missed = job.missed
      /\ on.read = job.read /\ on.report = job.report /\ on.usable = job.usable
  <2>1. on \in Jobs
    BY <1>1, <1>5, JobProbes
  <2> QED
    BY <1>1, <1>5, <2>1 DEF Jobs
<1> HIDE DEF on
<1>7. /\ job' \in Jobs /\ job' # NoJob /\ job'.kind = "recovery" /\ job'.outcome = job.outcome
      /\ job'.left = left /\ job'.changed = changed /\ job'.step \in {"probing", "saving"}
      /\ job'.step = "saving" => answer = "guide" /\ job'.asked = s
      /\ job'.read = job.read /\ job'.report = job.report
      /\ job'.usable \subseteq job.usable \cup {s}
  <2>1. CASE answer # "guide"
    BY <1>1, <1>3, <1>6, <2>1, JobsAreRuns
  <2>2. CASE answer = "guide"
    <3> DEFINE usable == on.usable \cup {s}
    <3>1. usable \in SUBSET Servers /\ usable = job.usable \cup {s}
      BY <1>6 DEF Jobs
    <3>2. job' = [on EXCEPT !.step = "saving", !.asked = s, !.usable = usable]
      BY <1>3, <2>2
    <3> HIDE DEF usable
    <3>3. /\ job' \in Jobs /\ job'.kind = on.kind /\ job'.outcome = on.outcome
          /\ job'.left = on.left /\ job'.changed = on.changed /\ job'.step = "saving"
          /\ job'.asked = s /\ job'.read = on.read /\ job'.report = on.report
          /\ job'.usable = usable
      BY <1>6, <3>1, <3>2 DEF Jobs
    <3> QED
      BY <1>1, <1>6, <2>2, <3>1, <3>3, JobsAreRuns
  <2> QED
    BY <2>1, <2>2
<1>8. TypeOK'
  BY <1>2, <1>4, <1>7 DEF IInv, TypeOK
<1>9. StepInv'
  BY <1>1, <1>5, <1>7 DEF IInv, StepInv, Working, AfterPlan
<1>10. FilesInv'
  BY <1>1, <1>2, <1>4, <1>7 DEF IInv, FilesInv, Working
<1>11. CooldownInv'
  <2>1. CarriedByDir(job) /\ ~Cooling(dir[s])
    BY <1>1 DEF CarriedByDir, Probe
  <2>2. CarriedByBundle(job)' => CarriedByBundle(job) /\ dir' = dir
    BY <1>1, <1>5, <1>7 DEF CarriedByBundle
  <2>3. TypeOK /\ CooldownInv
    BY DEF IInv
  <2> QED
    BY <1>2, <1>3, <1>7, <2>1, <2>2, <2>3, AnswerKeepsCooldowns
<1>12. GuideInv'
  BY <1>7 DEF GuideInv
<1>13. ReportInv'
  <2>1. /\ finished = Window /\ job.read \in {"current", Absent}
        /\ job.report \in {"current", Absent} /\ job.usable \subseteq health.current
        /\ job.left \subseteq health.current
    BY <1>1 DEF IInv, ReportInv, Working, AfterPlan
  <2> QED
    BY <1>1, <1>2, <1>5, <1>7, <2>1 DEF IInv, ReportInv, Working
<1> QED
  BY <1>8, <1>9, <1>10, <1>11, <1>12, <1>13 DEF IInv

LEMMA ProbeInCooldownStep ==
  ASSUME IInv, NEW s \in Servers, ProbeInCooldown(s)
  PROVE  IInv'
<1>1. job \in Jobs /\ job # NoJob /\ job.step = "probing"
  BY AtJob DEF IInv, ProbeInCooldown
<1>2. job' = [job EXCEPT !.left = job.left \ {s}] /\ job' \in Jobs
  <2>1. job.left \ {s} \in SUBSET Servers
    BY <1>1 DEF Jobs
  <2> QED
    BY <1>1, <2>1, JobLeft DEF ProbeInCooldown
<1>3. /\ job' # NoJob
      /\ job'.left = job.left \ {s} /\ job'.kind = job.kind /\ job'.step = job.step
      /\ job'.outcome = job.outcome /\ job'.asked = job.asked /\ job'.missed = job.missed
      /\ job'.changed = job.changed /\ job'.read = job.read /\ job'.report = job.report
      /\ job'.usable = job.usable
  BY <1>1, <1>2, JobsAreRuns DEF Jobs
<1>4. job.kind = "recovery"
  BY <1>1 DEF IInv, StepInv, RefreshSteps, Working, Jobs, Kinds
<1>5. UNCHANGED <<settled, faults, health, waiting, finished, bundle, dir, told, kept>>
  BY DEF ProbeInCooldown
<1>6. TypeOK'
  BY <1>2, <1>5 DEF IInv, TypeOK
<1>7. StepInv'
  BY <1>1, <1>3, <1>4 DEF IInv, StepInv, AfterPlan, Working
<1>8. FilesInv'
  BY <1>1, <1>3, <1>5 DEF IInv, FilesInv, Working
<1>9. CooldownInv'
  BY <1>1, <1>3, <1>4, <1>5, CooldownStays DEF IInv, CarriedByBundle, CarriedByDir, Working
<1>10. GuideInv'
  BY <1>3, <1>4 DEF GuideInv, Working
<1>11. ReportInv'
  BY <1>1, <1>3, <1>4, <1>5 DEF IInv, ReportInv, Working, AfterPlan
<1> QED
  BY <1>6, <1>7, <1>8, <1>9, <1>10, <1>11 DEF IInv

LEMMA EndProbeStep ==
  ASSUME IInv, EndProbe
  PROVE  IInv'
<1>1. /\ job \in Jobs /\ job # NoJob /\ job.step = "probing" /\ job.kind = "recovery"
  BY AtJob DEF IInv, EndProbe, StepInv, RefreshSteps, Working, Jobs, Kinds
<1> DEFINE step == IF job.changed THEN "sealing" ELSE "requesting"
<1>2. job' = [job EXCEPT !.since = 0, !.step = step]
  BY DEF EndProbe
<1>3. /\ step \in StepNames /\ step \in {"sealing", "requesting"}
      /\ step = "requesting" => ~job.changed
  BY DEF StepNames
<1> HIDE DEF step
<1>4. UNCHANGED <<settled, faults, health, waiting, finished, bundle, dir, told, kept>>
  BY DEF EndProbe
<1>5. job' \in Jobs /\ job' # NoJob
  BY <1>1, <1>2, <1>3, JobRestarts, JobsAreRuns, AgeTypes
<1>6. /\ job'.step = step /\ job'.kind = job.kind /\ job'.outcome = job.outcome
      /\ job'.read = job.read /\ job'.report = job.report /\ job'.usable = job.usable
  BY <1>1, <1>2 DEF Jobs
<1>7. TypeOK'
  BY <1>4, <1>5 DEF IInv, TypeOK
<1>8. StepInv'
  BY <1>1, <1>3, <1>6 DEF IInv, StepInv, Working, AfterPlan
<1>9. FilesInv'
  BY <1>1, <1>4, <1>6 DEF IInv, FilesInv, Working
<1>10. CooldownInv'
  BY <1>1, <1>3, <1>4, <1>5, <1>6, CooldownStays
     DEF IInv, CarriedByBundle, CarriedByDir, Working
<1>11. GuideInv'
  BY <1>1, <1>6 DEF GuideInv
<1>12. ReportInv'
  BY <1>1, <1>3, <1>4, <1>6 DEF IInv, ReportInv, Working, AfterPlan
<1> QED
  BY <1>7, <1>8, <1>9, <1>10, <1>11, <1>12 DEF IInv

LEMMA DispatchStep ==
  ASSUME IInv, Dispatch
  PROVE  IInv'
<1>1. /\ job \in Jobs /\ job # NoJob /\ job.step = "requesting" /\ job.kind = "recovery"
  BY AtJob DEF IInv, Dispatch, StepInv, RefreshSteps, Working, Jobs, Kinds
<1>2. /\ UNCHANGED <<settled, faults, health, bundle, told, kept>> /\ End
      /\ job' = NoJob /\ finished' = finished
  BY <1>1 DEF Dispatch, End
<1>3. waiting' \in BOOLEAN
  BY DEF Dispatch
<1>4. StepInv' /\ FilesInv' /\ CooldownInv' /\ GuideInv' /\ dir' \in [Servers -> Files]
  BY <1>1, <1>2, EndKeepsInv DEF IInv, TypeOK, CarriedByBundle
<1>5. TypeOK'
  BY <1>2, <1>3, <1>4 DEF IInv, TypeOK
<1>6. ReportInv'
  BY <1>2 DEF IInv, ReportInv, Working
<1> QED
  BY <1>4, <1>5, <1>6 DEF IInv

-----------------------------------------------------------------------------
(***************************************************************************)
(* So do the start of a run, the passage of time and the world outside.    *)
(***************************************************************************)
\* The lock is free, and nothing happens to the bundle but what makes it older or
\* loses it.
LEMMA StartRefreshStep ==
  ASSUME IInv, StartRefresh
  PROVE  IInv'
<1>1. /\ job = NoJob /\ waiting' = FALSE /\ job' = NewJob("refresh", "reviewing")
      /\ UNCHANGED <<settled, faults, health, finished, bundle, told, kept>>
  BY DEF StartRefresh
<1>2. dir' = bundle /\ bundle \in [Servers -> Files] /\ bundle' = bundle
  BY <1>1, RestoredIsBundle DEF IInv, TypeOK, FilesInv, StartRefresh
<1>3. job' \in Jobs /\ job' # NoJob
  BY <1>1, NewJobs, JobsAreRuns DEF Kinds, StepNames
<1>4. /\ job'.kind = "refresh" /\ job'.step = "reviewing" /\ job'.left = Servers
      /\ \A s \in Servers : job'.outcome[s] = "none"
  BY <1>1 DEF NewJob
<1>5. TypeOK'
  BY <1>1, <1>2, <1>3 DEF IInv, TypeOK
<1>6. StepInv'
  BY <1>4 DEF StepInv, RefreshSteps
<1>7. FilesInv'
  BY <1>1, <1>2 DEF IInv, FilesInv
<1>8. CooldownInv'
  <2>1. Honest(bundle, told) /\ (faults > 0 => NothingOwed(told))
    BY <1>1 DEF IInv, CooldownInv, CarriedByBundle
  <2>2. Honest(bundle, told)' /\ Honest(dir, told)' /\ (faults' > 0 => NothingOwed(told)')
    BY <1>1, <1>2, <2>1 DEF Honest, NothingOwed
  <2> QED
    BY <1>4, <2>2 DEF CooldownInv
<1>9. GuideInv'
  BY <1>1, <1>2, <1>4 DEF IInv, FilesInv, GuideInv
<1>10. ReportInv'
  BY <1>1, <1>4 DEF IInv, ReportInv
<1> QED
  BY <1>5, <1>6, <1>7, <1>8, <1>9, <1>10 DEF IInv

LEMMA StartRecoveryStep ==
  ASSUME IInv, StartRecovery
  PROVE  IInv'
<1>1. /\ job = NoJob /\ job' = NewJob("recovery", "planning")
      /\ UNCHANGED <<settled, faults, health, waiting, finished, bundle, dir, told, kept>>
  BY DEF StartRecovery
<1>2. job' \in Jobs /\ job' # NoJob
  BY <1>1, NewJobs, JobsAreRuns DEF Kinds, StepNames
<1>3. /\ job'.kind = "recovery" /\ job'.step = "planning" /\ job'.usable = {}
      /\ job'.report = Absent /\ \A s \in Servers : job'.outcome[s] = "none"
  BY <1>1 DEF NewJob
<1>4. TypeOK'
  BY <1>1, <1>2 DEF IInv, TypeOK
<1>5. StepInv'
  BY <1>3 DEF StepInv
<1>6. FilesInv'
  BY <1>1, <1>3 DEF IInv, FilesInv, Working
<1>7. CooldownInv'
  BY <1>1, <1>3, CooldownStays DEF IInv, CarriedByBundle, CarriedByDir, Working
<1>8. GuideInv'
  BY <1>3 DEF GuideInv
<1>9. ReportInv'
  BY <1>1, <1>3 DEF IInv, ReportInv, AfterPlan
<1> QED
  BY <1>4, <1>5, <1>6, <1>7, <1>8, <1>9 DEF IInv

LEMMA RotateStep ==
  ASSUME IInv, NEW s \in Servers, Rotate(s)
  PROVE  IInv'
<1>1. /\ job = NoJob /\ job' = NoJob
      /\ bundle' = [bundle EXCEPT ![s] = Estranged(@)] /\ kept' = [kept EXCEPT ![s] = Absent]
      /\ UNCHANGED <<settled, health, waiting, finished, job, dir>>
  BY DEF Rotate
<1>2. /\ NothingOwed(told)' /\ told' \in [Servers -> Nat]
      /\ faults' \in 0 .. MaxFaults /\ faults' > 0
  BY FaultForgives DEF IInv, Rotate
<1>3. /\ bundle' \in [Servers -> Files] /\ bundle'[s].torn = bundle[s].torn
      /\ \A t \in Servers : t # s => bundle'[t] = bundle[t]
  <2> DEFINE f == Estranged(bundle[s])
  <2>1. f \in Files /\ f.torn = bundle[s].torn
    BY FileUpdates DEF IInv, TypeOK
  <2>2. bundle \in [Servers -> Files] /\ bundle' = [bundle EXCEPT ![s] = f]
    BY <1>1 DEF IInv, TypeOK
  <2> HIDE DEF f
  <2> QED
    BY <2>1, <2>2
<1>4. /\ kept' \in [Servers -> Ages \cup {Absent}]
      /\ kept'[s] = Absent /\ \A t \in Servers : t # s => kept'[t] = kept[t]
  BY <1>1 DEF IInv, TypeOK
<1>5. TypeOK'
  BY <1>1, <1>2, <1>3, <1>4 DEF IInv, TypeOK
<1>6. StepInv' /\ GuideInv' /\ ReportInv'
  BY <1>1 DEF IInv, StepInv, GuideInv, ReportInv, Working
<1>7. FilesInv'
  BY <1>2, <1>3, <1>4 DEF IInv, FilesInv
<1>8. CooldownInv'
  BY <1>1, <1>2, NothingOwedIsHonest DEF Working
<1> QED
  BY <1>5, <1>6, <1>7, <1>8 DEF IInv

LEMMA EvictStep ==
  ASSUME IInv, Evict
  PROVE  IInv'
<1>1. /\ job = NoJob /\ job' = NoJob /\ bundle' = Empty /\ kept' = NothingKept
      /\ UNCHANGED <<settled, health, waiting, finished, job, dir>>
  BY DEF Evict
<1>2. /\ NothingOwed(told)' /\ told' \in [Servers -> Nat]
      /\ faults' \in 0 .. MaxFaults /\ faults' > 0
  BY FaultForgives DEF IInv, Evict
<1>3. TypeOK'
  BY <1>1, <1>2, EmptyFiles DEF IInv, TypeOK, NothingKept
<1>4. StepInv' /\ GuideInv' /\ ReportInv'
  BY <1>1 DEF IInv, StepInv, GuideInv, ReportInv, Working
<1>5. FilesInv'
  BY <1>1, <1>2, EmptyFiles DEF FilesInv, NothingKept
<1>6. CooldownInv'
  BY <1>1, <1>2, NothingOwedIsHonest DEF Working
<1> QED
  BY <1>3, <1>4, <1>5, <1>6 DEF IInv

\* Neither a request nor an answer for good is of the run, its files or the report.
LEMMA QuietStep ==
  ASSUME IInv, Request \/ Settle \/ UNCHANGED vars
  PROVE  IInv'
<1>1. /\ UNCHANGED <<faults, health, finished, bundle, job, dir, told, kept>>
      /\ waiting' \in BOOLEAN /\ settled' \in BOOLEAN
  BY DEF Request, Settle, vars, IInv, TypeOK
<1>2. TypeOK'
  BY <1>1 DEF IInv, TypeOK
<1>3. StepInv' /\ GuideInv' /\ ReportInv' /\ FilesInv'
  BY <1>1 DEF IInv, StepInv, GuideInv, ReportInv, FilesInv, Working
<1>4. CooldownInv'
  BY <1>1, CooldownStays DEF IInv, CarriedByBundle, CarriedByDir, Working
<1> QED
  BY <1>2, <1>3, <1>4 DEF IInv

\* What is owed and the cooldown that pays it grow shorter together.
LEMMA AgedIsHonest ==
  ASSUME NEW files \in [Servers -> Files], NEW owed \in [Servers -> Nat],
         Honest(files, owed)
  PROVE  Honest(Aged(files), [s \in Servers |-> Shorter(owed[s])])
<1> SUFFICES ASSUME NEW s \in Servers, Shorter(owed[s]) > 0
             PROVE  /\ Aged(files)[s].cooldown # Absent
                    /\ Aged(files)[s].cooldown >= Shorter(owed[s])
  BY DEF Honest
<1>1. owed[s] \in Nat /\ files[s].cooldown \in Nat \cup {Absent}
  BY DEF Files
<1>2. owed[s] > 0 /\ owed[s] # Absent /\ Shorter(owed[s]) = owed[s] - 1
  <2>1. owed[s] # 0
    BY <1>1, ShorterDelay
  <2> QED
    BY <1>1, <2>1, ShorterDelay, AgeTypes
<1>3. files[s].cooldown \in Nat /\ files[s].cooldown >= owed[s] /\ files[s].cooldown # Absent
  BY <1>1, <1>2 DEF Honest
<1>4. Aged(files)[s].cooldown = files[s].cooldown - 1
  <2>1. Aged(files)[s].cooldown = Shorter(files[s].cooldown)
    BY AgedFiles
  <2> QED
    BY <1>1, <1>2, <1>3, <2>1, ShorterDelay
<1> QED
  BY <1>1, <1>2, <1>3, <1>4, AgeTypes

LEMMA TickStep ==
  ASSUME IInv, Tick
  PROVE  IInv'
<1>1. /\ bundle \in [Servers -> Files] /\ dir \in [Servers -> Files]
      /\ told \in [Servers -> Nat] /\ kept \in [Servers -> Ages \cup {Absent}]
      /\ health \in [current : SUBSET Servers, previous : SUBSET Servers, age : 0 .. Lag]
      /\ finished \in 0 .. Window /\ job \in Jobs \cup {NoJob}
  BY DEF IInv, TypeOK
<1>2. /\ bundle' = Aged(bundle) /\ dir' = Aged(dir)
      /\ told' = [s \in Servers |-> Shorter(told[s])]
      /\ kept' = [s \in Servers |-> Older(kept[s], Latest)]
      /\ finished' = Older(finished, Window)
      /\ UNCHANGED <<settled, faults, waiting>>
  BY DEF Tick
<1>3. /\ bundle' \in [Servers -> Files] /\ dir' \in [Servers -> Files]
      /\ \A s \in Servers :
           /\ bundle'[s].torn = bundle[s].torn /\ dir'[s].torn = dir[s].torn
           /\ bundle'[s].guide = Older(bundle[s].guide, Latest)
  BY <1>1, <1>2, AgedFiles
<1>4. /\ told' \in [Servers -> Nat] /\ kept' \in [Servers -> Ages \cup {Absent}]
      /\ \A s \in Servers : kept'[s] = Older(kept[s], Latest)
  <2>1. \A s \in Servers : Shorter(told[s]) \in Nat
    BY <1>1, ShorterDelay
  <2>2. \A s \in Servers : Older(kept[s], Latest) \in Ages \cup {Absent}
    BY <1>1, OlderIsAge
  <2> QED
    BY <1>2, <2>1, <2>2
<1>5. /\ finished' \in 0 .. Window /\ finished' <= finished + 1
      /\ finished = Window => finished' = Window
  <2>1. Window \in Nat /\ Absent \notin Nat
    BY AgeTypes
  <2> QED
    BY <1>1, <1>2, <2>1 DEF Older
<1>6. /\ health' \in [current : SUBSET Servers, previous : SUBSET Servers, age : 0 .. Lag]
      /\ health'.current = health.current
      /\ health'.age = Lag \/ health'.age = health.age + 1
      /\ health'.age < Lag => health'.age = health.age + 1
  <2>1. Lag \in Nat
    BY AgeTypes
  <2>2. CASE health.age + 1 < Lag
    <3>1. health' = [health EXCEPT !.age = @ + 1]
      BY <2>2 DEF Tick
    <3> QED
      BY <1>1, <2>1, <2>2, <3>1
  <2>3. CASE ~(health.age + 1 < Lag)
    <3>1. health' = [health EXCEPT !.age = Lag, !.previous = health.current]
      BY <2>3 DEF Tick
    <3>2. Lag \in 0 .. Lag /\ health.current \in SUBSET Servers
      BY <1>1, <2>1
    <3>3. health'.age = Lag /\ health'.current = health.current
      BY <1>1, <3>1
    <3>4. health' \in [current : SUBSET Servers, previous : SUBSET Servers, age : 0 .. Lag]
      BY <1>1, <3>1, <3>2
    <3> QED
      BY <2>1, <3>3, <3>4
  <2> QED
    BY <2>2, <2>3
<1>7. \/ job = NoJob /\ job' = NoJob
      \/ /\ job \in Jobs /\ job # NoJob /\ job' \in Jobs /\ job' # NoJob
         /\ job.kind = "recovery" /\ job'.kind = "recovery"
         /\ job'.step = job.step /\ job'.asked = job.asked /\ job'.left = job.left
         /\ job'.outcome = job.outcome /\ job'.changed = job.changed
         /\ job'.read = job.read /\ job'.report = job.report /\ job'.usable = job.usable
  <2>1. CASE job = NoJob
    BY <2>1 DEF Tick
  <2>2. CASE job # NoJob
    <3> DEFINE since == job.since + 1
    <3>1. /\ job \in Jobs /\ job.kind = "recovery" /\ job.since < MaxRun
          /\ job' = [job EXCEPT !.since = since]
      BY <1>1, <2>2 DEF Tick
    <3>2. since \in 0 .. MaxRun
      <4>1. job.since \in 0 .. MaxRun /\ MaxRun \in Nat
        BY <3>1, AgeTypes DEF Jobs
      <4> QED
        BY <3>1, <4>1
    <3> HIDE DEF since
    <3>3. job' \in Jobs /\ job' # NoJob
      BY <3>1, <3>2, JobLasts, JobsAreRuns
    <3> QED
      BY <2>2, <3>1, <3>3 DEF Jobs
  <2> QED
    BY <2>1, <2>2
<1>8. TypeOK'
  BY <1>2, <1>3, <1>4, <1>5, <1>6, <1>7 DEF IInv, TypeOK
<1>9. StepInv'
  BY <1>7 DEF IInv, StepInv, Working
<1>10. FilesInv'
  <2>1. \A s \in Servers : kept'[s] \in {Absent, bundle'[s].guide}
    BY <1>3, <1>4 DEF IInv, FilesInv, Older
  <2> QED
    BY <1>2, <1>3, <1>7, <2>1 DEF IInv, FilesInv, Working
<1>11. CooldownInv'
  <2>1. Honest(bundle, told) => Honest(bundle, told)'
    BY <1>1, <1>2, AgedIsHonest
  <2>2. Honest(dir, told) => Honest(dir, told)'
    BY <1>1, <1>2, AgedIsHonest
  <2>3. \A s \in Servers : told[s] = 0 => told'[s] = 0
    BY <1>1, <1>2, ShorterDelay
  <2>4. CarriedByBundle(job)' => CarriedByBundle(job)
    BY <1>7 DEF CarriedByBundle
  <2>5. CarriedByDir(job)' => CarriedByDir(job)
    BY <1>7 DEF CarriedByDir
  <2>6. Working' /\ job'.step = "saving" => told'[job'.asked] = 0
    BY <1>7, <2>3 DEF IInv, CooldownInv, StepInv, Working
  <2>7. faults' > 0 => NothingOwed(told)'
    BY <1>2, <2>3 DEF IInv, CooldownInv, NothingOwed
  <2> QED
    BY <2>1, <2>2, <2>4, <2>5, <2>6, <2>7 DEF IInv, CooldownInv
<1>12. GuideInv'
  BY <1>7 DEF GuideInv, Working
<1>13. ReportInv'
  <2>1. health'.age < Lag => finished' <= health'.age
    <3>1. health.age \in Nat /\ Lag \in Nat /\ finished \in Nat /\ finished' \in Nat
      BY <1>1, <1>5, AgeTypes
    <3>2. health.age < Lag => finished <= health.age
      BY DEF IInv, ReportInv
    <3> QED
      BY <1>5, <1>6, <3>1, <3>2
  <2> QED
    BY <1>5, <1>6, <1>7, <2>1 DEF IInv, ReportInv, Working
<1> QED
  BY <1>8, <1>9, <1>10, <1>11, <1>12, <1>13 DEF IInv

-----------------------------------------------------------------------------
(***************************************************************************)
(* The theorems.                                                           *)
(***************************************************************************)
LEMMA InitSound ==
  ASSUME Init
  PROVE  IInv
<1>1. /\ Empty \in [Servers -> Files]
      /\ \A s \in Servers : Empty[s].guide = Absent /\ ~Empty[s].torn
  BY EmptyFiles
<1>2. health \in [current : SUBSET Servers, previous : SUBSET Servers, age : 0 .. Lag]
  BY AgeTypes DEF Init
<1>3. TypeOK
  <2>1. 0 \in 0 .. MaxFaults /\ Window \in 0 .. Window
    BY AgeTypes
  <2> QED
    BY <1>1, <1>2, <2>1 DEF Init, TypeOK
<1>4. StepInv /\ FilesInv /\ GuideInv
  BY <1>1 DEF Init, StepInv, FilesInv, GuideInv, Working
<1>5. CooldownInv
  BY DEF Init, CooldownInv, CarriedByBundle, CarriedByDir, Honest, NothingOwed, Working
<1>6. ReportInv
  <2>1. ~(health.age < Lag)
    BY AgeTypes DEF Init
  <2> QED
    BY <2>1 DEF Init, ReportInv, Working
<1> QED
  BY <1>3, <1>4, <1>5, <1>6 DEF IInv

LEMMA NextKeepsInv ==
  ASSUME IInv, [Next]_vars
  PROVE  IInv'
<1>1. CASE StartRefresh \/ StartRecovery
  BY <1>1, StartRefreshStep, StartRecoveryStep
<1>2. CASE EndReview \/ SaveBytes \/ SaveMetadata \/ EndBuild \/ Seal \/ Publish
  BY <1>2, EndReviewStep, SaveBytesStep, SaveMetadataStep, EndBuildStep, SealStep, PublishStep
<1>3. CASE ReadHealth \/ Plan \/ SelectTargets \/ EndProbe \/ Dispatch
  BY <1>3, ReadHealthStep, PlanStep, SelectTargetsStep, EndProbeStep, DispatchStep
<1>4. CASE \E s \in Servers : Asks(s) \/ Skip(s) \/ BuildInCooldown(s) \/ ProbeInCooldown(s)
  BY <1>4, ReviewStep, BuildStep, ProbeStep, SkipStep, BuildInCooldownStep, ProbeInCooldownStep
     DEF Asks
<1>5. CASE Request \/ Settle \/ UNCHANGED vars
  BY <1>5, QuietStep
<1>6. CASE Tick \/ Evict \/ RestoreFails \/ SaveFails \/ StepFails \/ RunFails \/ SealFails
  BY <1>6, TickStep, EvictStep, RestoreFailsStep, SaveFailsStep, StepFailsStep, RunFailsStep,
     SealFailsStep
<1>7. CASE \E s \in Servers : Rotate(s)
  BY <1>7, RotateStep
<1> QED
  BY <1>1, <1>2, <1>3, <1>4, <1>5, <1>6, <1>7 DEF Next, Steps

THEOREM RunsAreSound == Spec => []IInv
<1>1. Init => IInv
  BY InitSound
<1>2. IInv /\ [Next]_vars => IInv'
  BY NextKeepsInv
<1> QED
  BY <1>1, <1>2, PTL DEF Spec

\* The run's invariant: a build settles for placeholders only when no guide of the
\* account, sealed by some run and not lost since, is young enough to serve.
THEOREM SavedGuidesAreUsed == Spec => []NativeInv
<1>1. IInv => NativeInv
  <2> SUFFICES ASSUME IInv, job # NoJob, NEW s \in Servers,
                      job.outcome[s] = "placeholder", ~job.missed
               PROVE  kept[s] = Absent \/ kept[s] > MaxAge
    BY DEF IInv, NativeInv
  <2>1. job.kind = "refresh"
    BY DEF IInv, StepInv, TypeOK, Jobs, Kinds, Working
  <2> QED
    BY <2>1 DEF IInv, GuideInv, Working, Unusable
<1> QED
  BY <1>1, RunsAreSound, PTL

\* A provider is not asked again before the time it gave, whichever runs asked it
\* meanwhile and however they ended.
LEMMA AskingIsDue ==
  ASSUME IInv, NEW s \in Servers, told[s] > 0
  PROVE  ~Asks(s)
<1> SUFFICES ASSUME Asks(s)
             PROVE  FALSE
  OBVIOUS
<1>1. /\ job # NoJob /\ job.step \in {"reviewing", "building", "probing"} /\ ~Cooling(dir[s])
  BY DEF Asks, Review, Build, Probe, At
<1>2. Honest(dir, told)
  BY <1>1 DEF IInv, CooldownInv, CarriedByDir
<1>3. dir[s].cooldown # Absent /\ dir[s].cooldown >= told[s]
  BY <1>2 DEF Honest
<1>4. dir[s].cooldown \in Nat \cup {Absent} /\ told[s] \in Nat
  BY DEF IInv, TypeOK, Files
<1> QED
  BY <1>1, <1>3, <1>4 DEF Cooling

\* And a refresh is requested by a recovery only for a server that the newest report
\* lists as unavailable and that answered.
LEMMA RequestIsDue ==
  ASSUME IInv, Next, job # NoJob, waiting' # waiting, job' = NoJob
  PROVE  job.usable \cap health.current # {}
<1>1. CASE Dispatch
  <2>1. /\ job.usable # {} /\ job.step = "requesting"
    BY <1>1 DEF Dispatch, DispatchAllowed, At, IInv, TypeOK
  <2>2. job.kind = "recovery"
    BY <2>1 DEF IInv, StepInv, RefreshSteps, Working, TypeOK, Jobs, Kinds
  <2>3. job.usable \subseteq health.current
    BY <2>1, <2>2 DEF IInv, ReportInv, Working, AfterPlan
  <2> QED
    BY <2>1, <2>3
<1>2. ~(StartRefresh \/ StartRecovery \/ Request)
  BY DEF StartRefresh, StartRecovery, Request
<1>3. ~(EndReview \/ SaveBytes \/ SaveMetadata \/ EndBuild \/ Seal \/ Publish)
  BY DEF EndReview, SaveBytes, SaveMetadata, EndBuild, Seal, Publish
<1>4. ~(ReadHealth \/ Plan \/ SelectTargets \/ EndProbe)
  BY DEF ReadHealth, Plan, SelectTargets, EndProbe
<1>5. ~(\E s \in Servers : Asks(s) \/ Skip(s) \/ BuildInCooldown(s) \/ ProbeInCooldown(s))
  BY DEF Asks, Review, Build, Probe, Skip, BuildInCooldown, ProbeInCooldown
<1>6. ~(Settle \/ Tick \/ Evict)
  BY DEF Settle, Tick, Evict
<1>7. ~(RestoreFails \/ SaveFails \/ StepFails \/ RunFails \/ SealFails)
  BY DEF RestoreFails, SaveFails, StepFails, RunFails, SealFails
<1>8. ~(\E s \in Servers : Rotate(s))
  BY DEF Rotate
<1> QED
  BY <1>1, <1>2, <1>3, <1>4, <1>5, <1>6, <1>7, <1>8 DEF Next, Steps

THEOREM NobodyIsAskedEarly == Spec => ProvidersSpared
<1>1. IInv /\ [Next]_vars => [\A s \in Servers : told[s] > 0 => ~Asks(s)]_vars
  BY AskingIsDue
<1>2. IInv /\ [Next]_vars =>
        [(job # NoJob /\ waiting' # waiting /\ job' = NoJob) =>
            job.usable \cap health.current # {}]_vars
  BY RequestIsDue
<1> QED
  BY <1>1, <1>2, RunsAreSound, PTL DEF Spec, ProvidersSpared, CooldownHonoured, DispatchIsNeeded
=============================================================================
