---------------------------- MODULE Publication ----------------------------
(***************************************************************************)
(* Independent publication of the live guide and the VOD catalogue.        *)
(*                                                                         *)
(* A run of main.yml (live) or vod.yml (vod) builds its component, uploads *)
(* a snapshot artifact, and calls publish-component.yml, which under one   *)
(* publication lock restores the run's component and its counterpart       *)
(* (scripts/component_artifacts.py), composes both into one tree           *)
(* (scripts/publication_snapshots.py) and deploys it to GitHub Pages.      *)
(*                                                                         *)
(* The clock counts artifact uploads of the whole repository, so an        *)
(* artifact is named by its upload time.  Two uploads of one component are *)
(* a build job apart and never share a second.                             *)
(***************************************************************************)
EXTENDS Integers, FiniteSets

CONSTANTS
    Runs,         \* workflow runs of main.yml and vod.yml
    RunComp,      \* the component each run builds
    MaxAttempts,  \* bound: attempts of one run (first attempt and re-runs)
    MaxUploads,   \* bound: artifact uploads of the whole repository
    Window,       \* artifacts the repository listing reaches (5 pages of 100)
    WindowCovers  \* assume every unexpired artifact is inside the listing

Comp == {"live", "vod"}
Other(c) == IF c = "live" THEN "vod" ELSE "live"

ASSUME PublicationAssumption ==
    /\ RunComp \in [Runs -> Comp]
    /\ MaxAttempts \in Nat
    /\ MaxUploads \in Nat
    /\ Window \in Nat
    /\ WindowCovers \in BOOLEAN

VARIABLES
    clock,     \* uploads so far; the time of the latest one
    horizon,   \* artifacts uploaded at or before it have expired
    valid,     \* valid[c]: uploads of c whose build job concluded success
    phase,     \* phase[r]: where run r stands
    attempt,   \* attempt[r]: attempts of run r started so far
    own,       \* own[r]: upload of r's build handed to its publisher, 0 if none
    got,       \* the lock holder's restored snapshots, 0 before a restore
    pages,     \* the lock holder's composed tree
    site,      \* the deployed site
    served,    \* the deployed site as the public CDN still serves it
    atLock     \* history: valid when the publication lock was last taken

runVars == <<phase, attempt, own>>
lockVars == <<got, pages, atLock>>
vars == <<clock, horizon, valid, runVars, lockVars, site, served>>

(***************************************************************************)
(* Phases.  A run holds its workflow's concurrency group while Active, and *)
(* the publication lock while Holding.                                     *)
(***************************************************************************)
Holding == {"holding", "current", "restored", "composed", "deployed"}
Active == {"building", "uploaded", "built", "pending"} \cup Holding
Ended == {"done", "failed", "cancelled"}
Queued == {"queued", "requeued"}
Phase == {"idle"} \cup Queued \cup Active \cup Ended

Site == [comp : [Comp -> Nat], refs : Nat, split : BOOLEAN]
Empty == [c \in Comp |-> 0]
LegacySite == [comp |-> Empty, refs |-> 0, split |-> FALSE]

TypeOK ==
    /\ clock \in Nat
    /\ horizon \in Nat
    /\ valid \in [Comp -> SUBSET Nat]
    /\ phase \in [Runs -> Phase]
    /\ attempt \in [Runs -> Nat]
    /\ own \in [Runs -> Nat]
    /\ got \in [Comp -> Nat]
    /\ pages \in Site
    /\ site \in Site
    /\ served \in Site
    /\ atLock \in [Comp -> SUBSET Nat]

Init ==
    /\ clock = 0
    /\ horizon = 0
    /\ valid = [c \in Comp |-> {}]
    /\ phase = [r \in Runs |-> "idle"]
    /\ attempt = [r \in Runs |-> 0]
    /\ own = [r \in Runs |-> 0]
    /\ got = Empty
    /\ pages = LegacySite
    /\ site = LegacySite
    /\ served = LegacySite
    /\ atLock = [c \in Comp |-> {}]

-----------------------------------------------------------------------------
(***************************************************************************)
(* Artifact discovery                                                      *)
(***************************************************************************)

\* _artifact_identity rejects expired artifacts; the scan stops after
\* MAX_ARTIFACT_PAGES pages without saying so.
Listed(v) == v > horizon /\ v > clock - Window

\* Mutants of Validated and Newer.
AnyListed(c) == {v \in 1 .. clock : Listed(v)}
NothingNewer(c, anchor) == {}

Validated(c) == {v \in valid[c] : Listed(v)}

\* Candidates that provably supersede the comparison anchor.
Newer(c, anchor) == {v \in Validated(c) : v > anchor}

IsNewest(v, S) == v \in S /\ \A w \in S : w <= v

\* The environment assumption: a retention period's uploads fit the listing.
Covered(now, expired) == WindowCovers => now - expired <= Window

-----------------------------------------------------------------------------
(***************************************************************************)
(* The build job                                                           *)
(***************************************************************************)

\* Mutant of GroupFree: the group held by the build job only.
BuildGroupFree(c) ==
    \A r \in Runs : RunComp[r] = c => phase[r] \notin {"building", "uploaded"}

GroupFree(c) == \A r \in Runs : RunComp[r] = c => phase[r] \notin Active

\* A run waiting for its workflow's group: main.yml keeps every one (queue:
\* max), in vod.yml a new one cancels the one waiting before it.
Enqueue(r, as) ==
    /\ attempt[r] < MaxAttempts
    /\ attempt' = [attempt EXCEPT ![r] = @ + 1]
    /\ phase' = [s \in Runs |->
          IF s = r THEN as
          ELSE IF RunComp[r] = "vod" /\ RunComp[s] = "vod" /\ phase[s] \in Queued
          THEN "cancelled" ELSE phase[s]]
    /\ UNCHANGED <<clock, horizon, valid, lockVars, site, served>>

\* A schedule, a dispatch, or "re-run all jobs" of an ended run.
Trigger(r) ==
    /\ phase[r] \in {"idle"} \cup Ended
    /\ Enqueue(r, "queued")
    /\ own' = [own EXCEPT ![r] = 0]

\* Re-run of only the publish job: the build's exact artifact ID is kept.
RetryPublisher(r) ==
    /\ phase[r] \in Ended
    /\ own[r] # 0
    /\ Enqueue(r, "requeued")
    /\ UNCHANGED own

StartBuild(r) ==
    /\ phase[r] = "queued"
    /\ GroupFree(RunComp[r])
    /\ phase' = [phase EXCEPT ![r] = "building"]
    /\ UNCHANGED <<clock, horizon, valid, attempt, own, lockVars, site, served>>

\* "Retain validated component" uploads the sealed snapshot; its job is still
\* running, so the artifact does not count as validated yet.
Upload(r) ==
    /\ phase[r] = "building"
    /\ clock < MaxUploads
    /\ Covered(clock + 1, horizon)
    /\ clock' = clock + 1
    /\ phase' = [phase EXCEPT ![r] = "uploaded"]
    /\ own' = [own EXCEPT ![r] = clock + 1]
    /\ UNCHANGED <<horizon, valid, attempt, lockVars, site, served>>

BuildSucceeds(r) ==
    /\ phase[r] = "uploaded"
    /\ phase' = [phase EXCEPT ![r] = "built"]
    /\ valid' = [valid EXCEPT ![RunComp[r]] = @ \cup {own[r]}]
    /\ UNCHANGED <<clock, horizon, attempt, own, lockVars, site, served>>

\* A build that fails, times out or is cancelled hands over no artifact, even
\* when it had uploaded one.
BuildFails(r) ==
    /\ phase[r] \in {"building", "uploaded"}
    /\ phase' = [phase EXCEPT ![r] = "failed"]
    /\ own' = [own EXCEPT ![r] = 0]
    /\ UNCHANGED <<clock, horizon, valid, attempt, lockVars, site, served>>

-----------------------------------------------------------------------------
(***************************************************************************)
(* The publish job (publish-component.yml)                                 *)
(***************************************************************************)
LockFree == \A r \in Runs : phase[r] \notin Holding \cup {"pending"}

\* The lock group runs one job and keeps one waiting job; a second waiting job
\* cancels the first.
RequestLock(r) ==
    /\ \/ phase[r] = "built"
       \/ phase[r] = "requeued" /\ GroupFree(RunComp[r])
    /\ phase' = [s \in Runs |->
          IF s = r THEN IF LockFree THEN "holding" ELSE "pending"
          ELSE IF phase[s] = "pending" THEN "cancelled" ELSE phase[s]]
    /\ atLock' = IF LockFree THEN valid ELSE atLock
    /\ UNCHANGED <<clock, horizon, valid, attempt, own, got, pages, site, served>>

\* Mutant of EndPublisher: the waiting publisher is never started.
EndAlone(r, end) ==
    /\ phase' = [phase EXCEPT ![r] = end]
    /\ got' = Empty
    /\ pages' = LegacySite
    /\ UNCHANGED <<clock, horizon, valid, attempt, own, site, served, atLock>>

\* The job ends; the lock passes to the waiting publisher, if there is one, on
\* a fresh runner.
EndPublisher(r, end) ==
    /\ phase' = [s \in Runs |-> IF s = r THEN end
                                ELSE IF phase[s] = "pending" THEN "holding" ELSE phase[s]]
    /\ atLock' = IF \E s \in Runs : phase[s] = "pending" THEN valid ELSE atLock
    /\ got' = Empty
    /\ pages' = LegacySite
    /\ UNCHANGED <<clock, horizon, valid, attempt, own, site, served>>

Restore(r, c, v, next) ==
    /\ got' = [got EXCEPT ![c] = v]
    /\ phase' = [phase EXCEPT ![r] = next]
    /\ UNCHANGED <<clock, horizon, valid, attempt, own, pages, site, served, atLock>>

\* component_artifacts.py current: the run's own artifact must be a validated,
\* unexpired build; a newer validated build of the component replaces it.
Current(r) ==
    LET c == RunComp[r] IN
    /\ phase[r] = "holding"
    /\ own[r] \in valid[c] /\ own[r] > horizon
    /\ \/ \E v \in Newer(c, own[r]) : IsNewest(v, Newer(c, own[r])) /\ Restore(r, c, v, "current")
       \/ Newer(c, own[r]) = {} /\ Restore(r, c, own[r], "current")

\* Mutant of PreviousVersion: take the deployed counterpart in every case.
DeployedVersion(c) == {served.comp[c]}

\* component_artifacts.py previous: the latest validated artifact of the
\* counterpart, else the deployed one read through the CDN, else (no deployed
\* manifest) the last successful legacy Pages artifact, which is version 0.
PreviousVersion(c) ==
    IF Validated(c) # {} THEN {v \in Validated(c) : IsNewest(v, Validated(c))}
    ELSE IF served.split THEN {served.comp[c]} ELSE {0}

Previous(r) ==
    LET c == Other(RunComp[r]) IN
    /\ phase[r] = "current"
    /\ \E v \in PreviousVersion(c) : Restore(r, c, v, "restored")

\* Mutant of RefreshedReferences: the app index keeps the deployed references.
StaleReferences(live) == site.refs

\* _refresh_epg_references: the app index names the guide it is published with.
RefreshedReferences(live) == live

\* compose, and every check between it and the deployment that passes.
Compose(r) ==
    /\ phase[r] = "restored"
    /\ pages' = [comp |-> got, refs |-> RefreshedReferences(got["live"]), split |-> TRUE]
    /\ phase' = [phase EXCEPT ![r] = "composed"]
    /\ UNCHANGED <<clock, horizon, valid, attempt, own, got, site, served, atLock>>

Deploy(r) ==
    /\ phase[r] = "composed"
    /\ site' = pages
    /\ phase' = [phase EXCEPT ![r] = "deployed"]
    /\ UNCHANGED <<clock, horizon, valid, attempt, own, lockVars, served>>

PublisherDone(r) == phase[r] = "deployed" /\ EndPublisher(r, "done")

\* Any step of the publish job fails, or its runner is lost; the deployment
\* itself may have been applied already.
PublisherFails(r) == phase[r] \in Holding /\ EndPublisher(r, "failed")

-----------------------------------------------------------------------------
(***************************************************************************)
(* The environment                                                         *)
(***************************************************************************)

\* Another workflow (enrichment, verification, diagnostics) uploads.
OtherUpload ==
    /\ clock < MaxUploads
    /\ Covered(clock + 1, horizon)
    /\ clock' = clock + 1
    /\ UNCHANGED <<horizon, valid, runVars, lockVars, site, served>>

\* Retention (7 days) outlives the 30 minutes of a publisher and the CDN's
\* lag: what a publisher holds or has deployed expires after the CDN serves it.
Expire ==
    \E h \in horizon + 1 .. clock :
       /\ \A c \in Comp : \A v \in {got[c], site.comp[c]} :
             0 < v /\ v <= h => v = served.comp[c]
       /\ horizon' = h
       /\ UNCHANGED <<clock, valid, runVars, lockVars, site, served>>

\* The CDN catches up with the deployed site.
CdnRefresh ==
    /\ served # site
    /\ served' = site
    /\ UNCHANGED <<clock, horizon, valid, runVars, lockVars, site>>

Progress(r) ==
    \/ RequestLock(r)
    \/ Current(r)
    \/ Previous(r)
    \/ Compose(r)
    \/ Deploy(r)
    \/ PublisherDone(r)

Step(r) ==
    \/ Trigger(r)
    \/ RetryPublisher(r)
    \/ StartBuild(r)
    \/ Upload(r)
    \/ BuildSucceeds(r)
    \/ BuildFails(r)
    \/ Progress(r)
    \/ PublisherFails(r)

Next ==
    \/ \E r \in Runs : Step(r)
    \/ OtherUpload
    \/ Expire
    \/ CdnRefresh

Spec == Init /\ [][Next]_vars

\* A publish job that can take its next step takes it or is ended by a failure
\* (its time limit is 30 minutes).  Nothing is assumed of builds, re-runs,
\* uploads, expiry or the CDN.
Fairness == \A r \in Runs : WF_vars(Progress(r) \/ PublisherFails(r))

FairSpec == Spec /\ Fairness

-----------------------------------------------------------------------------
(***************************************************************************)
(* Properties                                                              *)
(***************************************************************************)

\* No deployment replaces a component by an older build, whatever publishers
\* are retried (Newer, the lock) and whatever expired ("an old publisher retry
\* cannot roll back a newer component").
NoRollback == [][\A c \in Comp : site'.comp[c] >= site.comp[c]]_site

\* Each deployed component is a build whose job succeeded, or the legacy one;
\* and the app index names the live guide it is deployed with.
SiteValidated ==
    /\ \A c \in Comp : site.comp[c] \in valid[c] \cup {0}
    /\ site.refs = site.comp["live"]

\* What a publisher deploys is at least as new, in both components, as every
\* build validated when it took the lock that has not expired since: restoring
\* happens after the lock is taken, and includes builds whose own publisher is
\* queued or failed.
FreshPair ==
    \A r \in Runs : phase[r] = "deployed" =>
       \A c \in Comp : \A v \in atLock[c] : v > horizon => site.comp[c] >= v

\* The same of a publisher's own component only, the sentence as documented: the
\* restored build of a retried publisher is never older than the deployed one.
RetryCannotRollBack ==
    [][\A r \in Runs : phase[r] = "composed" /\ phase'[r] = "deployed" =>
          site'.comp[RunComp[r]] >= site.comp[RunComp[r]]]_vars

\* The publication lock never cancels a waiting publisher: the workflows'
\* own groups leave at most one other publisher beside the holder.
NoPublisherCancelled ==
    [][\A r \in Runs : phase[r] = "pending" => phase'[r] # "cancelled"]_phase

\* A publisher that has a validated build reaches a deployed site at least as
\* new as that build, or ends in failure; it is not left waiting for the lock.
PublisherResolves ==
    \A r \in Runs : phase[r] = "built" ~>
       (phase[r] = "failed" \/ site.comp[RunComp[r]] >= own[r])

-----------------------------------------------------------------------------
(***************************************************************************)
(* The inductive invariant behind these properties                         *)
(***************************************************************************)

\* Who holds and who waits: one holder, one waiting publisher behind it, and
\* one run of each workflow.
LockInv ==
    /\ \A r, s \in Runs : phase[r] \in Holding /\ phase[s] \in Holding => r = s
    /\ \A r, s \in Runs :
          phase[r] \in Active /\ phase[s] \in Active /\ RunComp[r] = RunComp[s] => r = s
    /\ \A r \in Runs : phase[r] = "pending" => \E h \in Runs : phase[h] \in Holding

\* The artifact clock: validated builds were uploaded, and whatever has not
\* expired is inside the listing.
ClockInv ==
    /\ horizon <= clock
    /\ \A c \in Comp : \A v \in valid[c] : 0 < v /\ v <= clock
    /\ \A r \in Runs : own[r] <= clock /\ (phase[r] = "uploaded" => own[r] > 0)
    /\ Covered(clock, horizon)

\* The site and its CDN copy: a component that has expired is served as it is
\* deployed, so that reading it back through the CDN cannot be stale.
SiteInv ==
    /\ SiteValidated
    /\ \A c \in Comp : site.comp[c] > horizon \/ site.comp[c] = served.comp[c]
    /\ ~site.split => site.comp = Empty
    /\ ~served.split => served.comp = Empty

\* Which components the holder r has restored.
RestoredBy(r) ==
    IF phase[r] = "current" THEN {RunComp[r]}
    ELSE IF phase[r] \in {"restored", "composed", "deployed"} THEN Comp ELSE {}

\* A restored snapshot is validated, and at least as new as the deployed one
\* and as every unexpired build validated before the lock was taken.
RestoreInv ==
    \A r \in Runs :
       /\ phase[r] \in Holding => \A c \in Comp : atLock[c] \subseteq valid[c]
       /\ \A c \in RestoredBy(r) :
             /\ got[c] \in valid[c] \cup {0}
             /\ got[c] >= site.comp[c]
             /\ got[c] > horizon \/ got[c] = served.comp[c]
             /\ \A v \in atLock[c] : v > horizon => got[c] >= v
       /\ phase[r] = "composed" =>
             pages = [comp |-> got, refs |-> got["live"], split |-> TRUE]
       /\ phase[r] = "deployed" => site.comp = got

\* The conjunction that every step preserves when the listing covers.
IInv == TypeOK /\ LockInv /\ ClockInv /\ SiteInv /\ RestoreInv

\* The deployed site behaves as PublishedSite promises.
Promise == INSTANCE PublishedSite WITH
    validated <- valid,
    public <- [comp |-> site.comp, refs |-> site.refs]
ImplementsPublishedSite == Promise!Spec
=============================================================================
