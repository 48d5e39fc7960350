------------------------- MODULE PublicationProofs -------------------------
(***************************************************************************)
(* Machine-checked proofs about Publication, for any runs, any number of   *)
(* attempts and uploads and any listing window, under the assumption that  *)
(* the listing covers the unexpired artifacts.                             *)
(***************************************************************************)
EXTENDS Publication, TLAPS

\* The phases in which a run holds something, spelled out.
LEMMA PhaseFacts ==
    /\ Holding \subseteq Active
    /\ Active \subseteq Phase
    /\ "pending" \in Active
    /\ "pending" \notin Holding
    /\ Ended \cap Active = {}
    /\ Queued \cap Active = {}
    /\ Ended \subseteq Phase
    /\ Queued \subseteq Phase
    /\ "idle" \notin Active
BY DEF Holding, Active, Phase, Ended, Queued

\* Every unexpired validated build is a candidate of the artifact lookup.
LEMMA UnexpiredIsListed ==
    ASSUME WindowCovers, TypeOK, ClockInv,
           NEW c \in Comp, NEW v \in valid[c], v > horizon
    PROVE  v \in Validated(c)
BY PublicationAssumption
   DEF TypeOK, ClockInv, Covered, Validated, Listed

\* The other component is the only other one.
LEMMA OtherComp ==
    \A c \in Comp : Other(c) \in Comp /\ Other(c) # c /\ Comp = {c, Other(c)}
BY DEF Comp, Other

\* Every step keeps the types.
LEMMA TypeStep == TypeOK /\ [Next]_vars => TypeOK'
<1> SUFFICES ASSUME TypeOK, [Next]_vars PROVE TypeOK'
  OBVIOUS
<1> USE PublicationAssumption DEF TypeOK
<1>1. ASSUME NEW r \in Runs, Trigger(r) PROVE TypeOK'
  BY <1>1 DEF Trigger, Enqueue, lockVars, Phase, Queued, Ended, Active
<1>2. ASSUME NEW r \in Runs, RetryPublisher(r) PROVE TypeOK'
  BY <1>2 DEF RetryPublisher, Enqueue, lockVars, Phase, Queued, Ended, Active
<1>3. ASSUME NEW r \in Runs, StartBuild(r) PROVE TypeOK'
  BY <1>3 DEF StartBuild, lockVars, Phase, Active
<1>4. ASSUME NEW r \in Runs, Upload(r) PROVE TypeOK'
  BY <1>4 DEF Upload, lockVars, Phase, Active
<1>5. ASSUME NEW r \in Runs, BuildSucceeds(r) PROVE TypeOK'
  BY <1>5 DEF BuildSucceeds, lockVars, Phase, Active
<1>6. ASSUME NEW r \in Runs, BuildFails(r) PROVE TypeOK'
  BY <1>6 DEF BuildFails, lockVars, Phase, Ended
<1>7. ASSUME NEW r \in Runs, RequestLock(r) PROVE TypeOK'
  BY <1>7 DEF RequestLock, Phase, Active, Ended, Holding
<1>8. ASSUME NEW r \in Runs, Current(r) PROVE TypeOK'
  <2>1. PICK v \in valid[RunComp[r]] : Restore(r, RunComp[r], v, "current")
    BY <1>8 DEF Current, IsNewest, Newer, Validated
  <2> QED
    BY <2>1 DEF Restore, Phase, Active, Holding
<1>9. ASSUME NEW r \in Runs, Previous(r) PROVE TypeOK'
  <2>1. PICK v \in Nat : Restore(r, Other(RunComp[r]), v, "restored")
    <3>1. Other(RunComp[r]) \in Comp
      BY OtherComp
    <3>2. PreviousVersion(Other(RunComp[r])) \subseteq Nat
      BY <3>1 DEF PreviousVersion, Validated, Site
    <3> QED
      BY <1>9, <3>2 DEF Previous
  <2> QED
    BY <2>1, OtherComp DEF Restore, Phase, Active, Holding
<1>10. ASSUME NEW r \in Runs, Compose(r) PROVE TypeOK'
  BY <1>10 DEF Compose, RefreshedReferences, Site, Comp, Phase, Active, Holding
<1>11. ASSUME NEW r \in Runs, Deploy(r) PROVE TypeOK'
  BY <1>11 DEF Deploy, lockVars, Phase, Active, Holding
<1>12. ASSUME NEW r \in Runs, NEW end \in Ended, EndPublisher(r, end) PROVE TypeOK'
  BY <1>12 DEF EndPublisher, Empty, LegacySite, Site, Phase, Active, Holding
<1>13. ASSUME OtherUpload \/ Expire \/ CdnRefresh PROVE TypeOK'
  BY <1>13 DEF OtherUpload, Expire, CdnRefresh, runVars, lockVars
<1>14. CASE UNCHANGED vars
  BY <1>14 DEF vars, runVars, lockVars
<1> QED
  BY <1>1, <1>2, <1>3, <1>4, <1>5, <1>6, <1>7, <1>8, <1>9, <1>10, <1>11, <1>12, <1>13, <1>14
     DEF Next, Step, Progress, PublisherDone, PublisherFails, Ended

\* Every step keeps the lock's exclusivity, the workflows' groups, and a
\* holder in front of every waiting publisher.
LEMMA LockStep == TypeOK /\ LockInv /\ [Next]_vars => LockInv'
<1> SUFFICES ASSUME TypeOK, LockInv, [Next]_vars PROVE LockInv'
  OBVIOUS
<1> USE PublicationAssumption
<1> USE DEF TypeOK, LockInv
<1>1. ASSUME NEW r \in Runs, Trigger(r) \/ RetryPublisher(r) PROVE LockInv'
  BY <1>1 DEF Trigger, RetryPublisher, Enqueue, Queued, Ended, Active, Holding
<1>2. ASSUME NEW r \in Runs, StartBuild(r) PROVE LockInv'
  BY <1>2 DEF StartBuild, GroupFree, Active, Holding
<1>3. ASSUME NEW r \in Runs, Upload(r) \/ BuildSucceeds(r) \/ BuildFails(r) PROVE LockInv'
  BY <1>3 DEF Upload, BuildSucceeds, BuildFails, Active, Holding
<1>4. ASSUME NEW r \in Runs, RequestLock(r) PROVE LockInv'
  <2>1. phase[r] \notin Holding \cup {"pending"}
    BY <1>4 DEF RequestLock, Active, Holding
  <2>2. \A s \in Runs : s # r /\ phase'[s] \in Active =>
           phase[s] \in Active /\ phase'[s] = phase[s]
    BY <1>4 DEF RequestLock, Active, Holding
  <2>3. \A s \in Runs : s # r /\ phase'[s] \in Active => RunComp[s] # RunComp[r]
    BY <1>4, <2>2 DEF RequestLock, GroupFree, Active
  <2>4. CASE LockFree
    BY <1>4, <2>1, <2>2, <2>3, <2>4 DEF RequestLock, LockFree, Active, Holding
  <2>5. CASE ~LockFree
    <3>1. PICK h \in Runs : phase[h] \in Holding
      BY <2>5 DEF LockFree
    <3>2. phase'[h] \in Holding /\ phase'[r] = "pending"
      BY <1>4, <2>1, <2>5, <3>1 DEF RequestLock, Holding
    <3> QED
      BY <1>4, <2>1, <2>2, <2>3, <3>2 DEF RequestLock, Active, Holding
  <2> QED
    BY <2>4, <2>5
<1>5. ASSUME NEW r \in Runs, Current(r) \/ Previous(r) \/ Compose(r) \/ Deploy(r) PROVE LockInv'
  BY <1>5 DEF Current, Previous, Restore, Compose, Deploy, Active, Holding
<1>6. ASSUME NEW r \in Runs, NEW end \in Ended, phase[r] \in Holding, EndPublisher(r, end)
      PROVE  LockInv'
  <2>1. \A s \in Runs : s # r => phase[s] \notin Holding
    BY <1>6
  <2>2. \A s, t \in Runs : phase[s] = "pending" /\ phase[t] = "pending" => s = t
    <3> SUFFICES ASSUME NEW s \in Runs, NEW t \in Runs,
                        phase[s] = "pending", phase[t] = "pending"
                 PROVE  s = t
      OBVIOUS
    <3>1. s # r /\ t # r
      BY <1>6 DEF Holding
    <3>2. RunComp[s] # RunComp[r] /\ RunComp[t] # RunComp[r]
      BY <1>6, <3>1, PhaseFacts
    <3>3. RunComp[s] = RunComp[t]
      BY <3>2 DEF Comp
    <3> QED
      BY <3>3, PhaseFacts
  <2>3. phase'[r] \notin Active
    BY <1>6, PhaseFacts DEF EndPublisher
  <2> QED
    BY <1>6, <2>1, <2>2, <2>3 DEF EndPublisher, Active, Holding
<1>7. ASSUME OtherUpload \/ Expire \/ CdnRefresh \/ UNCHANGED vars PROVE LockInv'
  BY <1>7 DEF OtherUpload, Expire, CdnRefresh, vars, runVars
<1> QED
  BY <1>1, <1>2, <1>3, <1>4, <1>5, <1>6, <1>7
     DEF Next, Step, Progress, PublisherDone, PublisherFails, Ended, Holding

\* Every step keeps the artifact clock in order.
LEMMA ClockStep == TypeOK /\ ClockInv /\ [Next]_vars => ClockInv'
<1> SUFFICES ASSUME TypeOK, ClockInv, [Next]_vars PROVE ClockInv'
  OBVIOUS
<1> USE PublicationAssumption DEF TypeOK, ClockInv, Covered
<1>1. ASSUME NEW r \in Runs, Trigger(r) \/ RetryPublisher(r) PROVE ClockInv'
  BY <1>1 DEF Trigger, RetryPublisher, Enqueue, Queued, Ended
<1>2. ASSUME NEW r \in Runs, StartBuild(r) \/ BuildSucceeds(r) \/ BuildFails(r) PROVE ClockInv'
  BY <1>2 DEF StartBuild, BuildSucceeds, BuildFails
<1>3. ASSUME NEW r \in Runs, Upload(r) PROVE ClockInv'
  BY <1>3 DEF Upload
<1>4. ASSUME NEW r \in Runs, RequestLock(r) PROVE ClockInv'
  BY <1>4 DEF RequestLock
<1>5. ASSUME NEW r \in Runs, Current(r) \/ Previous(r) \/ Compose(r) \/ Deploy(r) PROVE ClockInv'
  BY <1>5 DEF Current, Previous, Restore, Compose, Deploy
<1>6. ASSUME NEW r \in Runs, NEW end \in Ended, EndPublisher(r, end) PROVE ClockInv'
  BY <1>6 DEF EndPublisher, Ended
<1>7. ASSUME OtherUpload \/ Expire \/ CdnRefresh \/ UNCHANGED vars PROVE ClockInv'
  BY <1>7 DEF OtherUpload, Expire, CdnRefresh, vars, runVars
<1> QED
  BY <1>1, <1>2, <1>3, <1>4, <1>5, <1>6, <1>7
     DEF Next, Step, Progress, PublisherDone, PublisherFails, Ended

\* Every step keeps the site validated, and its expired parts served.
LEMMA SiteStep == IInv /\ [Next]_vars => SiteInv'
<1> SUFFICES ASSUME IInv, [Next]_vars PROVE SiteInv'
  OBVIOUS
<1> USE PublicationAssumption DEF IInv, TypeOK, SiteInv, SiteValidated
<1>1. ASSUME NEW r \in Runs, Trigger(r) \/ RetryPublisher(r) \/ StartBuild(r) \/ Upload(r)
             \/ BuildFails(r) \/ RequestLock(r) \/ Current(r) \/ Previous(r) \/ Compose(r)
      PROVE  SiteInv'
  BY <1>1 DEF Trigger, RetryPublisher, Enqueue, StartBuild, Upload, BuildFails, RequestLock,
              Current, Previous, Restore, Compose
<1>2. ASSUME NEW r \in Runs, BuildSucceeds(r) PROVE SiteInv'
  BY <1>2 DEF BuildSucceeds
<1>3. ASSUME NEW r \in Runs, Deploy(r) PROVE SiteInv'
  <2>1. RestoredBy(r) = Comp
    BY <1>3 DEF Deploy, RestoredBy
  <2>2. site' = [comp |-> got, refs |-> got["live"], split |-> TRUE]
    BY <1>3 DEF Deploy, RestoreInv
  <2> QED
    BY <1>3, <2>1, <2>2 DEF Deploy, RestoreInv
<1>4. ASSUME NEW r \in Runs, NEW end \in Ended, EndPublisher(r, end) PROVE SiteInv'
  BY <1>4 DEF EndPublisher
<1>5. ASSUME OtherUpload \/ UNCHANGED vars PROVE SiteInv'
  BY <1>5 DEF OtherUpload, vars
<1>6. ASSUME Expire PROVE SiteInv'
  BY <1>6 DEF Expire, ClockInv, Site
<1>7. ASSUME CdnRefresh PROVE SiteInv'
  BY <1>7 DEF CdnRefresh
<1> QED
  BY <1>1, <1>2, <1>3, <1>4, <1>5, <1>6, <1>7
     DEF Next, Step, Progress, PublisherDone, PublisherFails, Ended

\* The lookup of the run's own component: not older than the deployed one, nor
\* than any unexpired build validated when the lock was taken.
LEMMA CurrentIsFresh ==
    ASSUME WindowCovers, IInv, NEW r \in Runs, Current(r)
    PROVE  \E v \in valid[RunComp[r]] :
              /\ Restore(r, RunComp[r], v, "current")
              /\ v > horizon
              /\ v >= site.comp[RunComp[r]]
              /\ \A w \in atLock[RunComp[r]] : w > horizon => v >= w
<1> DEFINE c == RunComp[r]
<1> USE PublicationAssumption DEF IInv
<1>1. c \in Comp /\ own[r] \in valid[c] /\ own[r] > horizon /\ own[r] \in Nat
  BY DEF Current, TypeOK
<1>2. /\ atLock[c] \subseteq valid[c]
      /\ valid[c] \subseteq Nat /\ site.comp[c] \in Nat /\ horizon \in Nat
  BY <1>1 DEF Current, RestoreInv, TypeOK, Site, Holding
<1>3. \A w \in valid[c] : w > horizon => w <= own[r] \/ w \in Newer(c, own[r])
  BY <1>1, <1>2, UnexpiredIsListed DEF Newer
<1>4. site.comp[c] > horizon => site.comp[c] \in valid[c]
  BY <1>1, <1>2 DEF SiteInv, SiteValidated
<1>5. CASE Newer(c, own[r]) = {}
  <2>1. Restore(r, c, own[r], "current")
    BY <1>5 DEF Current, IsNewest
  <2> QED
    BY <1>1, <1>2, <1>3, <1>4, <1>5, <2>1
<1>6. CASE Newer(c, own[r]) # {}
  <2>1. PICK v \in Newer(c, own[r]) :
           IsNewest(v, Newer(c, own[r])) /\ Restore(r, c, v, "current")
    BY <1>6 DEF Current
  <2>2. v \in valid[c] /\ v > own[r]
    BY <2>1 DEF Newer, Validated
  <2>3. \A w \in valid[c] : w > horizon => w <= v
    BY <1>1, <1>2, <1>3, <2>1, <2>2 DEF IsNewest
  <2> QED
    BY <1>1, <1>2, <1>4, <2>1, <2>2, <2>3
<1> QED
  BY <1>5, <1>6

\* The lookup of the counterpart, with its fallbacks: the same, except that an
\* expired snapshot is read back as the CDN serves it.
LEMMA PreviousIsFresh ==
    ASSUME WindowCovers, IInv, NEW r \in Runs, Previous(r)
    PROVE  \E v \in valid[Other(RunComp[r])] \cup {0} :
              /\ Restore(r, Other(RunComp[r]), v, "restored")
              /\ v > horizon \/ v = served.comp[Other(RunComp[r])]
              /\ v >= site.comp[Other(RunComp[r])]
              /\ \A w \in atLock[Other(RunComp[r])] : w > horizon => v >= w
<1> DEFINE c == Other(RunComp[r])
<1> USE PublicationAssumption DEF IInv
<1>1. c \in Comp
  BY OtherComp
<1>2. /\ atLock[c] \subseteq valid[c]
      /\ valid[c] \subseteq Nat /\ site.comp[c] \in Nat /\ horizon \in Nat
  BY <1>1 DEF Previous, RestoreInv, TypeOK, Site, Holding
<1>3. PICK v \in PreviousVersion(c) : Restore(r, c, v, "restored")
  BY DEF Previous
<1>4. \A w \in valid[c] : w > horizon => w \in Validated(c)
  BY <1>1, UnexpiredIsListed
<1>5. site.comp[c] > horizon => site.comp[c] \in valid[c]
  BY <1>1, <1>2 DEF SiteInv, SiteValidated
<1>6. CASE Validated(c) # {}
  <2>1. v \in Validated(c) /\ \A w \in Validated(c) : w <= v
    BY <1>3, <1>6 DEF PreviousVersion, IsNewest
  <2>2. v \in valid[c] /\ v > horizon
    BY <2>1 DEF Validated, Listed
  <2> QED
    BY <1>2, <1>3, <1>4, <1>5, <2>1, <2>2
<1>7. CASE Validated(c) = {}
  <2>1. \A w \in valid[c] : ~(w > horizon)
    BY <1>4, <1>7
  <2>2. site.comp[c] = served.comp[c]
    BY <1>1, <1>5, <2>1 DEF SiteInv
  <2>3. v = served.comp[c]
    BY <1>1, <1>3, <1>7 DEF PreviousVersion, SiteInv, Empty
  <2>4. v \in valid[c] \cup {0}
    BY <1>1, <2>2, <2>3 DEF SiteInv, SiteValidated
  <2> QED
    BY <1>2, <1>3, <2>1, <2>2, <2>3, <2>4
<1> QED
  BY <1>6, <1>7

\* Every step keeps what the lock holder has restored and composed.
LEMMA RestoreStep == WindowCovers /\ IInv /\ [Next]_vars => RestoreInv'
<1> SUFFICES ASSUME WindowCovers, IInv, [Next]_vars PROVE RestoreInv'
  OBVIOUS
<1> USE PublicationAssumption
<1>0. TypeOK /\ LockInv /\ RestoreInv
  BY DEF IInv
<1>1. ASSUME NEW r \in Runs, Trigger(r) \/ RetryPublisher(r) \/ StartBuild(r) \/ Upload(r)
             \/ BuildFails(r) \/ BuildSucceeds(r)
      PROVE  RestoreInv'
  <2>1. /\ \A s \in Runs : phase'[s] # phase[s] => phase'[s] \notin Holding
        /\ UNCHANGED <<got, pages, site, served, atLock, horizon>>
        /\ \A c \in Comp : valid[c] \subseteq valid'[c]
    BY <1>0, <1>1 DEF Trigger, RetryPublisher, Enqueue, StartBuild, Upload, BuildFails,
         BuildSucceeds, lockVars, TypeOK, Holding, Queued
  <2> QED
    BY <1>0, <2>1 DEF RestoreInv, RestoredBy, Holding, TypeOK
<1>2. ASSUME NEW r \in Runs, RequestLock(r) PROVE RestoreInv'
  <2>1. \A s \in Runs : phase'[s] \in Holding =>
           \/ phase'[s] = phase[s] /\ atLock' = atLock
           \/ phase'[s] = "holding" /\ atLock' = valid
    BY <1>0, <1>2 DEF RequestLock, LockFree, TypeOK, Holding
  <2>2. UNCHANGED <<valid, got, pages, site, served, horizon>>
    BY <1>2 DEF RequestLock
  <2> QED
    BY <1>0, <2>1, <2>2 DEF RestoreInv, RestoredBy, Holding
<1>3. ASSUME NEW r \in Runs, Current(r) PROVE RestoreInv'
  <2>1. PICK v \in valid[RunComp[r]] :
           /\ Restore(r, RunComp[r], v, "current")
           /\ v > horizon
           /\ v >= site.comp[RunComp[r]]
           /\ \A w \in atLock[RunComp[r]] : w > horizon => v >= w
    BY <1>3, CurrentIsFresh
  <2>2. \A s \in Runs : s # r => phase'[s] = phase[s] /\ phase[s] \notin Holding
    BY <1>0, <1>3, <2>1 DEF Restore, Current, LockInv, Holding, TypeOK
  <2>3. phase'[r] = "current" /\ got'[RunComp[r]] = v
    BY <1>0, <2>1 DEF Restore, TypeOK
  <2>4. phase[r] = "holding" /\ UNCHANGED <<valid, pages, site, served, horizon, atLock>>
    BY <1>3, <2>1 DEF Current, Restore
  <2> QED
    BY <1>0, <2>1, <2>2, <2>3, <2>4 DEF RestoreInv, RestoredBy, Holding
<1>4. ASSUME NEW r \in Runs, Previous(r) PROVE RestoreInv'
  <2> DEFINE o == Other(RunComp[r])
  <2>1. PICK v \in valid[o] \cup {0} :
           /\ Restore(r, o, v, "restored")
           /\ v > horizon \/ v = served.comp[o]
           /\ v >= site.comp[o]
           /\ \A w \in atLock[o] : w > horizon => v >= w
    BY <1>4, PreviousIsFresh
  <2>2. \A s \in Runs : s # r => phase'[s] = phase[s] /\ phase[s] \notin Holding
    BY <1>0, <1>4, <2>1 DEF Restore, Previous, LockInv, Holding, TypeOK
  <2>3. /\ phase'[r] = "restored" /\ got'[o] = v
        /\ got'[RunComp[r]] = got[RunComp[r]]
        /\ Comp = {RunComp[r], o}
    BY <1>0, <2>1, OtherComp DEF Restore, TypeOK
  <2>4. phase[r] = "current" /\ UNCHANGED <<valid, pages, site, served, horizon, atLock>>
    BY <1>4, <2>1 DEF Previous, Restore
  <2>5. \A c \in Comp : c = RunComp[r] \/ c = o
    BY <2>3
  <2> QED
    BY <1>0, <2>1, <2>2, <2>3, <2>4, <2>5 DEF RestoreInv, RestoredBy, Holding
<1>5. ASSUME NEW r \in Runs, Compose(r) PROVE RestoreInv'
  <2>1. \A s \in Runs : s # r => phase'[s] = phase[s] /\ phase[s] \notin Holding
    BY <1>0, <1>5 DEF Compose, LockInv, Holding, TypeOK
  <2>2. /\ phase[r] = "restored" /\ phase'[r] = "composed"
        /\ pages' = [comp |-> got, refs |-> got["live"], split |-> TRUE]
        /\ UNCHANGED <<valid, got, site, served, horizon, atLock>>
    BY <1>0, <1>5 DEF Compose, RefreshedReferences, TypeOK
  <2> QED
    BY <1>0, <2>1, <2>2 DEF RestoreInv, RestoredBy, Holding
<1>6. ASSUME NEW r \in Runs, Deploy(r) PROVE RestoreInv'
  <2>1. \A s \in Runs : s # r => phase'[s] = phase[s] /\ phase[s] \notin Holding
    BY <1>0, <1>6 DEF Deploy, LockInv, Holding, TypeOK
  <2>2. /\ phase[r] = "composed" /\ phase'[r] = "deployed"
        /\ site'.comp = got
        /\ UNCHANGED <<valid, got, pages, served, horizon, atLock>>
    BY <1>0, <1>6 DEF Deploy, lockVars, RestoreInv, TypeOK
  <2>3. \A c \in Comp : got[c] >= got[c]
    BY <1>0 DEF TypeOK
  <2> QED
    BY <1>0, <2>1, <2>2, <2>3 DEF RestoreInv, RestoredBy, Holding
<1>7. ASSUME NEW r \in Runs, NEW end \in Ended, phase[r] \in Holding, EndPublisher(r, end)
      PROVE  RestoreInv'
  <2>1. \A s \in Runs : phase'[s] \in Holding => phase'[s] = "holding" /\ atLock' = valid
    BY <1>0, <1>7 DEF EndPublisher, LockInv, TypeOK, Ended, Holding
  <2>2. UNCHANGED valid
    BY <1>7 DEF EndPublisher
  <2> QED
    BY <2>1, <2>2 DEF RestoreInv, RestoredBy, Holding
<1>8. ASSUME OtherUpload \/ UNCHANGED vars PROVE RestoreInv'
  BY <1>0, <1>8 DEF OtherUpload, vars, runVars, lockVars, RestoreInv, RestoredBy
<1>9. ASSUME Expire PROVE RestoreInv'
  <2>1. PICK h \in horizon + 1 .. clock :
           /\ \A c \in Comp : \A v \in {got[c], site.comp[c]} :
                 0 < v /\ v <= h => v = served.comp[c]
           /\ horizon' = h
           /\ UNCHANGED <<clock, valid, runVars, lockVars, site, served>>
    BY <1>9 DEF Expire
  <2>2. h \in Nat /\ horizon \in Nat /\ h > horizon
    BY <1>0, <2>1 DEF TypeOK
  <2>3. \A c \in Comp : /\ got[c] \in Nat /\ served.comp[c] \in Nat
                        /\ atLock[c] \subseteq Nat
    BY <1>0 DEF TypeOK, Site
  <2>4. \A r \in Runs : \A c \in RestoredBy(r) : c \in Comp
    BY <1>0 DEF RestoredBy, TypeOK
  <2>5. \A r \in Runs : \A c \in RestoredBy(r) :
           got[c] > h \/ got[c] = served.comp[c]
    BY <1>0, <2>1, <2>2, <2>3, <2>4 DEF RestoreInv
  <2>6. UNCHANGED <<phase, got, pages, atLock, valid, site, served>> /\ horizon' = h
    BY <2>1 DEF runVars, lockVars
  <2>7. \A c \in Comp : \A v \in atLock[c] : v > h => v > horizon
    BY <2>2, <2>3
  <2> QED
    BY <1>0, <2>4, <2>5, <2>6, <2>7 DEF RestoreInv, RestoredBy
<1>10. ASSUME CdnRefresh PROVE RestoreInv'
  <2>1. \A r \in Runs : \A c \in RestoredBy(r) : c \in Comp
    BY <1>0 DEF RestoredBy, TypeOK
  <2>2. \A r \in Runs : \A c \in RestoredBy(r) :
           got[c] > horizon \/ got[c] = site.comp[c]
    BY <1>0, <2>1 DEF RestoreInv, IInv, SiteInv, TypeOK, Site
  <2>3. UNCHANGED <<phase, got, pages, atLock, valid, site, horizon>> /\ served' = site
    BY <1>10 DEF CdnRefresh, runVars, lockVars
  <2> QED
    BY <1>0, <2>2, <2>3 DEF RestoreInv, RestoredBy
<1> QED
  BY <1>1, <1>2, <1>3, <1>4, <1>5, <1>6, <1>7, <1>8, <1>9, <1>10
     DEF Next, Step, Progress, PublisherDone, PublisherFails, Ended, Holding

\* Type correctness of every reachable state.
THEOREM TypeCorrect == Spec => []TypeOK
<1>1. Init => TypeOK
  BY DEF Init, TypeOK, Empty, LegacySite, Site, Phase
<1> QED
  BY <1>1, TypeStep, PTL DEF Spec

\* The publication lock never cancels a waiting publisher, whatever the listing
\* reaches: a third publisher would be a second run of one workflow.
THEOREM PublishersWait == Spec => NoPublisherCancelled
<1>1. Init => TypeOK /\ LockInv
  BY DEF Init, TypeOK, LockInv, Empty, LegacySite, Site, Phase, Holding, Active
<1>2. TypeOK /\ LockInv /\ [Next]_vars => (TypeOK /\ LockInv)'
  BY TypeStep, LockStep
<1>3. TypeOK /\ LockInv /\ [Next]_vars =>
         [\A r \in Runs : phase[r] = "pending" => phase'[r] # "cancelled"]_phase
  <2> SUFFICES ASSUME TypeOK, LockInv, [Next]_vars, phase' # phase,
                      NEW p \in Runs, phase[p] = "pending"
               PROVE  phase'[p] # "cancelled"
    OBVIOUS
  <2> USE PublicationAssumption DEF TypeOK
  <2>1. ASSUME NEW r \in Runs, Trigger(r) \/ RetryPublisher(r) PROVE phase'[p] # "cancelled"
    BY <2>1 DEF Trigger, RetryPublisher, Enqueue, Queued
  <2>2. ASSUME NEW r \in Runs, StartBuild(r) \/ Upload(r) \/ BuildSucceeds(r) \/ BuildFails(r)
        PROVE  phase'[p] # "cancelled"
    BY <2>2 DEF StartBuild, Upload, BuildSucceeds, BuildFails
  <2>3. ASSUME NEW r \in Runs, RequestLock(r) PROVE FALSE
    <3>1. PICK h \in Runs : phase[h] \in Holding
      BY DEF LockInv
    <3>2. h # p /\ phase[h] \in Active /\ phase[p] \in Active
      BY <3>1 DEF Holding, Active
    <3>3. RunComp[h] # RunComp[p]
      BY <3>2 DEF LockInv
    <3>4. RunComp[r] = RunComp[h] \/ RunComp[r] = RunComp[p]
      BY <3>3 DEF Comp
    <3>5. phase[r] = "built"
      BY <2>3, <3>2, <3>4 DEF RequestLock, GroupFree
    <3> QED
      BY <3>1, <3>2, <3>4, <3>5 DEF LockInv, Active, Holding
  <2>4. ASSUME NEW r \in Runs, Current(r) \/ Previous(r) \/ Compose(r) \/ Deploy(r)
        PROVE  phase'[p] # "cancelled"
    BY <2>4 DEF Current, Previous, Restore, Compose, Deploy
  <2>5. ASSUME NEW r \in Runs, PublisherDone(r) \/ PublisherFails(r)
        PROVE  phase'[p] # "cancelled"
    BY <2>5 DEF PublisherDone, PublisherFails, EndPublisher, Holding
  <2>6. ASSUME OtherUpload \/ Expire \/ CdnRefresh \/ UNCHANGED vars PROVE FALSE
    BY <2>6 DEF OtherUpload, Expire, CdnRefresh, vars, runVars
  <2> QED
    BY <2>1, <2>2, <2>3, <2>4, <2>5, <2>6 DEF Next, Step, Progress
<1> QED
  BY <1>1, <1>2, <1>3, PTL DEF Spec, NoPublisherCancelled

\* The inductive invariant holds when the listing covers what has not expired.
THEOREM Invariance == ASSUME WindowCovers PROVE Spec => []IInv
<1>1. Init => IInv
  BY PublicationAssumption
     DEF Init, IInv, TypeOK, LockInv, ClockInv, SiteInv, SiteValidated, RestoreInv, RestoredBy,
         Covered, Empty, LegacySite, Site, Phase, Holding, Active, Comp
<1>2. IInv /\ [Next]_vars => IInv'
  BY TypeStep, LockStep, ClockStep, SiteStep, RestoreStep DEF IInv
<1> QED
  BY <1>1, <1>2, PTL DEF Spec

\* Only Deploy changes the site, and it deploys what its publisher restored.
LEMMA SiteChange ==
    ASSUME IInv, [Next]_vars, site' # site
    PROVE  \E r \in Runs : /\ Deploy(r)
                           /\ RestoredBy(r) = Comp
                           /\ site' = [comp |-> got, refs |-> got["live"], split |-> TRUE]
<1>1. PICK r \in Runs : Deploy(r)
  BY DEF Next, Step, Progress, PublisherDone, PublisherFails, EndPublisher, Trigger,
     RetryPublisher, Enqueue, StartBuild, Upload, BuildSucceeds, BuildFails, RequestLock,
     Current, Previous, Restore, Compose, OtherUpload, Expire, CdnRefresh, vars
<1> QED
  BY <1>1 DEF Deploy, IInv, RestoreInv, RestoredBy

\* What is deployed is validated, and the app index refers to its guide.
THEOREM DeployedIsValidated == ASSUME WindowCovers PROVE Spec => []SiteValidated
<1>1. IInv => SiteValidated
  BY DEF IInv, SiteInv
<1> QED
  BY <1>1, Invariance, PTL

\* A deployment is as fresh as everything validated when its lock was taken.
THEOREM DeployedIsFresh == ASSUME WindowCovers PROVE Spec => []FreshPair
<1>1. IInv => FreshPair
  BY DEF IInv, RestoreInv, RestoredBy, FreshPair
<1> QED
  BY <1>1, Invariance, PTL

\* No component of the deployed site is ever replaced by an older build.
THEOREM NeverRollsBack == ASSUME WindowCovers PROVE Spec => NoRollback
<1>1. IInv /\ [Next]_vars => [\A c \in Comp : site'.comp[c] >= site.comp[c]]_site
  BY SiteChange DEF IInv, RestoreInv
<1> QED
  BY <1>1, Invariance, PTL DEF Spec, NoRollback

\* The system of runs, artifacts, lock and CDN implements the published site.
THEOREM Refinement == ASSUME WindowCovers PROVE Spec => ImplementsPublishedSite
<1>1. Init => Promise!Init
  BY DEF Init, Promise!Init, Promise!Comp, Comp, Empty, LegacySite
<1>2. IInv /\ [Next]_vars => [Promise!Next]_(Promise!vars)
  <2> SUFFICES ASSUME IInv, [Next]_vars PROVE [Promise!Next]_(Promise!vars)
    OBVIOUS
  <2>1. CASE site' # site
    <3>1. PICK r \in Runs :
             /\ Deploy(r)
             /\ RestoredBy(r) = Comp
             /\ site' = [comp |-> got, refs |-> got["live"], split |-> TRUE]
      BY <2>1, SiteChange
    <3>2. \A c \in Comp : /\ got[c] \in valid[c] \cup {0}
                          /\ got[c] >= site.comp[c]
      BY <3>1 DEF IInv, RestoreInv
    <3>3. got = [c \in Comp |-> got[c]] /\ valid' = valid
      BY <3>1 DEF IInv, TypeOK, Deploy
    <3>4. \A c \in Comp : got[c] \in valid[c] \cup {site.comp[c]}
      <4> SUFFICES ASSUME NEW c \in Comp, got[c] = 0 PROVE got[c] = site.comp[c]
        BY <3>2
      <4> QED
        BY <3>2 DEF IInv, TypeOK, Site
    <3> QED
      BY <3>1, <3>2, <3>3, <3>4 DEF Promise!Next, Promise!Publish, Promise!Comp, Comp
  <2>2. CASE site' = site /\ valid' # valid
    <3>1. PICK r \in Runs : BuildSucceeds(r)
      BY <2>2 DEF Next, Step, Progress, PublisherDone, PublisherFails, EndPublisher, Trigger,
         RetryPublisher, Enqueue, StartBuild, Upload, BuildFails, RequestLock, Deploy,
         Current, Previous, Restore, Compose, OtherUpload, Expire, CdnRefresh, vars
    <3>2. RunComp[r] \in Comp /\ own[r] \in valid'[RunComp[r]]
      BY <3>1, PublicationAssumption DEF BuildSucceeds, IInv, TypeOK
    <3>3. valid' = [valid EXCEPT ![RunComp[r]] = @ \cup {own[r]}]
      BY <3>1 DEF BuildSucceeds
    <3> QED
      BY <2>2, <3>2, <3>3 DEF Promise!Next, Promise!Validate, Promise!Comp, Comp
  <2>3. CASE site' = site /\ valid' = valid
    BY <2>3 DEF Promise!vars
  <2> QED
    BY <2>1, <2>2, <2>3
<1> QED
  BY <1>1, <1>2, Invariance, PTL DEF Spec, ImplementsPublishedSite, Promise!Spec

=============================================================================
