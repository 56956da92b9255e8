-------------------------- MODULE SelfUpdateProofs --------------------------
(***************************************************************************)
(* What is proved of SelfUpdate.  Its types: for any goroutines, helpers,  *)
(* builds, offers and bounds.  Without the WebSocket goroutine: that at    *)
(* most one helper runs at a time, that the executable of the service is   *)
(* never torn, and, if versions can be parsed and no offer forces an older *)
(* build, that config.yaml is never ahead of it and no update steps back.  *)
(***************************************************************************)
EXTENDS SelfUpdate, TLAPS

USE BuildAssumption, VersionAssumption, OfferAssumption, ThreadAssumption, RangeAssumption, BoundAssumption

\* What is worked on is a build: an offer past the check of StageIfNeeded, the
\* metadata past that of ApplyIfPending, and the arguments of a helper.
Working == {"open", "truncated", "appending", "check", "writeMeta"}
BuildInHand ==
  /\ \A th \in Thread : /\ pc[th] \in Working => offer[th] \in Offer
                        /\ pc[th] = "spawn" => todo[th] \in Offer
  /\ \A h \in Helper : hpc[h] # "none" => job[h] \in Offer

Sane == TypeOK /\ BuildInHand

-----------------------------------------------------------------------------
(* Files, metadata and versions *)

LEMMA Files ==
  /\ NoFile \in File /\ Mixed \in File
  /\ \A b \in Build : Whole(b) \in File /\ Part(b) \in File
  BY DEF File

LEMMA Metas ==
  /\ NoMeta \in Meta /\ TornMeta \in Meta /\ NoOffer \in Meta
  /\ Offer \subseteq Meta /\ Offers \subseteq Offer
  /\ NoMeta \notin Offer /\ TornMeta \notin Offer
  /\ \A m \in Meta : m.build # 0 => m \in Offer
  /\ \A o \in Offer : o.build \in Build /\ VersionOf[o.build] \in Version
  BY DEF Meta, Offer, NoMeta, TornMeta, NoOffer, Version

LEMMA FaultType == TypeOK /\ Fault => /\ faults' \in 0..MaxFaults
                                      /\ UNCHANGED <<cuts, restarts>>
  BY DEF TypeOK, Fault

LEMMA CutType == TypeOK /\ Cut => /\ cuts' \in 0..MaxCuts
                                  /\ UNCHANGED <<faults, restarts>>
  BY DEF TypeOK, Cut

LEMMA SaneInit == Init => Sane
<1> SUFFICES ASSUME Init PROVE Sane
  OBVIOUS
<1>1. exe \in File /\ tmp \in File /\ staged \in [Version -> File]
  BY Files DEF Init
<1>2. meta \in Meta /\ cfgVersion \in Version /\ current \in Version
  BY Metas DEF Init, Version
<1>3. /\ service \in {"running", "stopping", "stopped"}
      /\ pc \in [Thread -> ThreadLabel] /\ again \in BOOLEAN /\ restart \in BOOLEAN
  BY DEF Init, ThreadLabel
<1>4. /\ offer \in [Thread -> Offers \cup {NoOffer}]
      /\ base \in [Thread -> File] /\ todo \in [Thread -> Meta]
  BY Files, Metas DEF Init
<1>5. /\ hpc \in [Helper -> HelperLabel] /\ job \in [Helper -> Meta]
      /\ from \in [Helper -> {"new", "backup", "rollback"}] /\ backup \in [Helper -> File]
  BY Files, Metas DEF Init, HelperLabel
<1>6. faults \in 0..MaxFaults /\ cuts \in 0..MaxCuts /\ restarts \in 0..MaxRestarts
  BY DEF Init
<1>7. BuildInHand
  BY DEF Init, BuildInHand, Working
<1>8. QED
  BY <1>1, <1>2, <1>3, <1>4, <1>5, <1>6, <1>7 DEF Sane, TypeOK

-----------------------------------------------------------------------------
(* The goroutines *)

\* Where a step of goroutine th may leave it and what it works on.
Threads ==
  /\ pc \in [Thread -> ThreadLabel]
  /\ offer \in [Thread -> Offers \cup {NoOffer}]
  /\ base \in [Thread -> File]
  /\ todo \in [Thread -> Meta]
  /\ again \in BOOLEAN
  /\ \A th \in Thread : /\ pc[th] \in Working => offer[th] \in Offer
                        /\ pc[th] = "spawn" => todo[th] \in Offer

\* What a goroutine does not change.
Rest ==
  /\ exe \in File /\ tmp \in File
  /\ staged \in [Version -> File]
  /\ meta \in Meta
  /\ cfgVersion \in Version \cup {TornConfig}
  /\ service \in {"running", "stopping", "stopped"}
  /\ current \in Version \cup {0}
  /\ restart \in BOOLEAN
  /\ faults \in 0..MaxFaults /\ cuts \in 0..MaxCuts /\ restarts \in 0..MaxRestarts

Helpers ==
  /\ hpc \in [Helper -> HelperLabel]
  /\ job \in [Helper -> Meta]
  /\ from \in [Helper -> {"new", "backup", "rollback"}]
  /\ backup \in [Helper -> File]
  /\ \A h \in Helper : hpc[h] # "none" => job[h] \in Offer

LEMMA SaneParts == Sane <=> Threads /\ Rest /\ Helpers
  BY DEF Sane, TypeOK, BuildInHand, Threads, Rest, Helpers

LEMMA SaneNext == Threads' /\ Rest' /\ Helpers' => Sane'
  BY DEF Sane, TypeOK, BuildInHand, Threads, Rest, Helpers

LEMMA DoneType == ASSUME Threads, NEW th \in Thread, Done(th) PROVE Threads'
  BY Files, Metas DEF Threads, Done, Goto, ThreadLabel, Working

LEMMA GotoType ==
  ASSUME Threads, NEW th \in Thread, NEW to \in ThreadLabel \ (Working \cup {"spawn"}), Goto(th, to),
         UNCHANGED <<offer, base, todo>>, again' \in BOOLEAN
  PROVE  Threads'
  BY DEF Threads, Goto, ThreadLabel, Working

LEMMA WorkType ==
  ASSUME Threads, NEW th \in Thread, NEW to \in Working, Goto(th, to), offer[th] \in Offer,
         base' \in [Thread -> File], UNCHANGED <<offer, todo, again>>
  PROVE  Threads'
  BY DEF Threads, Goto, ThreadLabel, Working

LEMMA AppliedType == ASSUME Threads, NEW th \in Thread, Applied(th) PROVE Threads'
<1>1. CASE Done(th)
  BY <1>1, DoneType
<1>2. CASE Goto(th, "stage") /\ UNCHANGED <<offer, base, todo, again>>
  <2>1. again' \in BOOLEAN
    BY <1>2 DEF Threads
  <2>2. "stage" \in ThreadLabel \ (Working \cup {"spawn"})
    BY DEF ThreadLabel, Working
  <2>3. QED
    BY <1>2, <2>1, <2>2, GotoType
<1>3. QED
  BY <1>1, <1>2 DEF Applied

LEMMA StagedType == ASSUME Threads, NEW th \in Thread, Staged(th) PROVE Threads'
<1>1. CASE Done(th)
  BY <1>1, DoneType
<1>2. CASE again' = TRUE /\ Goto(th, "apply") /\ UNCHANGED <<offer, base, todo>>
  <2>1. "apply" \in ThreadLabel \ (Working \cup {"spawn"})
    BY DEF ThreadLabel, Working
  <2>2. QED
    BY <1>2, <2>1, GotoType
<1>3. QED
  BY <1>1, <1>2 DEF Staged

\* A download writes a build, or a mixture, to its path.
LEMMA WritesType ==
  ASSUME Rest, NEW v, NEW file \in File, staged' = [staged EXCEPT ![v] = file]
  PROVE  staged' \in [Version -> File]
  BY DEF Rest

LEMMA CopiedType ==
  ASSUME NEW th, offer[th] \in Offer PROVE Copied(th) \subseteq File
  BY Files, Metas DEF Copied

LEMMA WantedType == \A m \in Meta : Wanted(m) => m \in Offer
  BY Metas DEF Wanted

LEMMA RestFrame == Rest /\ UNCHANGED <<disk, service, current, restart, bounds>> => Rest'
  BY DEF Rest, disk, bounds

LEMMA HelpersFrame == Helpers /\ UNCHANGED helpers => Helpers'
  BY DEF Helpers, helpers

\* A step of a goroutine keeps the types.
LEMMA ThreadSane ==
  ASSUME Sane, NEW th \in Thread,
         \/ \E o \in Offers \cup {NoOffer} : QueueEmpty(th, o) \/ TasksQueued(th, o)
         \/ UpdateStep(th)
         \/ DownloadFails(th)
  PROVE  Sane'
<1>. Threads /\ Rest /\ Helpers
  BY SaneParts
<1>1. ASSUME NEW o \in Offers \cup {NoOffer}, NEW to \in {"apply", "stage"}, Receive(th, o, to)
      PROVE  Sane'
  <2>1. Threads'
    BY <1>1 DEF Threads, Receive, Goto, ThreadLabel, Working
  <2>2. QED
    BY <1>1, <2>1, SaneNext, RestFrame, HelpersFrame DEF Receive
<1>2. CASE Apply(th)
  <2>1. Threads'
    <3>1. CASE Wanted(meta) /\ Goto(th, "spawn") /\ todo' = [todo EXCEPT ![th] = meta] /\ UNCHANGED <<offer, base, again>>
      <4>1. meta \in Offer /\ meta \in Meta
        BY <3>1, WantedType DEF Rest
      <4>2. QED
        BY <3>1, <4>1 DEF Threads, Goto, ThreadLabel, Working
    <3>2. QED
      BY <1>2, <3>1, AppliedType DEF Apply
  <2>2. QED
    BY <1>2, <2>1, SaneNext, RestFrame, HelpersFrame DEF Apply
<1>3. CASE Spawn(th)
  <2>1. Threads'
    <3>1. CASE Goto(th, "returned") /\ UNCHANGED <<offer, base, todo, again, restart>>
      BY <3>1 DEF Threads, Goto, ThreadLabel, Working
    <3>2. QED
      BY <1>3, <3>1, DoneType DEF Spawn
  <2>2. Rest'
    BY <1>3 DEF Rest, Spawn, disk, bounds
  <2>3. Helpers'
    BY <1>3, Metas DEF Helpers, Threads, Spawn, HelperLabel
  <2>4. QED
    BY <2>1, <2>2, <2>3, SaneNext
<1>4. CASE SpawnFails(th)
  <2>1. Rest'
    BY <1>4 DEF Rest, SpawnFails, disk, bounds, Fault
  <2>2. Threads'
    BY <1>4, AppliedType DEF SpawnFails
  <2>3. QED
    BY <1>4, <2>1, <2>2, SaneNext, HelpersFrame DEF SpawnFails
<1>5. CASE Stage(th)
  <2>1. Threads'
    <3>1. CASE Wanted(offer[th]) /\ Goto(th, "open") /\ base' = [base EXCEPT ![th] = staged[Path(th)]] /\ UNCHANGED <<offer, todo, again>>
      <4>1. offer[th] \in Offer
        BY <3>1, WantedType, Metas DEF Threads
      <4>2. staged[Path(th)] \in File
        BY <4>1, Metas DEF Path, Rest
      <4>3. base' \in [Thread -> File]
        BY <3>1, <4>2 DEF Threads
      <4>4. QED
        BY <3>1, <4>1, <4>3, WorkType DEF Working
    <3>2. QED
      BY <1>5, <3>1, StagedType DEF Stage
  <2>2. QED
    BY <1>5, <2>1, SaneNext, RestFrame, HelpersFrame DEF Stage
<1>6. CASE OpenWhole(th)
  <2>1. offer[th] \in Offer
    BY <1>6 DEF OpenWhole, Threads, Working
  <2>2. Threads'
    BY <1>6, <2>1, WorkType DEF OpenWhole, Threads, Working
  <2>3. Rest'
    BY <1>6, <2>1, Files, Metas DEF OpenWhole, Rest, bounds
  <2>4. QED
    BY <1>6, <2>2, <2>3, SaneNext, HelpersFrame DEF OpenWhole
<1>7. CASE OpenRest(th)
  <2>1. offer[th] \in Offer
    BY <1>7 DEF OpenRest, Threads, Working
  <2>2. Threads'
    BY <1>7, <2>1, WorkType DEF OpenRest, Threads, Working
  <2>3. Rest'
    BY <1>7, <2>1, Files, Metas DEF OpenRest, Rest, bounds
  <2>4. QED
    BY <1>7, <2>2, <2>3, SaneNext, HelpersFrame DEF OpenRest
<1>8. CASE RangeRefused(th) \/ DownloadFails(th)
  BY <1>8, DoneType, SaneNext, RestFrame, HelpersFrame DEF RangeRefused, DownloadFails
<1>9. CASE Copy(th)
  <2>1. offer[th] \in Offer
    BY <1>9 DEF Copy, Threads, Working
  <2>2. Threads'
    BY <1>9, <2>1, WorkType DEF Copy, Threads, Working
  <2>3. Rest'
    <3>1. PICK file \in Copied(th) : staged' = [staged EXCEPT ![Path(th)] = file]
      BY <1>9 DEF Copy
    <3>2. staged' \in [Version -> File]
      BY <2>1, <3>1, CopiedType, WritesType
    <3>3. QED
      BY <1>9, <3>2 DEF Copy, Rest, bounds
  <2>4. QED
    BY <1>9, <2>2, <2>3, SaneNext, HelpersFrame DEF Copy
<1>10. CASE Check(th)
  <2>1. offer[th] \in Offer
    BY <1>10 DEF Check, Threads, Working
  <2>2. Threads'
    BY <1>10, <2>1, WorkType, DoneType DEF Check, Threads, Working
  <2>3. Rest'
    BY <1>10, Files DEF Check, Rest, bounds
  <2>4. QED
    BY <1>10, <2>2, <2>3, SaneNext, HelpersFrame DEF Check
<1>11. CASE WriteMeta(th) \/ WriteMetaFails(th)
  <2>1. offer[th] \in Meta
    BY Metas DEF Threads
  <2>2. Threads'
    BY <1>11, StagedType, DoneType DEF WriteMeta, WriteMetaFails
  <2>3. Rest'
    BY <1>11, <2>1, Metas DEF WriteMeta, WriteMetaFails, Rest, bounds, Fault
  <2>4. QED
    BY <1>11, <2>2, <2>3, SaneNext, HelpersFrame DEF WriteMeta, WriteMetaFails
<1>12. QED
  BY <1>1, <1>2, <1>3, <1>4, <1>5, <1>6, <1>7, <1>8, <1>9, <1>10, <1>11
     DEF QueueEmpty, TasksQueued, UpdateStep

-----------------------------------------------------------------------------
(* The service process and the helpers *)

LEMMA NoThreadsType == ASSUME NoThreads PROVE Threads' /\ restart' \in BOOLEAN
  BY Files, Metas DEF Threads, NoThreads, ThreadLabel, Working

LEMMA GoneType == ASSUME Sane, Gone PROVE Threads' /\ meta' \in Meta /\ service' = "stopped" /\ current' = 0 /\ restart' \in BOOLEAN
<1>1. Threads' /\ restart' \in BOOLEAN
  BY NoThreadsType DEF Gone
<1>2. meta' \in Meta
  BY Metas DEF Gone, Sane, TypeOK
<1>3. QED
  BY <1>1, <1>2 DEF Gone

\* The end of the process, orderly or not, and a request to restart.
LEMMA ProcessSane ==
  ASSUME Sane, BroadcastRestart \/ MainReturns \/ ProcessEnds \/ Killed
  PROVE  Sane'
<1>. Threads /\ Rest /\ Helpers
  BY SaneParts
<1>1. CASE BroadcastRestart
  <2>1. Threads'
    BY <1>1 DEF Threads, BroadcastRestart
  <2>2. Rest'
    BY <1>1 DEF Rest, BroadcastRestart, disk
  <2>3. QED
    BY <1>1, <2>1, <2>2, SaneNext, HelpersFrame DEF BroadcastRestart
<1>2. CASE MainReturns
  <2>1. Threads'
    BY <1>2 DEF Threads, MainReturns, Goto, ThreadLabel, Working
  <2>2. QED
    BY <1>2, <2>1, SaneNext, RestFrame, HelpersFrame DEF MainReturns
<1>3. CASE ProcessEnds \/ Killed
  <2>1. /\ Threads' /\ meta' \in Meta /\ service' = "stopped"
        /\ current' = 0 /\ restart' \in BOOLEAN
    BY <1>3, GoneType DEF ProcessEnds, Killed
  <2>2. faults' \in 0..MaxFaults /\ cuts' \in 0..MaxCuts /\ restarts' \in 0..MaxRestarts
    BY <1>3 DEF ProcessEnds, Killed, Cut, Rest, bounds
  <2>3. Rest'
    BY <1>3, <2>1, <2>2 DEF Rest, ProcessEnds, Killed
  <2>4. QED
    BY <1>3, <2>1, <2>3, SaneNext, HelpersFrame DEF ProcessEnds, Killed
<1>4. QED
  BY <1>1, <1>2, <1>3

LEMMA CutSane == ASSUME Sane, PowerCut PROVE Sane'
<1>. Threads /\ Rest /\ Helpers
  BY SaneParts
<1>1. Threads' /\ restart' \in BOOLEAN
  BY NoThreadsType DEF PowerCut
<1>2. Helpers'
  BY Files, Metas DEF PowerCut, Helpers, HelperLabel
<1>3. cfgVersion' \in Version \cup {TornConfig}
  BY Metas DEF PowerCut, Rest, Helpers
<1>4. meta' \in Meta
  BY Metas DEF PowerCut, Rest, Threads
<1>5. service' \in {"running", "stopping", "stopped"} /\ current' \in Version \cup {0}
  BY <1>3 DEF PowerCut
<1>6. faults' \in 0..MaxFaults /\ cuts' \in 0..MaxCuts /\ restarts' \in 0..MaxRestarts
  BY DEF PowerCut, Cut, Rest
<1>7. Rest'
  BY <1>1, <1>3, <1>4, <1>5, <1>6 DEF PowerCut, Rest
<1>8. QED
  BY <1>1, <1>2, <1>7, SaneNext

\* A helper that goes on keeps its arguments, one that ends forgets them.
LEMMA HGotoType ==
  ASSUME Helpers, NEW h \in Helper, NEW to \in HelperLabel, HGoto(h, to), hpc[h] # "none",
         UNCHANGED job, from' \in [Helper -> {"new", "backup", "rollback"}], backup' \in [Helper -> File]
  PROVE  Helpers'
  BY DEF Helpers, HGoto

LEMMA ExitType == ASSUME Helpers, NEW h \in Helper, Exit(h) PROVE Helpers'
  BY Files, Metas DEF Helpers, Exit, HGoto, HelperLabel

LEMMA ThreadsFrame == Threads /\ UNCHANGED <<pc, offer, base, todo, again>> => Threads'
  BY DEF Threads

LEMMA HelperSane == ASSUME Sane, NEW h \in Helper, HelperStep(h) PROVE Sane'
<1>. Threads /\ Rest /\ Helpers
  BY SaneParts
<1>1. CASE HelperGivesUp(h)
  <2>1. Rest'
    BY <1>1 DEF HelperGivesUp, Rest, Fault, disk, process, bounds
  <2>2. QED
    BY <1>1, <2>1, SaneNext, ExitType, ThreadsFrame DEF HelperGivesUp, process
<1>2. CASE StopService(h)
  <2>1. Rest'
    BY <1>2 DEF StopService, Rest, disk, bounds
  <2>2. Helpers'
    BY <1>2 DEF StopService, Helpers, HGoto, HelperLabel
  <2>3. QED
    BY <1>2, <2>1, <2>2, SaneNext, ThreadsFrame DEF StopService
<1>3. CASE WaitStopped(h)
  <2>1. Helpers'
    BY <1>3 DEF WaitStopped, Helpers, HGoto, HelperLabel
  <2>2. QED
    BY <1>3, <2>1, SaneNext, RestFrame, ThreadsFrame DEF WaitStopped, process
<1>4. CASE BackUp(h)
  <2>1. Helpers'
    BY <1>4 DEF BackUp, Helpers, HGoto, HelperLabel, Rest
  <2>2. QED
    BY <1>4, <2>1, SaneNext, RestFrame, ThreadsFrame DEF BackUp, process
<1>5. CASE CopyNew(h)
  <2>1. Helpers'
    BY <1>5 DEF CopyNew, Helpers, HGoto, HelperLabel
  <2>2. job[h] \in Offer
    BY <1>5 DEF CopyNew, Helpers
  <2>3. Source(h) \in File
    BY <2>2, Metas DEF Source, Helpers, Rest
  <2>4. Rest'
    BY <1>5, <2>3 DEF CopyNew, Rest, process, bounds
  <2>5. QED
    BY <1>5, <2>1, <2>4, SaneNext, ThreadsFrame DEF CopyNew, process
<1>6. CASE Remove(h)
  <2>1. Helpers'
    BY <1>6 DEF Remove, Helpers, HGoto, HelperLabel
  <2>2. Rest'
    BY <1>6, Files DEF Remove, Rest, process, bounds
  <2>3. QED
    BY <1>6, <2>1, <2>2, SaneNext, ThreadsFrame DEF Remove, process
<1>7. CASE Rename(h)
  <2>1. Helpers'
    BY <1>7 DEF Rename, Helpers, HGoto, HelperLabel
  <2>2. Rest'
    BY <1>7, Files DEF Rename, Rest, process, bounds
  <2>3. QED
    BY <1>7, <2>1, <2>2, SaneNext, ThreadsFrame DEF Rename, process
<1>8. CASE ReplaceFails(h)
  <2>1. Rest'
    BY <1>8, Files DEF ReplaceFails, Rest, Fault, process, bounds
  <2>2. CASE Exit(h)
    BY <1>8, <2>1, <2>2, SaneNext, ExitType, ThreadsFrame DEF ReplaceFails, process
  <2>3. CASE /\ from' \in {[from EXCEPT ![h] = "backup"], from}
             /\ HGoto(h, "copy") \/ HGoto(h, "restart")
             /\ UNCHANGED <<job, backup>>
    <3>1. Helpers'
      BY <1>8, <2>3 DEF ReplaceFails, Helpers, HGoto, HelperLabel
    <3>2. QED
      BY <1>8, <2>1, <3>1, SaneNext, ThreadsFrame DEF ReplaceFails, process
  <2>4. QED
    BY <1>8, <2>2, <2>3 DEF ReplaceFails
<1>9. CASE Unlink(h)
  <2>1. Rest'
    BY <1>9, Files DEF Unlink, Rest, process, bounds
  <2>2. CASE Exit(h)
    BY <1>9, <2>1, <2>2, SaneNext, ExitType, ThreadsFrame DEF Unlink, process
  <2>3. CASE /\ backup' \in {[backup EXCEPT ![h] = NoFile], backup}
             /\ HGoto(h, "config") \/ HGoto(h, "restart")
             /\ UNCHANGED <<job, from>>
    <3>1. Helpers'
      BY <1>9, <2>3, Files DEF Unlink, Helpers, HGoto, HelperLabel
    <3>2. QED
      BY <1>9, <2>1, <3>1, SaneNext, ThreadsFrame DEF Unlink, process
  <2>4. QED
    BY <1>9, <2>2, <2>3 DEF Unlink
<1>10. CASE UpdateConfigVersion(h)
  <2>1. Helpers'
    BY <1>10 DEF UpdateConfigVersion, Helpers, HGoto, HelperLabel
  <2>2. job[h] \in Offer
    BY <1>10 DEF UpdateConfigVersion, Helpers
  <2>3. Rest'
    BY <1>10, <2>2, Metas DEF UpdateConfigVersion, Rest, Fault, process, bounds
  <2>4. QED
    BY <1>10, <2>1, <2>3, SaneNext, ThreadsFrame DEF UpdateConfigVersion, process
<1>11. CASE CleanUp(h)
  <2>1. Helpers'
    BY <1>11 DEF CleanUp, Helpers, HGoto, HelperLabel
  <2>2. Rest'
    BY <1>11, Metas DEF CleanUp, Rest, process, bounds
  <2>3. QED
    BY <1>11, <2>1, <2>2, SaneNext, ThreadsFrame DEF CleanUp, process
<1>12. CASE StartService(h)
  <2>1. Rest'
    BY <1>12 DEF StartService, Started, Rest, disk, bounds
  <2>2. QED
    BY <1>12, <2>1, SaneNext, ExitType, ThreadsFrame DEF StartService
<1>13. CASE StartFails(h)
  <2>1. Rest'
    BY <1>13 DEF StartFails, Rest, Fault, disk, process, bounds
  <2>2. CASE Exit(h)
    BY <1>13, <2>1, <2>2, SaneNext, ExitType, ThreadsFrame DEF StartFails, process
  <2>3. CASE from' = [from EXCEPT ![h] = "rollback"] /\ HGoto(h, "copy") /\ UNCHANGED <<job, backup>>
    <3>1. Helpers'
      BY <1>13, <2>3 DEF StartFails, Helpers, HGoto, HelperLabel
    <3>2. QED
      BY <1>13, <2>1, <3>1, SaneNext, ThreadsFrame DEF StartFails, process
  <2>4. QED
    BY <1>13, <2>2, <2>3 DEF StartFails
<1>14. QED
  BY <1>1, <1>2, <1>3, <1>4, <1>5, <1>6, <1>7, <1>8, <1>9, <1>10, <1>11, <1>12, <1>13
     DEF HelperStep

LEMMA SaneStep == Sane /\ [Next]_vars => Sane'
<1> SUFFICES ASSUME Sane, [Next]_vars PROVE Sane'
  OBVIOUS
<1>1. CASE UNCHANGED vars
  BY <1>1, SaneParts, SaneNext, RestFrame, ThreadsFrame, HelpersFrame DEF vars, process
<1>2. CASE Next
  BY <1>2, ThreadSane, ProcessSane, CutSane, HelperSane DEF Next
<1>3. QED
  BY <1>1, <1>2

\* Every variable keeps its type, and what is worked on is always a build.
THEOREM TypeCorrect == Spec => []TypeOK
<1>1. Spec => []Sane
  BY SaneInit, SaneStep, PTL DEF Spec
<1>2. Sane => TypeOK
  BY DEF Sane
<1>3. QED
  BY <1>1, <1>2, PTL

-----------------------------------------------------------------------------
(* One helper at a time, and the executable, without the WebSocket goroutine *)

OneThread == Thread = {"main"}

OneHelper == \A g, h \in Helper : hpc[g] # "none" /\ hpc[h] # "none" => g = h

Replacing == HelperLabel \ {"none", "stop", "wait"}

\* What the staged file is once it was verified, until the helper copies it.
Handed ==
  /\ pc["main"] = "spawn" => StagedIntact(todo["main"])
  /\ \A h \in Helper : from[h] = "new" /\ hpc[h] \in {"stop", "wait", "backup", "copy"}
                       => StagedIntact(job[h])

\* A helper is at work only when the goroutine has returned, and replaces the
\* executable only when the process is gone.
Apart ==
  /\ service = "stopped" => pc["main"] = "idle"
  /\ \A h \in Helper : /\ hpc[h] \in {"stop", "wait"}
                          => service = "stopped" \/ pc["main"] = "returned"
                       /\ hpc[h] \in Replacing => service = "stopped"

\* What may be renamed to the executable.
Copies ==
  \A h \in Helper : /\ backup[h].part \in {"none", "whole"}
                    /\ hpc[h] \in {"remove", "rename"} => tmp.part = "whole"

NotTorn == exe.part \in {"none", "whole"}

Safe == Sane /\ OneHelper /\ NotTorn /\ Handed /\ Apart /\ Copies

LEMMA SafeInit == OneThread /\ Init => Safe
<1> SUFFICES ASSUME OneThread, Init PROVE Safe
  OBVIOUS
<1>1. NotTorn /\ Copies /\ OneHelper
  BY DEF Init, NotTorn, Copies, OneHelper, Whole, NoFile
<1>2. Handed /\ Apart
  BY DEF OneThread, Init, Handed, Apart, Replacing
<1>3. QED
  BY <1>1, <1>2, SaneInit DEF Safe

\* While the goroutine runs, no helper does.
LEMMA Alone ==
  ASSUME OneThread, Safe, Alive, pc["main"] # "returned"
  PROVE  \A h \in Helper : hpc[h] = "none"
  BY DEF Safe, Sane, TypeOK, Apart, Alive, Replacing, HelperLabel

\* A step of a helper moves that helper and no other.
LEMMA HelperOwn ==
  ASSUME Sane, NEW h \in Helper, HelperStep(h)
  PROVE  /\ hpc[h] # "none"
         /\ \A g \in Helper \ {h} : /\ hpc'[g] = hpc[g] /\ job'[g] = job[g]
                                   /\ from'[g] = from[g] /\ backup'[g] = backup[g]
  BY DEF Sane, TypeOK, HelperStep, HelperGivesUp, StopService, WaitStopped, BackUp, CopyNew, Remove,
         Rename, ReplaceFails, Unlink, UpdateConfigVersion, CleanUp, StartService, StartFails,
         Exit, HGoto

\* The goroutine starts a helper only when none is left, and helpers start none.
LEMMA OneHelperStep == ASSUME OneThread, Safe, [Next]_vars PROVE OneHelper'
<1>1. OneHelper /\ Sane /\ hpc \in [Helper -> HelperLabel]
  BY DEF Safe, Sane, TypeOK
<1>2. CASE UNCHANGED hpc
  BY <1>1, <1>2 DEF OneHelper
<1>3. ASSUME NEW th \in Thread, Spawn(th) PROVE OneHelper'
  <2>1. \A h \in Helper : hpc[h] = "none"
    BY <1>3, Alone DEF OneThread, Spawn
  <2>2. QED
    BY <1>1, <1>3, <2>1 DEF Spawn, OneHelper
<1>4. ASSUME NEW th \in Thread, UpdateStep(th), ~Spawn(th) PROVE UNCHANGED hpc
  BY <1>4 DEF UpdateStep, Apply, SpawnFails, Stage, OpenWhole, OpenRest, RangeRefused, Copy, Check,
              WriteMeta, WriteMetaFails, helpers
<1>5. ASSUME NEW h \in Helper, HelperStep(h) PROVE OneHelper'
  BY <1>1, <1>5, HelperOwn DEF OneHelper
<1>6. CASE PowerCut
  BY <1>6 DEF PowerCut, OneHelper
<1>7. QED
  BY <1>2, <1>3, <1>4, <1>5, <1>6
     DEF Next, QueueEmpty, TasksQueued, Receive, DownloadFails, BroadcastRestart, MainReturns,
         ProcessEnds, Killed, vars, helpers

\* A step of the goroutine that leaves the helpers alone disturbs nothing they
\* rely on, unless it goes to the spawn without a verified file.
LEMMA Undisturbed ==
  ASSUME OneThread, Safe, Alive, pc["main"] # "returned", Sane', OneHelper',
         UNCHANGED <<exe, service, helpers>>, pc'["main"] # "spawn"
  PROVE  Safe'
<1>1. \A h \in Helper : hpc'[h] = "none"
  BY Alone DEF helpers
<1>2. NotTorn' /\ Copies'
  BY <1>1 DEF Safe, NotTorn, Copies, helpers
<1>3. Handed' /\ Apart'
  BY <1>1 DEF Safe, Handed, Apart, Replacing, helpers, Alive
<1>4. QED
  BY <1>2, <1>3 DEF Safe

LEMMA DoneGoes == ASSUME OneThread, Sane, Done("main") PROVE pc'["main"] = "idle"
  BY DEF OneThread, Sane, TypeOK, Done, Goto

LEMMA AppliedGoes == ASSUME OneThread, Sane, Applied("main") PROVE pc'["main"] \in {"idle", "stage"}
  BY DoneGoes DEF OneThread, Sane, TypeOK, Applied, Goto

LEMMA StagedGoes == ASSUME OneThread, Sane, Staged("main") PROVE pc'["main"] \in {"idle", "apply"}
  BY DoneGoes DEF OneThread, Sane, TypeOK, Staged, Goto

LEMMA ThreadSafe ==
  ASSUME OneThread, Safe, Sane', OneHelper', NEW th \in Thread,
         \/ \E o \in Offers \cup {NoOffer} : QueueEmpty(th, o) \/ TasksQueued(th, o)
         \/ UpdateStep(th)
         \/ DownloadFails(th)
  PROVE  Safe'
<1>0. th = "main" /\ Sane /\ pc \in [Thread -> ThreadLabel] /\ "main" \in Thread
  BY DEF OneThread, Safe, Sane, TypeOK
<1>1. ASSUME NEW o \in Offers \cup {NoOffer}, NEW to \in {"apply", "stage"}, Receive(th, o, to)
      PROVE  Safe'
  <2>1. /\ Alive /\ pc["main"] # "returned" /\ pc'["main"] # "spawn"
        /\ UNCHANGED <<exe, service, helpers>>
    BY <1>0, <1>1 DEF Receive, Goto, disk
  <2>2. QED
    BY <2>1, Undisturbed
<1>2. CASE Apply(th)
  <2>1. CASE Wanted(meta) /\ StagedIntact(meta) /\ Goto(th, "spawn") /\ todo' = [todo EXCEPT ![th] = meta]
    <3>1. Alive /\ pc["main"] # "returned" /\ UNCHANGED <<exe, tmp, staged, service, helpers>>
      BY <1>0, <1>2 DEF Apply, disk
    <3>2. \A h \in Helper : hpc'[h] = "none"
      BY <3>1, Alone DEF helpers
    <3>3. NotTorn' /\ Copies'
      BY <3>1, <3>2 DEF Safe, NotTorn, Copies, helpers
    <3>4. StagedIntact(todo["main"])'
      BY <1>0, <2>1, <3>1 DEF StagedIntact, Sane, TypeOK
    <3>5. Handed' /\ Apart'
      BY <3>1, <3>2, <3>4 DEF Handed, Apart, Replacing, Alive
    <3>6. QED
      BY <3>3, <3>5 DEF Safe
  <2>2. CASE Applied(th)
    BY <1>0, <1>2, <2>2, AppliedGoes, Undisturbed DEF Apply, disk
  <2>3. QED
    BY <1>2, <2>1, <2>2 DEF Apply
<1>3. CASE Spawn(th)
  <2>1. PICK h \in Helper : /\ hpc[h] = "none"
                            /\ hpc' = [hpc EXCEPT ![h] = "stop"]
                            /\ job' = [job EXCEPT ![h] = todo[th]]
                            /\ from' = [from EXCEPT ![h] = "new"]
    BY <1>3 DEF Spawn
  <2>2. \A g \in Helper \ {h} : hpc[g] = "none" /\ hpc'[g] = "none"
    BY <1>0, <1>3, <2>1, Alone DEF Spawn, Safe, Sane, TypeOK
  <2>3. pc'["main"] = "returned" /\ service # "stopped" /\ pc["main"] = "spawn"
        /\ UNCHANGED <<exe, tmp, staged, service, backup>>
    BY <1>0, <1>3 DEF Spawn, Goto, Alive, disk
  <2>4. hpc'[h] = "stop" /\ job'[h] = todo["main"]
    BY <1>0, <2>1 DEF Sane, TypeOK
  <2>5. NotTorn' /\ Copies'
    BY <2>2, <2>3, <2>4 DEF Safe, NotTorn, Copies
  <2>6. Apart'
    BY <2>2, <2>3, <2>4 DEF Apart, Replacing
  <2>7. StagedIntact(job[h])'
    BY <2>3, <2>4 DEF Safe, Handed, StagedIntact
  <2>8. Handed'
    BY <2>2, <2>3, <2>7 DEF Handed
  <2>9. QED
    BY <2>5, <2>6, <2>8 DEF Safe
<1>4. CASE SpawnFails(th)
  BY <1>0, <1>4, AppliedGoes, Undisturbed DEF SpawnFails, disk
<1>5. CASE Stage(th)
  <2>1. pc'["main"] # "spawn"
    BY <1>0, <1>5, StagedGoes DEF Stage, Goto
  <2>2. QED
    BY <1>0, <1>5, <2>1, Undisturbed DEF Stage, disk
<1>6. CASE OpenWhole(th) \/ OpenRest(th) \/ Copy(th)
  <2>1. pc'["main"] # "spawn"
    BY <1>0, <1>6 DEF OpenWhole, OpenRest, Copy, Goto
  <2>2. QED
    BY <1>0, <1>6, <2>1, Undisturbed DEF OpenWhole, OpenRest, Copy
<1>7. CASE RangeRefused(th) \/ DownloadFails(th)
  BY <1>0, <1>7, DoneGoes, Undisturbed DEF RangeRefused, DownloadFails, disk
<1>8. CASE Check(th)
  <2>1. pc'["main"] # "spawn"
    BY <1>0, <1>8, DoneGoes DEF Check, Goto
  <2>2. QED
    BY <1>0, <1>8, <2>1, Undisturbed DEF Check
<1>9. CASE WriteMeta(th) \/ WriteMetaFails(th)
  <2>1. pc'["main"] # "spawn"
    BY <1>0, <1>9, DoneGoes, StagedGoes DEF WriteMeta, WriteMetaFails
  <2>2. QED
    BY <1>0, <1>9, <2>1, Undisturbed DEF WriteMeta, WriteMetaFails
<1>10. QED
  BY <1>1, <1>2, <1>3, <1>4, <1>5, <1>6, <1>7, <1>8, <1>9
     DEF QueueEmpty, TasksQueued, UpdateStep

\* The end of the process leaves the helper and its files alone.
LEMMA ProcessSafe ==
  ASSUME OneThread, Safe, Sane', OneHelper', BroadcastRestart \/ MainReturns \/ ProcessEnds \/ Killed
  PROVE  Safe'
<1>0. "main" \in Thread /\ pc \in [Thread -> ThreadLabel]
  BY DEF OneThread, Safe, Sane, TypeOK
<1>1. CASE BroadcastRestart
  BY <1>1 DEF OneThread, BroadcastRestart
<1>2. CASE MainReturns
  BY <1>0, <1>2, Undisturbed DEF MainReturns, Goto, disk
<1>3. CASE ProcessEnds \/ Killed
  <2>1. /\ service' = "stopped" /\ pc'["main"] = "idle"
        /\ UNCHANGED <<exe, tmp, staged, hpc, job, from, backup>>
    BY <1>0, <1>3 DEF ProcessEnds, Killed, Gone, NoThreads, helpers
  <2>2. NotTorn' /\ Copies'
    BY <2>1 DEF Safe, NotTorn, Copies
  <2>3. Apart'
    BY <2>1 DEF Apart
  <2>4. Handed'
    BY <2>1 DEF Safe, Handed, StagedIntact
  <2>5. QED
    BY <2>2, <2>3, <2>4 DEF Safe
<1>4. QED
  BY <1>1, <1>2, <1>3

LEMMA CutSafe == ASSUME OneThread, Safe, Sane', OneHelper', PowerCut PROVE Safe'
<1>1. pc'["main"] = "idle" /\ exe' = exe /\ \A h \in Helper : hpc'[h] = "none" /\ backup'[h] = NoFile
  BY DEF OneThread, PowerCut, NoThreads
<1>2. NotTorn' /\ Copies'
  BY <1>1 DEF Safe, NotTorn, Copies, NoFile
<1>3. Handed' /\ Apart'
  BY <1>1 DEF Handed, Apart, Replacing
<1>4. QED
  BY <1>2, <1>3 DEF Safe

\* What the helper leaves behind when it ends.
LEMMA ExitSafe ==
  ASSUME OneThread, Safe, Sane', OneHelper', NEW h \in Helper, hpc[h] # "none", Exit(h), UNCHANGED <<exe, tmp, staged, pc, todo>>,
         service' = "stopped" => service = "stopped"
  PROVE  Safe'
<1>1. \A g \in Helper : hpc'[g] = "none" /\ backup'[g] \in {backup[g], NoFile}
  BY DEF OneHelper, Exit, HGoto, Safe, Sane, TypeOK
<1>2. NotTorn' /\ Copies'
  BY <1>1 DEF Safe, NotTorn, Copies, NoFile
<1>3. Handed' /\ Apart'
  BY <1>1 DEF Safe, Handed, Apart, Replacing, StagedIntact
<1>4. QED
  BY <1>2, <1>3 DEF Safe

\* A step of the helper that goes on.
LEMMA GoesOn ==
  ASSUME OneThread, Safe, Sane', OneHelper', NEW h \in Helper, hpc'[h] # "none", UNCHANGED <<pc, todo, staged, job, service>>,
         hpc'[h] \in Replacing => service = "stopped",
         hpc'[h] = "wait" => hpc[h] = "stop" /\ from[h] = from'[h],
         hpc'[h] # "stop",
         hpc'[h] = "backup" => hpc[h] = "wait" /\ from[h] = from'[h],
         hpc'[h] = "copy" => from'[h] # "new" \/ (hpc[h] = "backup" /\ from[h] = from'[h]),
         NotTorn', Copies'
  PROVE  Safe'
<1>1. \A g \in Helper \ {h} : hpc'[g] = "none"
  BY DEF OneHelper
<1>2. Apart'
  BY <1>1 DEF Safe, Apart, Replacing
<1>3. Handed'
  BY <1>1 DEF Safe, Handed, StagedIntact
<1>4. QED
  BY <1>2, <1>3 DEF Safe

LEMMA HelperSafe == ASSUME OneThread, Safe, Sane', OneHelper', NEW h \in Helper, HelperStep(h) PROVE Safe'
<1>0. /\ hpc \in [Helper -> HelperLabel] /\ from \in [Helper -> {"new", "backup", "rollback"}]
      /\ backup \in [Helper -> File] /\ hpc[h] # "none"
      /\ \A g \in Helper \ {h} : /\ hpc[g] = "none" /\ hpc'[g] = "none"
                                /\ job'[g] = job[g] /\ from'[g] = from[g] /\ backup'[g] = backup[g]
  BY HelperOwn DEF Safe, OneHelper, Sane, TypeOK
<1>1. CASE HelperGivesUp(h)
  BY <1>1, ExitSafe DEF HelperGivesUp, disk, process
<1>2. CASE StopService(h)
  <2>1. hpc'[h] = "wait" /\ UNCHANGED <<exe, tmp, staged, pc, todo, job, from, backup>>
    BY <1>0, <1>2 DEF StopService, HGoto, disk
  <2>2. NotTorn' /\ Copies'
    BY <1>0, <2>1 DEF Safe, NotTorn, Copies
  <2>3. /\ service' = "stopped" => service = "stopped"
        /\ service = "stopped" => service' = "stopped"
    BY <1>2 DEF StopService
  <2>4. Apart'
    BY <1>0, <1>2, <2>1, <2>3 DEF StopService, Safe, Apart, Replacing
  <2>5. Handed'
    BY <1>0, <1>2, <2>1 DEF StopService, Safe, Handed, StagedIntact
  <2>6. QED
    BY <2>2, <2>4, <2>5 DEF Safe
<1>3. CASE WaitStopped(h)
  <2>1. hpc'[h] = "backup"
    BY <1>0, <1>3 DEF WaitStopped, HGoto
  <2>2. NotTorn' /\ Copies'
    BY <1>0, <1>3, <2>1 DEF WaitStopped, disk, Safe, NotTorn, Copies
  <2>3. QED
    BY <1>3, <2>1, <2>2, GoesOn DEF WaitStopped, disk, process
<1>4. CASE BackUp(h)
  <2>1. hpc'[h] = "copy" /\ backup'[h] = exe /\ exe' = exe
    BY <1>0, <1>4 DEF BackUp, HGoto, disk
  <2>2. NotTorn' /\ Copies'
    BY <1>0, <2>1 DEF Safe, NotTorn, Copies
  <2>3. service = "stopped"
    BY <1>4 DEF BackUp, Safe, Apart, Replacing, HelperLabel
  <2>4. QED
    BY <1>4, <2>1, <2>2, <2>3, GoesOn DEF BackUp, disk, process
<1>5. CASE CopyNew(h)
  <2>1. hpc'[h] = "remove" /\ tmp' = Source(h) /\ exe' = exe /\ backup' = backup
    BY <1>0, <1>5 DEF CopyNew, HGoto
  <2>2. Source(h).part = "whole"
    <3>1. CASE from[h] = "new"
      <4>1. StagedIntact(job[h])
        BY <1>5, <3>1 DEF CopyNew, Safe, Handed
      <4>2. Source(h) = Whole(job[h].build)
        BY <3>1, <4>1 DEF StagedIntact, Source
      <4>3. QED
        BY <4>2 DEF Whole
    <3>2. CASE from[h] # "new"
      <4>1. backup[h] \in File /\ backup[h] # NoFile /\ backup[h].part \in {"none", "whole"}
        BY <1>0, <1>5, <3>2 DEF CopyNew, Source, Safe, Copies
      <4>2. backup[h].part = "whole"
        BY <4>1 DEF File, NoFile, Mixed, Whole, Part
      <4>3. QED
        BY <3>2, <4>2 DEF Source
    <3>3. QED
      BY <3>1, <3>2
  <2>3. NotTorn' /\ Copies'
    BY <1>0, <2>1, <2>2 DEF Safe, NotTorn, Copies
  <2>4. service = "stopped"
    BY <1>5 DEF CopyNew, Safe, Apart, Replacing, HelperLabel
  <2>5. QED
    BY <1>5, <2>1, <2>3, <2>4, GoesOn DEF CopyNew, process
<1>6. CASE Remove(h)
  <2>1. hpc'[h] = "rename" /\ hpc[h] = "remove" /\ UNCHANGED <<tmp, backup>>
    BY <1>0, <1>6 DEF Remove, HGoto
  <2>2. NotTorn' /\ Copies'
    BY <1>0, <1>6, <2>1 DEF Remove, Safe, NotTorn, Copies, NoFile
  <2>3. service = "stopped"
    BY <1>6 DEF Remove, Safe, Apart, Replacing, HelperLabel
  <2>4. QED
    BY <1>6, <2>1, <2>2, <2>3, GoesOn DEF Remove, process
<1>7. CASE Rename(h)
  <2>1. hpc'[h] = "unlink" /\ hpc[h] = "rename" /\ exe' = tmp /\ backup' = backup
    BY <1>0, <1>7 DEF Rename, HGoto
  <2>2. NotTorn' /\ Copies'
    BY <1>0, <2>1 DEF Safe, NotTorn, Copies
  <2>3. QED
    BY <1>7, <2>1, <2>2, GoesOn DEF Rename, process
<1>8. CASE ReplaceFails(h)
  <2>1. UNCHANGED <<exe, staged, pc, todo, service>> /\ hpc[h] \in {"copy", "rename"}
    BY <1>8 DEF ReplaceFails, process
  <2>2. service = "stopped"
    BY <2>1 DEF Safe, Apart, Replacing, HelperLabel
  <2>3. CASE Exit(h)
    <3>1. \A g \in Helper : hpc'[g] = "none" /\ backup'[g] \in {backup[g], NoFile}
      BY <1>0, <2>3 DEF Exit, HGoto
    <3>2. NotTorn' /\ Copies'
      BY <2>1, <3>1 DEF Safe, NotTorn, Copies, NoFile
    <3>3. Handed' /\ Apart'
      BY <2>1, <3>1 DEF Safe, Handed, Apart, Replacing, StagedIntact
    <3>4. QED
      BY <3>2, <3>3 DEF Safe
  <2>4. CASE from' = [from EXCEPT ![h] = "backup"] /\ HGoto(h, "copy") /\ UNCHANGED <<job, backup>>
    <3>1. hpc'[h] = "copy" /\ from'[h] = "backup"
      BY <1>0, <2>4 DEF HGoto
    <3>2. NotTorn' /\ Copies'
      BY <1>0, <2>1, <2>4, <3>1 DEF Safe, NotTorn, Copies
    <3>3. QED
      BY <2>1, <2>2, <2>4, <3>1, <3>2, GoesOn
  <2>5. CASE HGoto(h, "restart") /\ UNCHANGED <<job, from, backup>>
    <3>1. hpc'[h] = "restart"
      BY <1>0, <2>5 DEF HGoto
    <3>2. NotTorn' /\ Copies'
      BY <1>0, <2>1, <2>5, <3>1 DEF Safe, NotTorn, Copies
    <3>3. QED
      BY <2>1, <2>2, <2>5, <3>1, <3>2, GoesOn
  <2>6. QED
    BY <1>8, <2>3, <2>4, <2>5 DEF ReplaceFails
<1>9. CASE Unlink(h)
  <2>1. UNCHANGED <<exe, tmp, pc, todo, service, job>> \/ Exit(h)
    BY <1>9 DEF Unlink, process
  <2>2. service = "stopped" /\ UNCHANGED <<exe, tmp, pc, todo, service>>
    BY <1>9 DEF Unlink, process, Safe, Apart, Replacing, HelperLabel
  <2>3. CASE Exit(h) /\ UNCHANGED staged
    BY <1>0, <2>2, <2>3, ExitSafe
  <2>4. CASE HGoto(h, "config") \/ (HGoto(h, "restart") /\ backup' = [backup EXCEPT ![h] = NoFile])
    <3>1. hpc'[h] \in {"config", "restart"}
      BY <1>0, <2>4 DEF HGoto
    <3>2. backup'[h] \in {backup[h], NoFile} \/ Exit(h)
      BY <1>0, <1>9 DEF Unlink
    <3>3. CASE Exit(h)
      BY <1>0, <3>1, <3>3 DEF Exit, HGoto
    <3>4. CASE backup'[h] \in {backup[h], NoFile}
      <4>1. NotTorn' /\ Copies'
        BY <1>0, <2>2, <3>1, <3>4 DEF Safe, NotTorn, Copies, NoFile
      <4>2. Apart' /\ Handed'
        BY <1>0, <2>2, <3>1 DEF Safe, Apart, Replacing, Handed
      <4>3. QED
        BY <4>1, <4>2 DEF Safe
    <3>5. QED
      BY <3>2, <3>3, <3>4
  <2>5. QED
    BY <1>9, <2>3, <2>4 DEF Unlink
<1>10. CASE UpdateConfigVersion(h)
  <2>1. hpc'[h] = "cleanup" /\ UNCHANGED <<exe, tmp, backup>>
    BY <1>0, <1>10 DEF UpdateConfigVersion, HGoto
  <2>2. NotTorn' /\ Copies'
    BY <1>0, <2>1 DEF Safe, NotTorn, Copies
  <2>3. service = "stopped"
    BY <1>10 DEF UpdateConfigVersion, Safe, Apart, Replacing, HelperLabel
  <2>4. QED
    BY <1>10, <2>1, <2>2, <2>3, GoesOn DEF UpdateConfigVersion, process
<1>11. CASE CleanUp(h)
  <2>1. hpc'[h] = "start" /\ UNCHANGED <<exe, tmp, backup>>
    BY <1>0, <1>11 DEF CleanUp, HGoto
  <2>2. NotTorn' /\ Copies'
    BY <1>0, <2>1 DEF Safe, NotTorn, Copies
  <2>3. service = "stopped"
    BY <1>11 DEF CleanUp, Safe, Apart, Replacing, HelperLabel
  <2>4. QED
    BY <1>11, <2>1, <2>2, <2>3, GoesOn DEF CleanUp, process
<1>12. CASE StartService(h)
  BY <1>12, ExitSafe DEF StartService, Startable, disk
<1>13. CASE StartFails(h)
  <2>1. service = "stopped"
    BY <1>13 DEF StartFails, Safe, Apart, Replacing, HelperLabel
  <2>2. CASE Exit(h)
    BY <1>13, <2>2, ExitSafe DEF StartFails, disk, process
  <2>3. CASE from' = [from EXCEPT ![h] = "rollback"] /\ HGoto(h, "copy") /\ UNCHANGED <<job, backup>>
    <3>1. hpc'[h] = "copy" /\ from'[h] = "rollback"
      BY <1>0, <2>3 DEF HGoto
    <3>2. NotTorn' /\ Copies'
      BY <1>0, <1>13, <2>3, <3>1 DEF StartFails, disk, Safe, NotTorn, Copies
    <3>3. QED
      BY <1>13, <2>1, <2>3, <3>1, <3>2, GoesOn DEF StartFails, disk, process
  <2>4. QED
    BY <1>13, <2>2, <2>3 DEF StartFails
<1>14. QED
  BY <1>1, <1>2, <1>3, <1>4, <1>5, <1>6, <1>7, <1>8, <1>9, <1>10, <1>11, <1>12, <1>13
     DEF HelperStep

LEMMA SafeStep == ASSUME OneThread PROVE Safe /\ [Next]_vars => Safe'
<1> SUFFICES ASSUME Safe, [Next]_vars PROVE Safe'
  OBVIOUS
<1>1. Sane' /\ OneHelper'
  BY SaneStep, OneHelperStep DEF Safe
<1>2. CASE UNCHANGED vars
  BY <1>1, <1>2 DEF Safe, vars, disk, process, helpers, NotTorn, Handed, Apart, Copies, StagedIntact
<1>3. CASE Next
  BY <1>1, <1>3, ThreadSafe, ProcessSafe, CutSafe, HelperSafe DEF Next
<1>4. QED
  BY <1>2, <1>3

LEMMA SafeAlways == ASSUME OneThread PROVE Spec => []Safe
<1>1. Init => Safe
  BY SafeInit
<1>2. Safe /\ [Next]_vars => Safe'
  BY SafeStep
<1>3. QED
  BY <1>1, <1>2, PTL DEF Spec

\* Without the WebSocket goroutine no two helpers ever run, however many could:
\* the main loop that started one returns, and only that helper starts the
\* service again.
THEOREM OneHelperAtATime == OneThread => (Spec => []OneHelper)
<1> SUFFICES ASSUME OneThread PROVE Spec => []OneHelper
  OBVIOUS
<1>1. Safe => OneHelper
  BY DEF Safe
<1>2. QED
  BY <1>1, SafeAlways, PTL

-----------------------------------------------------------------------------
(* One failing call, without the WebSocket goroutine *)

\* Between the removal of the executable and the rename, and while the backup
\* is brought back.
InTheGap(h) ==
  hpc[h] = "rename" \/ (from[h] = "backup" /\ hpc[h] \in {"copy", "remove"})

\* What the first failure leaves, for the helper to put back.
Spared ==
  /\ exe.part = "whole" \/ \E h \in Helper : InTheGap(h)
  /\ \A h \in Helper :
       /\ hpc[h] # "none" /\ from[h] # "new" => faults = 1
       /\ hpc[h] \in {"copy", "remove", "rename", "unlink", "config", "cleanup", "start"}
            => backup[h].part = "whole"
       /\ hpc[h] \in {"stop", "wait", "backup", "config", "cleanup", "start"} => from[h] = "new"

LEMMA SparedInit == Init => Spared
<1> SUFFICES ASSUME Init PROVE Spared
  OBVIOUS
<1>1. exe.part = "whole" /\ \A h \in Helper : hpc[h] = "none"
  BY DEF Init, Whole
<1>2. QED
  BY <1>1 DEF Spared

\* A helper that is in no gap leaves the executable whole.
LEMMA NoGap ==
  ASSUME Spared, OneHelper, NEW h \in Helper, hpc[h] # "none", ~InTheGap(h)
  PROVE  exe.part = "whole"
  BY DEF Spared, OneHelper, InTheGap

\* What is copied is whole, so that no replacement fails of itself.
LEMMA SourceWhole ==
  ASSUME Safe, Spared, NEW h \in Helper, hpc[h] = "copy"
  PROVE  Source(h).part = "whole"
<1>1. CASE from[h] = "new"
  <2>1. StagedIntact(job[h])
    BY <1>1 DEF Safe, Handed
  <2>2. QED
    BY <1>1, <2>1 DEF StagedIntact, Source, Whole
<1>2. CASE from[h] # "new"
  BY <1>2 DEF Spared, Source
<1>3. QED
  BY <1>1, <1>2

LEMMA SparedHelper ==
  ASSUME Safe, OneHelper', Spared, NEW h \in Helper, HelperStep(h), faults' <= 1
  PROVE  Spared'
<1>0. /\ hpc \in [Helper -> HelperLabel] /\ from \in [Helper -> {"new", "backup", "rollback"}]
      /\ backup \in [Helper -> File] /\ hpc[h] # "none" /\ faults \in Nat
      /\ \A g \in Helper \ {h} : /\ hpc[g] = "none" /\ hpc'[g] = "none"
                                /\ from'[g] = from[g] /\ backup'[g] = backup[g]
  BY HelperOwn DEF Safe, OneHelper, Sane, TypeOK
<1>1. Fault => faults = 0 /\ faults' = 1
  BY <1>0 DEF Fault
<1>2. hpc[h] \in Replacing => service = "stopped"
  BY DEF Safe, Apart
<1>3. ~InTheGap(h) => exe.part = "whole"
  BY <1>0, NoGap DEF Safe
<1>4. ASSUME Exit(h), exe' = exe, ~InTheGap(h), faults' = faults \/ faults' = 1
      PROVE  Spared'
  <2>1. hpc'[h] = "none"
    BY <1>0, <1>4 DEF Exit, HGoto
  <2>2. QED
    BY <1>0, <1>3, <1>4, <2>1 DEF Spared, InTheGap
<1>5. CASE HelperGivesUp(h)
  BY <1>1, <1>4, <1>5 DEF HelperGivesUp, InTheGap, disk, bounds
<1>6. CASE StopService(h) \/ WaitStopped(h) \/ UpdateConfigVersion(h) \/ CleanUp(h)
  <2>1. /\ \/ hpc[h] \in {"stop", "wait"} /\ hpc'[h] \in {"wait", "backup"}
           \/ hpc[h] \in {"config", "cleanup"} /\ hpc'[h] \in {"cleanup", "start"}
        /\ UNCHANGED <<exe, from, backup>>
        /\ faults' = faults \/ faults' = 1
    BY <1>0, <1>1, <1>6 DEF StopService, WaitStopped, UpdateConfigVersion, CleanUp, HGoto, disk, bounds
  <2>2. QED
    BY <1>0, <1>3, <2>1 DEF Spared, InTheGap
<1>7. CASE BackUp(h)
  <2>1. /\ hpc[h] = "backup" /\ hpc'[h] = "copy" /\ backup'[h] = exe
        /\ UNCHANGED <<exe, from, faults>>
    BY <1>0, <1>7 DEF BackUp, HGoto, disk, bounds
  <2>2. QED
    BY <1>0, <1>3, <2>1 DEF Spared, InTheGap
<1>8. CASE CopyNew(h)
  <2>1. /\ hpc[h] = "copy" /\ hpc'[h] = "remove"
        /\ UNCHANGED <<exe, from, backup, faults>>
    BY <1>0, <1>8 DEF CopyNew, HGoto, bounds
  <2>2. QED
    BY <1>0, <1>3, <2>1 DEF Spared, InTheGap
<1>9. CASE Remove(h)
  <2>1. /\ hpc[h] = "remove" /\ hpc'[h] = "rename"
        /\ UNCHANGED <<from, backup, faults>>
    BY <1>0, <1>9 DEF Remove, HGoto, bounds
  <2>2. QED
    BY <1>0, <2>1 DEF Spared, InTheGap
<1>10. CASE Rename(h)
  <2>1. /\ hpc[h] = "rename" /\ hpc'[h] = "unlink" /\ exe' = tmp /\ tmp.part = "whole"
        /\ UNCHANGED <<from, backup, faults>>
    BY <1>0, <1>10 DEF Rename, HGoto, bounds, Safe, Copies
  <2>2. QED
    BY <1>0, <2>1 DEF Spared, InTheGap
<1>11. CASE ReplaceFails(h)
  <2>1. hpc[h] = "copy" => Source(h) # NoFile
    BY SourceWhole DEF NoFile
  <2>2. hpc[h] = "rename" => tmp # NoFile /\ service = "stopped"
    BY <1>2 DEF Replacing, HelperLabel, Safe, Copies, NoFile
  <2>3. Fault /\ hpc[h] \in {"copy", "rename"} /\ exe' = exe
    BY <1>11, <2>1, <2>2 DEF ReplaceFails
  <2>4. from[h] = "new" /\ faults' = 1
    BY <1>0, <1>1, <2>3 DEF Spared
  <2>5. hpc'[h] = "copy" /\ from'[h] = "backup" /\ backup' = backup
    BY <1>0, <1>11, <2>4 DEF ReplaceFails, HGoto
  <2>6. QED
    BY <1>0, <2>3, <2>4, <2>5 DEF Spared, InTheGap
<1>12. CASE Unlink(h)
  <2>1. hpc[h] = "unlink" /\ exe' = exe /\ faults' = faults
    BY <1>12 DEF Unlink, bounds
  <2>2. CASE Exit(h)
    BY <1>4, <2>1, <2>2 DEF InTheGap
  <2>3. CASE from[h] = "new" /\ hpc'[h] = "config" /\ UNCHANGED <<from, backup>>
    BY <1>0, <1>3, <2>1, <2>3 DEF Spared, InTheGap
  <2>4. CASE hpc'[h] = "restart" /\ from' = from
    BY <1>0, <1>3, <2>1, <2>4 DEF Spared, InTheGap
  <2>5. QED
    BY <1>0, <1>12, <2>2, <2>3, <2>4 DEF Unlink, HGoto
<1>13. CASE StartService(h)
  BY <1>4, <1>13 DEF StartService, InTheGap, disk, bounds
<1>14. CASE StartFails(h)
  <2>1. /\ hpc[h] \in {"start", "restart"} /\ exe' = exe /\ exe.part = "whole"
        /\ faults' = faults \/ faults' = 1
    BY <1>1, <1>3, <1>14 DEF StartFails, InTheGap, disk, bounds
  <2>2. CASE Exit(h)
    BY <1>4, <2>1, <2>2 DEF InTheGap
  <2>3. CASE hpc[h] = "start" /\ hpc'[h] = "copy" /\ from'[h] = "rollback" /\ backup' = backup
    <3>1. Startable
      BY <1>2, <2>1 DEF Startable, Replacing, HelperLabel
    <3>2. faults' = 1
      BY <1>1, <1>14, <3>1 DEF StartFails
    <3>3. QED
      BY <1>0, <2>1, <2>3, <3>2 DEF Spared, InTheGap
  <2>4. QED
    BY <1>0, <1>14, <2>2, <2>3 DEF StartFails, HGoto
<1>15. QED
  BY <1>5, <1>6, <1>7, <1>8, <1>9, <1>10, <1>11, <1>12, <1>13, <1>14 DEF HelperStep
\* As long as one call at most has failed and nothing was cut.
OneFailure == faults <= 1 /\ cuts = 0

\* What has failed or was cut stays counted.
LEMMA OnlyMoreFailures == Sane /\ [Next]_vars => faults <= faults' /\ cuts <= cuts'
<1> SUFFICES ASSUME Sane, [Next]_vars PROVE faults <= faults' /\ cuts <= cuts'
  OBVIOUS
<1>0. faults \in Nat /\ cuts \in Nat
  BY DEF Sane, TypeOK
<1>1. Fault => faults <= faults' /\ cuts <= cuts'
  BY <1>0 DEF Fault
<1>2. Cut => faults <= faults' /\ cuts <= cuts'
  BY <1>0 DEF Cut
<1>3. UNCHANGED bounds => faults <= faults' /\ cuts <= cuts'
  BY <1>0 DEF bounds
<1>4. ASSUME NEW th \in Thread, UpdateStep(th) PROVE Fault \/ UNCHANGED bounds
  BY <1>4 DEF UpdateStep, Apply, Spawn, SpawnFails, Stage, OpenWhole, OpenRest, RangeRefused, Copy, Check,
              WriteMeta, WriteMetaFails
<1>5. ASSUME NEW h \in Helper, HelperStep(h) PROVE Fault \/ UNCHANGED bounds
  BY <1>5 DEF HelperStep, HelperGivesUp, StopService, WaitStopped, BackUp, CopyNew, Remove, Rename,
              ReplaceFails, Unlink, UpdateConfigVersion, CleanUp, StartService, StartFails
<1>6. BroadcastRestart => faults <= faults' /\ cuts <= cuts'
  BY <1>0 DEF BroadcastRestart
<1>7. QED
  BY <1>1, <1>2, <1>3, <1>4, <1>5, <1>6
     DEF Next, QueueEmpty, TasksQueued, Receive, DownloadFails, MainReturns, ProcessEnds, Killed,
         PowerCut, vars

LEMMA SparedStep ==
  ASSUME OneThread, Safe, OneFailure => Spared, [Next]_vars PROVE OneFailure' => Spared'
<1> SUFFICES ASSUME OneFailure' PROVE Spared'
  OBVIOUS
<1>0. faults \in Nat /\ cuts \in Nat /\ pc \in [Thread -> ThreadLabel]
      /\ hpc \in [Helper -> HelperLabel] /\ from \in [Helper -> {"new", "backup", "rollback"}]
  BY DEF Safe, Sane, TypeOK
<1>1. faults <= faults' /\ cuts <= cuts' /\ faults' \in Nat /\ cuts' \in Nat
  BY OnlyMoreFailures, SaneStep DEF Safe, Sane, TypeOK
<1>2. Spared
  BY <1>0, <1>1 DEF OneFailure
<1>3. OneHelper'
  BY OneHelperStep
<1>4. ASSUME NEW h \in Helper, HelperStep(h) PROVE Spared'
  BY <1>2, <1>3, <1>4, SparedHelper DEF OneFailure
<1>5. ASSUME NEW th \in Thread, Spawn(th) PROVE Spared'
  <2>1. Alive /\ pc["main"] # "returned"
    BY <1>5 DEF OneThread, Spawn
  <2>2. \A h \in Helper : hpc[h] = "none"
    BY <2>1, Alone
  <2>3. exe.part = "whole"
    BY <1>2, <2>2 DEF Spared, InTheGap
  <2>4. PICK h \in Helper : /\ hpc' = [hpc EXCEPT ![h] = "stop"]
                            /\ from' = [from EXCEPT ![h] = "new"]
    BY <1>5 DEF Spawn
  <2>5. exe' = exe
    BY <1>5 DEF Spawn, disk
  <2>6. QED
    BY <1>0, <2>2, <2>3, <2>4, <2>5 DEF Spared
<1>6. ASSUME NEW th \in Thread, UpdateStep(th), ~Spawn(th) PROVE UNCHANGED <<exe, hpc, from, backup>>
  BY <1>6 DEF UpdateStep, Apply, SpawnFails, Stage, OpenWhole, OpenRest, RangeRefused, Copy, Check,
              WriteMeta, WriteMetaFails, helpers, disk
<1>7. ASSUME UNCHANGED <<exe, hpc, from, backup>> PROVE Spared'
  <2>1. \A h \in Helper : hpc[h] # "none" /\ from[h] # "new" => faults' = 1
    BY <1>0, <1>1, <1>2 DEF Spared, OneFailure
  <2>2. QED
    BY <1>2, <1>7, <2>1 DEF Spared, InTheGap
<1>8. ~Cut
  BY <1>0, <1>1 DEF Cut, OneFailure
<1>9. QED
  BY <1>4, <1>5, <1>6, <1>7, <1>8
     DEF Next, QueueEmpty, TasksQueued, Receive, DownloadFails, BroadcastRestart, MainReturns,
         ProcessEnds, Killed, PowerCut, vars, helpers, disk

\* Without the WebSocket goroutine the file at the path of the service is a whole
\* executable or missing, whatever fails and whenever the power is cut: the
\* helper renames nothing but a verified or a backed-up file.  And no single
\* failing call, of the download, the replacement or the start, leaves the
\* service without an executable: the helper has put the backup back.
THEOREM ExeStaysIntact == OneThread => (Spec => []ExeIntact)
<1> SUFFICES ASSUME OneThread PROVE Spec => []ExeIntact
  OBVIOUS
<1>1. Init => (OneFailure => Spared)
  BY SparedInit
<1>2. Safe /\ (OneFailure => Spared) /\ [Next]_vars => (OneFailure => Spared)'
  BY SparedStep
<1>3. Safe /\ (OneFailure => Spared) => ExeIntact
  BY DEF Safe, NotTorn, ExeIntact, OneFailure, Spared, InTheGap
<1>4. QED
  BY <1>1, <1>2, <1>3, SafeAlways, PTL DEF Spec

-----------------------------------------------------------------------------
(* The recorded version, where versions can be parsed and no offer forces an *)
(* older build                                                               *)

VersionsParsed == \A b \in Build : VersionOf[b] > 0

ForcedUp == \A o \in Offers : o.force => \A b \in Build : VersionOf[b] <= VersionOf[o.build]

Ordinary == OneThread /\ VersionsParsed /\ ForcedUp

Known == meta \in Offers \cup {NoMeta, TornMeta}

\* Nothing failed: the helper puts in place what it was started for, which is no
\* older than what config.yaml says.
Behind ==
  /\ exe.part = "whole" => cfgVersion <= VersionOf[exe.build]
  /\ Alive => current = cfgVersion
  /\ pc["main"] = "spawn" => cfgVersion <= VersionOf[todo["main"].build]
  /\ \A h \in Helper :
       /\ hpc[h] # "none" => from[h] = "new" /\ cfgVersion <= VersionOf[job[h].build]
       /\ hpc[h] \in {"remove", "rename"} => tmp = Whole(job[h].build)
       /\ hpc[h] \in {"unlink", "config", "cleanup", "start"} => exe = Whole(job[h].build)
       /\ hpc[h] # "restart"

\* Nothing was cut either: config.yaml says what is installed, but between the
\* removal and the update of the file.
Recorded ==
  /\ (\A h \in Helper : hpc[h] \in {"none", "stop", "wait", "backup", "copy", "remove"})
       => exe.part = "whole" /\ cfgVersion = VersionOf[exe.build]
  /\ cfgVersion # TornConfig
  /\ pc["main"] = "spawn" /\ ~todo["main"].force => VersionOf[todo["main"].build] > cfgVersion
  /\ \A h \in Helper :
       /\ hpc[h] \in {"stop", "wait", "backup", "copy", "remove", "rename"} /\ ~job[h].force
            => VersionOf[job[h].build] > cfgVersion
       /\ hpc[h] \in {"copy", "remove", "rename"} => VersionOf[backup[h].build] = cfgVersion
       /\ hpc[h] \in {"cleanup", "start"} => cfgVersion = VersionOf[job[h].build]

Versions ==
  /\ Known
  /\ faults = 0 => Behind
  /\ faults = 0 /\ cuts = 0 => Recorded

LEMMA Numbers ==
  ASSUME Sane
  PROVE  /\ cfgVersion \in Int /\ current \in Int /\ faults \in Nat /\ cuts \in Nat
         /\ \A b \in Build : VersionOf[b] \in Nat
         /\ exe.part = "whole" => exe.build \in Build
  BY DEF Sane, TypeOK, Version, TornConfig, File, NoFile, Mixed, Whole, Part

LEMMA VersionsInit == OneThread /\ Init => Versions
<1> SUFFICES ASSUME OneThread, Init PROVE Versions
  OBVIOUS
<1>1. Known /\ cfgVersion = VersionOf[FirstBuild] /\ exe.part = "whole" /\ exe.build = FirstBuild
  BY DEF Init, Known, Whole
<1>2. pc["main"] = "idle" /\ current = cfgVersion /\ \A h \in Helper : hpc[h] = "none"
  BY DEF OneThread, Init
<1>3. cfgVersion \in Nat
  BY <1>1
<1>4. QED
  BY <1>1, <1>2, <1>3 DEF Versions, Behind, Recorded, TornConfig

\* The metadata comes from the server.
LEMMA KnownStep == Sane /\ Known /\ [Next]_vars => Known'
<1> SUFFICES ASSUME Sane, Known, [Next]_vars PROVE Known'
  OBVIOUS
<1>1. \A th \in Thread : offer[th] \in Offers \cup {NoMeta}
  BY DEF Sane, TypeOK, NoOffer
<1>2. meta' \in {meta, NoMeta, TornMeta} \cup {offer[th] : th \in Thread}
  <2>1. ASSUME NEW th \in Thread, NEW o \in Offers \cup {NoOffer}, QueueEmpty(th, o) \/ TasksQueued(th, o)
        PROVE  meta' = meta
    BY <2>1 DEF QueueEmpty, TasksQueued, Receive, disk
  <2>2. ASSUME NEW th \in Thread, UpdateStep(th) \/ DownloadFails(th)
        PROVE  meta' \in {meta, TornMeta, offer[th]}
    BY <2>2 DEF UpdateStep, DownloadFails, Apply, Spawn, SpawnFails, Stage, OpenWhole, OpenRest,
                RangeRefused, Copy, Check, WriteMeta, WriteMetaFails, disk
  <2>3. CASE BroadcastRestart \/ MainReturns \/ UNCHANGED vars
    BY <2>3 DEF BroadcastRestart, MainReturns, vars, disk
  <2>4. CASE ProcessEnds \/ Killed
    BY <2>4 DEF ProcessEnds, Killed, Gone
  <2>5. CASE PowerCut
    BY <2>5 DEF PowerCut
  <2>6. ASSUME NEW h \in Helper, HelperStep(h) PROVE meta' \in {meta, NoMeta}
    BY <2>6 DEF HelperStep, HelperGivesUp, StopService, WaitStopped, BackUp, CopyNew, Remove, Rename,
                ReplaceFails, Unlink, UpdateConfigVersion, CleanUp, StartService, StartFails, disk
  <2>7. QED
    BY <2>1, <2>2, <2>3, <2>4, <2>5, <2>6 DEF Next
<1>3. QED
  BY <1>1, <1>2 DEF Known

\* A step of the goroutine to any label but spawn.
LEMMA VersionsFrame ==
  ASSUME OneThread, Safe, Versions, Safe', Known', Alive, pc["main"] # "returned", pc'["main"] # "spawn",
         UNCHANGED <<exe, cfgVersion, service, current, helpers>>, faults' = 0 => faults = 0,
         cuts' = 0 => cuts = 0
  PROVE  Versions'
<1>1. \A h \in Helper : hpc'[h] = "none" /\ hpc[h] = "none"
  BY Alone DEF helpers
<1>2. Behind => Behind'
  BY <1>1 DEF Behind, Alive
<1>3. Recorded => Recorded'
  BY <1>1 DEF Recorded
<1>4. QED
  BY <1>2, <1>3 DEF Versions

LEMMA ThreadVersions ==
  ASSUME Ordinary, Safe, Versions, Safe', Known', NEW th \in Thread,
         \/ \E o \in Offers \cup {NoOffer} : QueueEmpty(th, o) \/ TasksQueued(th, o)
         \/ UpdateStep(th)
         \/ DownloadFails(th)
  PROVE  Versions'
<1>0. /\ th = "main" /\ Sane /\ pc \in [Thread -> ThreadLabel] /\ "main" \in Thread
      /\ faults \in Nat /\ cuts \in Nat
  BY Numbers DEF Ordinary, OneThread, Safe, Sane, TypeOK
<1> OneThread
  BY DEF Ordinary
<1>1. ASSUME NEW o \in Offers \cup {NoOffer}, NEW to \in {"apply", "stage"}, Receive(th, o, to)
      PROVE  Versions'
  <2>1. pc'["main"] # "spawn" /\ Alive /\ pc["main"] # "returned"
    BY <1>0, <1>1 DEF Receive, Goto
  <2>2. QED
    BY <1>1, <2>1, VersionsFrame DEF Receive, disk, bounds
<1>2. CASE Apply(th)
  <2>1. CASE Wanted(meta) /\ Goto(th, "spawn") /\ todo' = [todo EXCEPT ![th] = meta]
    <3>1. /\ Alive /\ pc["main"] # "returned" /\ pc'["main"] = "spawn" /\ todo'["main"] = meta
          /\ UNCHANGED <<exe, cfgVersion, service, current, helpers, faults, cuts>>
      BY <1>0, <1>2, <2>1 DEF Apply, Goto, disk, bounds, Sane, TypeOK
    <3>2. \A h \in Helper : hpc'[h] = "none" /\ hpc[h] = "none"
      BY <3>1, Alone DEF helpers
    <3>3. meta \in Offers /\ meta \in Offer /\ meta.build \in Build
      BY <2>1, WantedType, Metas DEF Versions, Known, Wanted, NoMeta, TornMeta
    <3>4. /\ cfgVersion \in Version \cup {TornConfig} /\ cfgVersion \in Int
          /\ VersionOf[meta.build] \in Nat /\ VersionOf[meta.build] > 0
      BY <1>0, <3>3, Numbers DEF Ordinary, VersionsParsed, Sane, TypeOK
    <3>5. cfgVersion # 0
      BY <3>4 DEF Ordinary, VersionsParsed, Version, TornConfig
    <3>6. faults = 0 => meta.force \/ VersionOf[meta.build] > cfgVersion
      BY <2>1, <3>1, <3>4, <3>5 DEF Wanted, Newer, Versions, Behind
    <3>7. meta.force => cfgVersion <= VersionOf[meta.build]
      BY <3>3, <3>4 DEF Ordinary, ForcedUp, Version, TornConfig
    <3>8. faults' = 0 => Behind'
      BY <3>1, <3>2, <3>4, <3>6, <3>7 DEF Versions, Behind, Alive
    <3>9. faults' = 0 /\ cuts' = 0 => Recorded'
      BY <3>1, <3>2, <3>6 DEF Versions, Recorded
    <3>10. QED
      BY <3>8, <3>9 DEF Versions
  <2>2. CASE Applied(th)
    <3>1. pc'["main"] # "spawn" /\ Alive /\ pc["main"] # "returned"
      BY <1>0, <1>2, <2>2, AppliedGoes DEF Apply
    <3>2. QED
      BY <1>2, <3>1, VersionsFrame DEF Apply, disk, bounds
  <2>3. QED
    BY <1>2, <2>1, <2>2 DEF Apply
<1>3. CASE Spawn(th)
  <2>1. PICK h \in Helper : /\ hpc[h] = "none"
                            /\ hpc' = [hpc EXCEPT ![h] = "stop"]
                            /\ job' = [job EXCEPT ![h] = todo[th]]
                            /\ from' = [from EXCEPT ![h] = "new"]
    BY <1>3 DEF Spawn
  <2>2. \A g \in Helper \ {h} : hpc[g] = "none" /\ hpc'[g] = "none"
    BY <1>0, <1>3, <2>1, Alone DEF Spawn, Sane, TypeOK
  <2>3. /\ pc'["main"] = "returned" /\ pc["main"] = "spawn"
        /\ UNCHANGED <<exe, tmp, cfgVersion, service, current, backup, faults, cuts>>
    BY <1>0, <1>3 DEF Spawn, Goto, disk, bounds
  <2>4. hpc'[h] = "stop" /\ job'[h] = todo["main"] /\ from'[h] = "new"
    BY <1>0, <2>1 DEF Sane, TypeOK
  <2>5. Behind => Behind'
    BY <2>2, <2>3, <2>4 DEF Behind, Alive
  <2>6. Recorded => Recorded'
    BY <2>1, <2>2, <2>3, <2>4 DEF Recorded
  <2>7. QED
    BY <2>3, <2>5, <2>6 DEF Versions
<1>4. CASE SpawnFails(th)
  <2>1. pc'["main"] # "spawn" /\ Alive /\ pc["main"] # "returned"
    BY <1>0, <1>4, AppliedGoes DEF SpawnFails
  <2>2. QED
    BY <1>0, <1>4, <2>1, VersionsFrame DEF SpawnFails, disk, bounds, Fault
<1>5. CASE Stage(th)
  <2>1. pc'["main"] # "spawn" /\ Alive /\ pc["main"] # "returned"
    BY <1>0, <1>5, StagedGoes DEF Stage, Goto
  <2>2. QED
    BY <1>5, <2>1, VersionsFrame DEF Stage, disk, bounds
<1>6. CASE OpenWhole(th) \/ OpenRest(th) \/ Copy(th)
  <2>1. pc'["main"] # "spawn" /\ Alive /\ pc["main"] # "returned"
    BY <1>0, <1>6 DEF OpenWhole, OpenRest, Copy, Goto
  <2>2. QED
    BY <1>6, <2>1, VersionsFrame DEF OpenWhole, OpenRest, Copy, bounds
<1>7. CASE RangeRefused(th) \/ DownloadFails(th)
  <2>1. pc'["main"] # "spawn" /\ Alive /\ pc["main"] # "returned"
    BY <1>0, <1>7, DoneGoes DEF RangeRefused, DownloadFails
  <2>2. QED
    BY <1>7, <2>1, VersionsFrame DEF RangeRefused, DownloadFails, disk, bounds
<1>8. CASE Check(th)
  <2>1. pc'["main"] # "spawn" /\ Alive /\ pc["main"] # "returned"
    BY <1>0, <1>8, DoneGoes DEF Check, Goto
  <2>2. QED
    BY <1>8, <2>1, VersionsFrame DEF Check, bounds
<1>9. CASE WriteMeta(th) \/ WriteMetaFails(th)
  <2>1. pc'["main"] # "spawn" /\ Alive /\ pc["main"] # "returned"
    BY <1>0, <1>9, DoneGoes, StagedGoes DEF WriteMeta, WriteMetaFails
  <2>2. QED
    BY <1>0, <1>9, <2>1, VersionsFrame DEF WriteMeta, WriteMetaFails, bounds, Fault
<1>10. QED
  BY <1>1, <1>2, <1>3, <1>4, <1>5, <1>6, <1>7, <1>8, <1>9
     DEF QueueEmpty, TasksQueued, UpdateStep

\* The end of the process changes no version; a power cut may leave that of the
\* running agent, or nothing that runs.
LEMMA ProcessVersions ==
  ASSUME Ordinary, Safe, Versions, Safe', Known',
         BroadcastRestart \/ MainReturns \/ ProcessEnds \/ Killed \/ PowerCut
  PROVE  Versions'
<1>0. "main" \in Thread /\ pc \in [Thread -> ThreadLabel] /\ OneThread /\ Sane /\ faults \in Nat /\ cuts \in Nat
  BY Numbers DEF Ordinary, OneThread, Safe, Sane, TypeOK
<1>1. CASE BroadcastRestart
  BY <1>0, <1>1 DEF OneThread, BroadcastRestart
<1>2. CASE MainReturns
  BY <1>0, <1>2, VersionsFrame DEF MainReturns, Goto, disk, bounds
<1>3. CASE ProcessEnds \/ Killed
  <2>1. /\ service' = "stopped" /\ pc'["main"] = "idle"
        /\ UNCHANGED <<exe, tmp, cfgVersion, hpc, job, from, backup, faults>>
        /\ cuts' = 0 => cuts = 0
    BY <1>0, <1>3 DEF ProcessEnds, Killed, Gone, NoThreads, helpers, bounds, Cut
  <2>2. Behind => Behind'
    BY <2>1 DEF Behind, Alive
  <2>3. Recorded => Recorded'
    BY <2>1 DEF Recorded
  <2>4. QED
    BY <2>1, <2>2, <2>3 DEF Versions
<1>4. CASE PowerCut
  <2>1. /\ pc'["main"] = "idle" /\ exe' = exe /\ faults' = faults /\ cuts' # 0
        /\ \A h \in Helper : hpc'[h] = "none"
    BY <1>0, <1>4 DEF PowerCut, NoThreads, Cut
  <2>2. service' # "stopped" => current' = cfgVersion'
    BY <1>4 DEF PowerCut
  <2>3. Behind /\ exe.part = "whole" => cfgVersion' <= VersionOf[exe.build]
    <3>1. CASE cfgVersion' = cfgVersion
      BY <3>1 DEF Behind
    <3>2. ASSUME NEW h \in Helper, hpc[h] = "config", cfgVersion' \in {TornConfig, VersionOf[job[h].build]},
                 Behind, exe.part = "whole"
          PROVE  cfgVersion' <= VersionOf[exe.build]
      <4>1. exe.build = job[h].build /\ VersionOf[exe.build] \in Nat
        BY <1>0, <3>2, Numbers DEF Behind, Whole
      <4>2. QED
        BY <3>2, <4>1 DEF TornConfig
    <3>3. QED
      BY <1>4, <3>1, <3>2 DEF PowerCut
  <2>4. Behind => Behind'
    BY <2>1, <2>2, <2>3 DEF Behind, Alive
  <2>5. QED
    BY <2>1, <2>4 DEF Versions
<1>5. QED
  BY <1>1, <1>2, <1>3, <1>4

\* Without a failing call no replacement fails and every start succeeds.
LEMMA NoFailure ==
  ASSUME Ordinary, Safe, Versions, NEW h \in Helper, ReplaceFails(h) \/ StartFails(h)
  PROVE  faults' # 0
<1>0. faults \in Nat /\ OneThread
  BY Numbers DEF Ordinary, Safe
<1> SUFFICES ASSUME faults' = 0 PROVE FALSE
  OBVIOUS
<1>1. faults = 0 /\ ~Fault
  BY <1>0 DEF ReplaceFails, StartFails, Fault, bounds
<1>2. Behind /\ hpc[h] \in {"copy", "rename", "start", "restart"}
  BY <1>1 DEF Versions, ReplaceFails, StartFails
<1>3. service = "stopped"
  BY <1>2 DEF Safe, Apart, Replacing, HelperLabel
<1>4. ASSUME NEW b PROVE Whole(b) # NoFile /\ Whole(b).part = "whole"
  BY DEF Whole, NoFile
<1>5. hpc[h] = "copy" => Source(h) # NoFile
  BY <1>2, <1>4 DEF Behind, Safe, Handed, StagedIntact, Source
<1>6. hpc[h] = "rename" => tmp # NoFile
  BY <1>2, <1>4 DEF Behind
<1>7. hpc[h] = "start" => Startable
  BY <1>2, <1>3, <1>4 DEF Behind, Startable
<1>8. hpc[h] # "restart"
  BY <1>2 DEF Behind
<1>9. QED
  BY <1>1, <1>3, <1>5, <1>6, <1>7, <1>8 DEF ReplaceFails, StartFails

\* The helper ends and leaves what it found or has put in place.
LEMMA ExitVersions ==
  ASSUME OneThread, Safe, Versions, Known', NEW h \in Helper, hpc[h] # "none", Exit(h),
         UNCHANGED <<exe, cfgVersion, pc, todo>>,
         service' # "stopped" => current' = cfgVersion \/ (service # "stopped" /\ current' = current),
         faults' = 0 => faults = 0, cuts' = 0 => cuts = 0,
         faults' = 0 => hpc[h] \in {"stop", "wait", "backup", "start"}
  PROVE  Versions'
<1>1. /\ hpc'[h] = "none"
      /\ \A g \in Helper \ {h} : hpc[g] = "none" /\ hpc'[g] = "none"
  BY DEF OneHelper, Exit, HGoto, Safe, Sane, TypeOK
<1>2. Behind => Behind'
  BY <1>1 DEF Behind, Alive
<1>3. hpc[h] = "start" /\ Behind /\ Recorded => exe.part = "whole" /\ cfgVersion = VersionOf[exe.build]
  BY DEF Behind, Recorded, Whole
<1>4. hpc[h] \in {"stop", "wait", "backup"} /\ Recorded => exe.part = "whole" /\ cfgVersion = VersionOf[exe.build]
  BY <1>1 DEF Recorded
<1>5. faults' = 0 /\ cuts' = 0 => Recorded'
  BY <1>1, <1>3, <1>4 DEF Versions, Recorded
<1>6. QED
  BY <1>2, <1>5 DEF Versions

LEMMA HelperVersions ==
  ASSUME Ordinary, Safe, Versions, Safe', Known', NEW h \in Helper, HelperStep(h)
  PROVE  Versions'
<1>0. /\ hpc \in [Helper -> HelperLabel] /\ hpc[h] # "none"
      /\ \A g \in Helper \ {h} : /\ hpc[g] = "none" /\ hpc'[g] = "none"
                                /\ job'[g] = job[g] /\ from'[g] = from[g] /\ backup'[g] = backup[g]
      /\ job \in [Helper -> Meta] /\ from \in [Helper -> {"new", "backup", "rollback"}]
      /\ backup \in [Helper -> File] /\ exe \in File
      /\ OneThread /\ Sane /\ faults \in Nat /\ cuts \in Nat
  BY Numbers, HelperOwn DEF Ordinary, OneHelper, Safe, Sane, TypeOK
<1>f. Fault => faults' # 0 /\ cuts' = cuts
  BY <1>0 DEF Fault
<1>1. CASE HelperGivesUp(h)
  BY <1>0, <1>f, <1>1, ExitVersions DEF HelperGivesUp, disk, process, bounds
<1>2. CASE StopService(h)
  <2>1. /\ hpc[h] = "stop" /\ hpc'[h] = "wait" /\ (service = "stopped" <=> service' = "stopped")
        /\ UNCHANGED <<exe, tmp, cfgVersion, current, pc, todo, job, from, backup, faults, cuts>>
    BY <1>0, <1>2 DEF StopService, HGoto, disk, bounds
  <2>2. Behind => Behind'
    BY <1>0, <2>1 DEF Behind, Alive
  <2>3. Recorded => Recorded'
    BY <1>0, <2>1 DEF Recorded
  <2>4. QED
    BY <2>1, <2>2, <2>3 DEF Versions
<1>3. CASE WaitStopped(h)
  <2>1. /\ hpc[h] = "wait" /\ hpc'[h] = "backup"
        /\ UNCHANGED <<exe, tmp, cfgVersion, service, current, pc, todo, job, from, backup, faults, cuts>>
    BY <1>0, <1>3 DEF WaitStopped, HGoto, disk, process, bounds
  <2>2. Behind => Behind'
    BY <1>0, <2>1 DEF Behind, Alive
  <2>3. Recorded => Recorded'
    BY <1>0, <2>1 DEF Recorded
  <2>4. QED
    BY <2>1, <2>2, <2>3 DEF Versions
<1>4. CASE BackUp(h)
  <2>1. /\ hpc[h] = "backup" /\ hpc'[h] = "copy" /\ backup'[h] = exe
        /\ UNCHANGED <<exe, tmp, cfgVersion, service, current, pc, todo, job, from, faults, cuts>>
    BY <1>0, <1>4 DEF BackUp, HGoto, disk, process, bounds
  <2>2. Behind => Behind'
    BY <1>0, <2>1 DEF Behind, Alive
  <2>3. Recorded => Recorded'
    BY <1>0, <2>1 DEF Recorded
  <2>4. QED
    BY <2>1, <2>2, <2>3 DEF Versions
<1>5. CASE CopyNew(h)
  <2>1. /\ hpc[h] = "copy" /\ hpc'[h] = "remove" /\ tmp' = Source(h)
        /\ UNCHANGED <<exe, cfgVersion, service, current, pc, todo, job, from, backup, faults, cuts>>
    BY <1>0, <1>5 DEF CopyNew, HGoto, process, bounds
  <2>2. Behind => Source(h) = Whole(job[h].build)
    BY <2>1 DEF Behind, Safe, Handed, StagedIntact, Source
  <2>3. Behind => Behind'
    BY <1>0, <2>1, <2>2 DEF Behind, Alive
  <2>4. Recorded => Recorded'
    BY <1>0, <2>1 DEF Recorded
  <2>5. QED
    BY <2>1, <2>3, <2>4 DEF Versions
<1>6. CASE Remove(h)
  <2>1. /\ hpc[h] = "remove" /\ hpc'[h] = "rename" /\ exe' \in {exe, NoFile}
        /\ UNCHANGED <<tmp, cfgVersion, service, current, pc, todo, job, from, backup, faults, cuts>>
    BY <1>0, <1>6 DEF Remove, HGoto, process, bounds
  <2>2. Behind => Behind'
    BY <1>0, <2>1 DEF Behind, Alive, NoFile
  <2>3. Recorded => Recorded'
    BY <1>0, <2>1 DEF Recorded
  <2>4. QED
    BY <2>1, <2>2, <2>3 DEF Versions
<1>7. CASE Rename(h)
  <2>1. /\ hpc[h] = "rename" /\ hpc'[h] = "unlink" /\ exe' = tmp
        /\ UNCHANGED <<cfgVersion, service, current, pc, todo, job, from, backup, faults, cuts>>
    BY <1>0, <1>7 DEF Rename, HGoto, process, bounds
  <2>2. Behind => Behind'
    BY <1>0, <2>1 DEF Behind, Alive, Whole
  <2>3. Recorded => Recorded'
    BY <1>0, <2>1 DEF Recorded
  <2>4. QED
    BY <2>1, <2>2, <2>3 DEF Versions
<1>8. CASE ReplaceFails(h) \/ StartFails(h)
  BY <1>8, NoFailure DEF Versions
<1>9. CASE Unlink(h)
  <2>1. hpc[h] = "unlink" /\ UNCHANGED <<exe, tmp, cfgVersion, service, current, pc, todo, faults, cuts>>
    BY <1>9 DEF Unlink, process, bounds
  <2>2. from[h] = "new" => hpc'[h] = "config" /\ UNCHANGED <<job, from, backup>>
    BY <1>0, <1>9 DEF Unlink, HGoto
  <2>3. Behind => Behind'
    BY <1>0, <2>1, <2>2 DEF Behind, Alive
  <2>4. Behind /\ Recorded => Recorded'
    BY <1>0, <2>1, <2>2 DEF Behind, Recorded
  <2>5. QED
    BY <2>1, <2>3, <2>4 DEF Versions
<1>10. CASE UpdateConfigVersion(h)
  <2>1. /\ hpc[h] = "config" /\ hpc'[h] = "cleanup" /\ cuts' = cuts
        /\ UNCHANGED <<exe, tmp, service, current, pc, todo, job, from, backup>>
        /\ faults' = 0 => faults = 0 /\ cfgVersion' = IF cfgVersion = TornConfig THEN TornConfig ELSE VersionOf[job[h].build]
    BY <1>0, <1>f, <1>10 DEF UpdateConfigVersion, HGoto, process, bounds
  <2>2. service = "stopped" /\ pc["main"] = "idle"
    BY <2>1 DEF Safe, Apart, Replacing, HelperLabel
  <2>3. VersionOf[job[h].build] \in Nat
    BY <1>0, <2>1, Metas DEF Sane, BuildInHand
  <2>4. Behind /\ faults' = 0 => Behind'
    <3>1. cfgVersion' <= VersionOf[job[h].build] \/ faults' # 0
      BY <2>1, <2>3 DEF TornConfig
    <3>2. QED
      BY <1>0, <2>1, <2>2, <3>1 DEF Behind, Alive, Whole
  <2>5. Recorded /\ faults' = 0 => Recorded'
    BY <1>0, <2>1, <2>2, <2>3 DEF Recorded, TornConfig
  <2>6. QED
    BY <2>1, <2>4, <2>5 DEF Versions
<1>11. CASE CleanUp(h)
  <2>1. /\ hpc[h] = "cleanup" /\ hpc'[h] = "start"
        /\ UNCHANGED <<exe, tmp, cfgVersion, service, current, pc, todo, job, from, backup, faults, cuts>>
    BY <1>0, <1>11 DEF CleanUp, HGoto, process, bounds
  <2>2. Behind => Behind'
    BY <1>0, <2>1 DEF Behind, Alive
  <2>3. Recorded => Recorded'
    BY <1>0, <2>1 DEF Recorded
  <2>4. QED
    BY <2>1, <2>2, <2>3 DEF Versions
<1>12. CASE StartService(h)
  <2>1. faults = 0 => hpc[h] = "start"
    BY <1>12 DEF StartService, Versions, Behind
  <2>2. QED
    BY <1>0, <1>12, <2>1, ExitVersions DEF StartService, Started, disk, bounds
<1>13. QED
  BY <1>1, <1>2, <1>3, <1>4, <1>5, <1>6, <1>7, <1>8, <1>9, <1>10, <1>11, <1>12 DEF HelperStep

LEMMA VersionsStep == ASSUME Ordinary PROVE Safe /\ Versions /\ [Next]_vars => Versions'
<1> SUFFICES ASSUME Safe, Versions, [Next]_vars PROVE Versions'
  OBVIOUS
<1>1. Safe'
  BY SafeStep DEF Ordinary
<1>2. Known'
  BY KnownStep DEF Safe, Versions
<1>3. CASE UNCHANGED vars
  BY <1>2, <1>3 DEF Versions, vars, disk, process, helpers, bounds, Behind, Recorded, Alive
<1>4. CASE Next
  BY <1>1, <1>2, <1>4, ThreadVersions, ProcessVersions, HelperVersions DEF Next
<1>5. QED
  BY <1>3, <1>4

LEMMA VersionsAlways == ASSUME Ordinary PROVE Spec => [](Safe /\ Versions)
<1>1. OneThread
  BY DEF Ordinary
<1>2. Init => Safe /\ Versions
  BY <1>1, SafeInit, VersionsInit
<1>3. Safe /\ Versions /\ [Next]_vars => (Safe /\ Versions)'
  BY <1>1, SafeStep, VersionsStep
<1>4. QED
  BY <1>2, <1>3, PTL DEF Spec

\* Without the WebSocket goroutine, with versions that can be parsed and no offer
\* that forces an older build, config.yaml never claims more than is installed,
\* as long as no call fails and whenever the power is cut.
THEOREM NeverAhead == Ordinary => (Spec => []VersionNotAhead)
<1> SUFFICES ASSUME Ordinary PROVE Spec => []VersionNotAhead
  OBVIOUS
<1>1. Versions => VersionNotAhead
  BY DEF Versions, Behind, VersionNotAhead
<1>2. QED
  BY <1>1, VersionsAlways, PTL

\* Under the same conditions no replacement steps back to a version that is no
\* newer, as long as nothing was cut: the version the agent compared with is that
\* of the executable the helper backs up.
THEOREM NoStepBack == Ordinary => (Spec => NeverStepsBackUnharmed)
<1> SUFFICES ASSUME Ordinary PROVE Spec => NeverStepsBackUnharmed
  OBVIOUS
<1>1. ASSUME Safe, Versions, faults = 0, cuts = 0, NEW h \in Helper, StepsBack(h) PROVE FALSE
  <2>1. hpc[h] = "rename" /\ ~job[h].force /\ Behind /\ Recorded
    BY <1>1 DEF StepsBack, Rename, Versions
  <2>2. /\ tmp.build = job[h].build /\ VersionOf[job[h].build] > cfgVersion
        /\ VersionOf[backup[h].build] = cfgVersion
    BY <2>1 DEF Behind, Recorded, Whole
  <2>3. backup[h].part = "whole" /\ backup[h] \in File /\ job[h] \in Offer
    BY <1>1, <2>1 DEF StepsBack, Safe, Sane, TypeOK, BuildInHand
  <2>4. backup[h].build \in Build /\ job[h].build \in Build
    BY <2>3, Metas DEF File, NoFile, Mixed, Whole, Part
  <2>5. VersionOf[tmp.build] # 0 /\ VersionOf[backup[h].build] # 0
    BY <2>2, <2>4 DEF Ordinary, VersionsParsed
  <2>6. Newer(VersionOf[tmp.build], VersionOf[backup[h].build])
    BY <2>2, <2>5 DEF Newer
  <2>7. QED
    BY <1>1, <2>6 DEF StepsBack
<1>2. Safe /\ Versions /\ [Next]_vars => [faults = 0 /\ cuts = 0 => \A h \in Helper : ~StepsBack(h)]_vars
  BY <1>1
<1>3. QED
  BY <1>2, VersionsAlways, PTL DEF Spec, NeverStepsBackUnharmed

-----------------------------------------------------------------------------
(* How far a helper is, for any goroutines and helpers *)

\* Only a helper that never failed is at these labels.
FirstWay == {"stop", "wait", "backup", "config", "cleanup", "start"}

OnFirstWay == \A h \in Helper : hpc[h] \in FirstWay => from[h] = "new"

\* The steps that are left to helper h at most: after a failure the backup is
\* put back, after a failed start it is started as well.
Ahead == [none |-> 0, restart |-> 1, unlink |-> 2, rename |-> 3, remove |-> 4, copy |-> 5,
          start |-> 6, cleanup |-> 7, config |-> 8, backup |-> 13, wait |-> 14, stop |-> 15]

StepsLeft(h) ==
  IF from[h] = "new" /\ hpc[h] \in {"unlink", "rename", "remove", "copy"}
    THEN Ahead[hpc[h]] + 7
    ELSE Ahead[hpc[h]]

\* A helper goes on with each of its steps, and nothing else moves it but its
\* start and a power cut.
HelperAdvances ==
  [][\A h \in Helper : \/ HelperStep(h) /\ StepsLeft(h)' < StepsLeft(h)
                       \/ StepsLeft(h)' = StepsLeft(h)
                       \/ hpc[h] = "none" \/ hpc'[h] = "none"]_vars

LEMMA FirstWayInit == Init => OnFirstWay
  BY DEF Init, OnFirstWay, FirstWay

\* What a step of a goroutine or of the process leaves of the helpers.
LEMMA HelpersElsewhere ==
  ASSUME Sane, [Next]_vars, \A h \in Helper : ~HelperStep(h)
  PROVE  \/ UNCHANGED <<hpc, from>>
         \/ \A h \in Helper : hpc'[h] = "none"
         \/ \E h \in Helper : /\ hpc[h] = "none"
                              /\ hpc' = [hpc EXCEPT ![h] = "stop"]
                              /\ from' = [from EXCEPT ![h] = "new"]
<1>1. ASSUME NEW th \in Thread, UpdateStep(th), ~Spawn(th) PROVE UNCHANGED <<hpc, from>>
  BY <1>1 DEF UpdateStep, Apply, SpawnFails, Stage, OpenWhole, OpenRest, RangeRefused, Copy, Check,
              WriteMeta, WriteMetaFails, helpers
<1>2. QED
  BY <1>1 DEF Next, Spawn, QueueEmpty, TasksQueued, Receive, DownloadFails, BroadcastRestart,
              MainReturns, ProcessEnds, Killed, PowerCut, vars, helpers

LEMMA FirstWayStep == Sane /\ OnFirstWay /\ [Next]_vars => OnFirstWay'
<1> SUFFICES ASSUME Sane, OnFirstWay, [Next]_vars PROVE OnFirstWay'
  OBVIOUS
<1>0. /\ hpc \in [Helper -> HelperLabel]
      /\ from \in [Helper -> {"new", "backup", "rollback"}]
  BY DEF Sane, TypeOK
<1>1. ASSUME NEW h \in Helper, HelperStep(h) PROVE OnFirstWay'
  <2>1. hpc'[h] \in FirstWay => from'[h] = "new"
    BY <1>0, <1>1 DEF OnFirstWay, FirstWay, HelperStep, HelperGivesUp, StopService, WaitStopped, BackUp,
           CopyNew, Remove, Rename, ReplaceFails, Unlink, UpdateConfigVersion, CleanUp,
           StartService, StartFails, Exit, HGoto
  <2>2. QED
    BY <1>1, <2>1, HelperOwn DEF OnFirstWay
<1>2. CASE \A h \in Helper : ~HelperStep(h)
  BY <1>0, <1>2, HelpersElsewhere DEF OnFirstWay, FirstWay
<1>3. QED
  BY <1>1, <1>2

LEMMA HelperAdvance ==
  ASSUME Sane, OnFirstWay, NEW h \in Helper, HelperStep(h)
  PROVE  StepsLeft(h)' < StepsLeft(h)
<1>0. /\ hpc \in [Helper -> HelperLabel]
      /\ from \in [Helper -> {"new", "backup", "rollback"}]
      /\ hpc[h] \in FirstWay => from[h] = "new"
  BY DEF Sane, TypeOK, OnFirstWay
<1>1. CASE Exit(h)
  <2>1. hpc[h] # "none" /\ hpc'[h] = "none"
    BY <1>0, <1>1, HelperOwn DEF Exit, HGoto
  <2>2. QED
    BY <1>0, <2>1 DEF StepsLeft, Ahead, HelperLabel
<1>2. CASE ~Exit(h)
  BY <1>0, <1>2 DEF FirstWay, StepsLeft, Ahead, HelperStep, HelperGivesUp, StopService, WaitStopped,
         BackUp, CopyNew, Remove, Rename, ReplaceFails, Unlink, UpdateConfigVersion, CleanUp,
         StartService, StartFails, HGoto
<1>3. QED
  BY <1>1, <1>2

\* The safety half of HelpersEnd, for any goroutines and helpers and whatever
\* fails: every step of a helper brings it nearer to its end, and nobody sends
\* it back.  A helper makes at most fifteen steps.
THEOREM HelpersAdvance == Spec => HelperAdvances
<1>1. Init => Sane /\ OnFirstWay
  BY SaneInit, FirstWayInit
<1>2. Sane /\ OnFirstWay /\ [Next]_vars => (Sane /\ OnFirstWay)'
  BY SaneStep, FirstWayStep
<1>3. ASSUME Sane, OnFirstWay, [Next]_vars, NEW h \in Helper
      PROVE  \/ HelperStep(h) /\ StepsLeft(h)' < StepsLeft(h)
             \/ StepsLeft(h)' = StepsLeft(h)
             \/ hpc[h] = "none" \/ hpc'[h] = "none"
  <2>1. CASE HelperStep(h)
    BY <1>3, <2>1, HelperAdvance
  <2>2. ASSUME NEW g \in Helper \ {h}, HelperStep(g) PROVE StepsLeft(h)' = StepsLeft(h)
    BY <1>3, <2>2, HelperOwn DEF StepsLeft
  <2>3. CASE \A g \in Helper : ~HelperStep(g)
    BY <1>3, <2>3, HelpersElsewhere DEF StepsLeft, Sane, TypeOK
  <2>4. QED
    BY <2>1, <2>2, <2>3
<1>4. Sane /\ OnFirstWay /\ [Next]_vars =>
        [\A h \in Helper : \/ HelperStep(h) /\ StepsLeft(h)' < StepsLeft(h)
                           \/ StepsLeft(h)' = StepsLeft(h)
                           \/ hpc[h] = "none" \/ hpc'[h] = "none"]_vars
  BY <1>3
<1>5. QED
  BY <1>1, <1>2, <1>4, PTL DEF Spec, HelperAdvances

=============================================================================
