---------------------------- MODULE SelfUpdate ----------------------------
(***************************************************************************)
(* The self-update of the agent: StageIfNeeded and ApplyIfPending of       *)
(* internal/updater with the downloader under them, their callers in       *)
(* cmd/service/core.go (the main loop on a heartbeat answer, the WebSocket *)
(* goroutine in applySelfUpdateChanges), the restart request, and          *)
(* cmd/update-helper, a process of its own that stops the service,         *)
(* replaces its executable and starts it again.                            *)
(*                                                                         *)
(* An action is one file operation, one call to the service manager or one *)
(* HTTP request; two goroutines, the helpers, a kill of the service and a  *)
(* power cut interleave between them.                                      *)
(***************************************************************************)
EXTENDS Integers, FiniteSets

CONSTANTS
  Build,        \* the executables that exist, by content (never 0)
  VersionOf,    \* the version a build is published as; 0 cannot be parsed
  FirstBuild,   \* what the installer installed
  Offers,       \* the update settings the server may send
  Thread,       \* "main", and "ws" when the WebSocket is enabled
  Helper,       \* the update helpers that may run at one time
  Ranges,       \* the server ignores Range headers, or honours them: then it
                \* answers a range at the end of the file with 416
  MaxFaults,    \* bound: calls to the OS that fail
  MaxCuts,      \* bound: kills of the service and power cuts
  MaxRestarts   \* bound: restarts that the server broadcasts

Offer == [build : Build, force : BOOLEAN]

ASSUME BuildAssumption == FirstBuild \in Build /\ 0 \notin Build
ASSUME VersionAssumption == VersionOf \in [Build -> Nat]
ASSUME OfferAssumption == Offers \subseteq Offer
ASSUME ThreadAssumption == Thread \in {{"main"}, {"main", "ws"}}
ASSUME RangeAssumption == Ranges \in {"ignored", "honoured"}
ASSUME BoundAssumption == MaxFaults \in Nat /\ MaxCuts \in Nat /\ MaxRestarts \in Nat

VARIABLES          \* on disk
  exe,        \* the service executable
  tmp,        \* the same path with .new: replaceFile copies here, then renames
  staged,     \* agent-update-<version>.exe in download.temp_dir
  meta,       \* pending_update.json
  cfgVersion  \* agent.version in config.yaml

VARIABLES          \* the service process
  service,    \* what the service manager says: running, stopping, stopped
  current,    \* cfg.Agent.Version, read when the process started
  pc,         \* where each goroutine is in the update code
  offer,      \* the settings a goroutine works on
  base,       \* the staged file as DownloadFileWithMeta found it
  todo,       \* the metadata ApplyIfPending has read
  again,      \* applySelfUpdateChanges is at its second ApplyIfPending
  restart     \* restartRequestCh holds a request

VARIABLES          \* the update helpers
  hpc,        \* where each helper is
  job,        \* its arguments: the metadata it was started for
  from,       \* what it puts in place: new, or its backup after an error of
              \* replaceFile (backup) or of the start (rollback)
  backup      \* its copy of the executable it replaces

VARIABLES faults, cuts, restarts   \* how often each bounded thing happened

disk    == <<exe, tmp, staged, meta, cfgVersion>>
process == <<service, current, pc, offer, base, todo, again, restart>>
helpers == <<hpc, job, from, backup>>
bounds  == <<faults, cuts, restarts>>
vars    == <<disk, process, helpers, bounds>>

\* A file: whole, a part, or a mixture that is no build at all.
NoFile   == [build |-> 0, part |-> "none"]
Mixed    == [build |-> 0, part |-> "mixed"]
Whole(b) == [build |-> b, part |-> "whole"]
Part(b)  == [build |-> b, part |-> "part"]
File     == {NoFile, Mixed} \cup {Whole(b) : b \in Build} \cup {Part(b) : b \in Build}

NoMeta   == [build |-> 0, force |-> FALSE]
TornMeta == [build |-> 0, force |-> TRUE]    \* cut off while it was written
Meta     == Offer \cup {NoMeta, TornMeta}
NoOffer  == NoMeta

TornConfig == -1
Version == {VersionOf[b] : b \in Build}

\* (mutant) The comparison the wrong way round.
NewerSwapped(target, other) ==
  IF target = 0 \/ other = 0 THEN target # other ELSE target < other

\* isNewerVersion: numbers if both can be parsed, else any difference counts.
Newer(target, other) ==
  IF target = 0 \/ other = 0 THEN target # other ELSE target > other

\* (mutant) Any other version is wanted, an older one too.
WantedOther(o) == o.build # 0 /\ (o.force \/ VersionOf[o.build] # current)

\* The condition of StageIfNeeded and of ApplyIfPending.
Wanted(o) == o.build # 0 /\ (o.force \/ Newer(VersionOf[o.build], current))

ThreadLabel == {"idle", "apply", "spawn", "stage", "open", "truncated", "appending",
                "check", "writeMeta", "returned"}
HelperLabel == {"none", "stop", "wait", "backup", "copy", "remove", "rename", "unlink",
                "config", "cleanup", "start", "restart"}

NoThreads ==
  /\ pc' = [th \in Thread |-> "idle"]
  /\ offer' = [th \in Thread |-> NoOffer]
  /\ base' = [th \in Thread |-> NoFile]
  /\ todo' = [th \in Thread |-> NoMeta]
  /\ again' = FALSE
  /\ restart' = FALSE

Init ==
  /\ exe = Whole(FirstBuild)
  /\ tmp = NoFile
  /\ staged = [v \in Version |-> NoFile]
  /\ meta = NoMeta
  /\ cfgVersion = VersionOf[FirstBuild]
  /\ service = "running"
  /\ current = VersionOf[FirstBuild]
  /\ pc = [th \in Thread |-> "idle"]
  /\ offer = [th \in Thread |-> NoOffer]
  /\ base = [th \in Thread |-> NoFile]
  /\ todo = [th \in Thread |-> NoMeta]
  /\ again = FALSE
  /\ restart = FALSE
  /\ hpc = [h \in Helper |-> "none"]
  /\ job = [h \in Helper |-> NoMeta]
  /\ from = [h \in Helper |-> "new"]
  /\ backup = [h \in Helper |-> NoFile]
  /\ faults = 0 /\ cuts = 0 /\ restarts = 0

-----------------------------------------------------------------------------
(* The goroutines of the service *)

Alive == service # "stopped"

Goto(th, label) == pc' = [pc EXCEPT ![th] = label]

\* The call returns to the select of the main loop, or to the read loop.
Done(th) ==
  /\ Goto(th, "idle")
  /\ offer' = [offer EXCEPT ![th] = NoOffer]
  /\ base' = [base EXCEPT ![th] = NoFile]
  /\ todo' = [todo EXCEPT ![th] = NoMeta]
  /\ again' = IF th = "ws" THEN FALSE ELSE again

\* A heartbeat answer or a WebSocket message comes with update settings, or
\* without.  While tasks are queued ApplyIfPending is skipped.
Receive(th, o, label) ==
  /\ Alive /\ pc[th] = "idle"
  /\ Goto(th, label)
  /\ offer' = [offer EXCEPT ![th] = o]
  /\ UNCHANGED <<disk, service, current, base, todo, again, restart, helpers, bounds>>

QueueEmpty(th, o) == Receive(th, o, "apply")
TasksQueued(th, o) == Receive(th, o, "stage")

\* What follows an ApplyIfPending that did not start the helper.
Applied(th) ==
  IF again /\ th = "ws" THEN Done(th)
  ELSE Goto(th, "stage") /\ UNCHANGED <<offer, base, todo, again>>

StagedIntact(m) == staged[VersionOf[m.build]] = Whole(m.build)

\* (mutant) The staged file is not verified again.
ApplyUnverified(th) ==
  /\ Alive /\ pc[th] = "apply"
  /\ IF Wanted(meta) /\ staged[VersionOf[meta.build]] # NoFile
       THEN /\ Goto(th, "spawn")
            /\ todo' = [todo EXCEPT ![th] = meta]
            /\ UNCHANGED <<offer, base, again>>
       ELSE Applied(th)
  /\ UNCHANGED <<disk, service, current, restart, helpers, bounds>>

\* ApplyIfPending up to the second check of the hash.
Apply(th) ==
  /\ Alive /\ pc[th] = "apply"
  /\ IF Wanted(meta) /\ StagedIntact(meta)
       THEN /\ Goto(th, "spawn")
            /\ todo' = [todo EXCEPT ![th] = meta]
            /\ UNCHANGED <<offer, base, again>>
       ELSE Applied(th)
  /\ UNCHANGED <<disk, service, current, restart, helpers, bounds>>

\* The helper is started; the main loop returns, the WebSocket goroutine asks
\* it to.
Spawn(th) ==
  /\ Alive /\ pc[th] = "spawn"
  /\ \E h \in Helper :
       /\ hpc[h] = "none"
       /\ hpc' = [hpc EXCEPT ![h] = "stop"]
       /\ job' = [job EXCEPT ![h] = todo[th]]
       /\ from' = [from EXCEPT ![h] = "new"]
  /\ IF th = "main"
       THEN Goto(th, "returned") /\ UNCHANGED <<offer, base, todo, again, restart>>
       ELSE Done(th) /\ restart' = TRUE
  /\ UNCHANGED <<disk, service, current, backup, bounds>>

Fault == faults < MaxFaults /\ faults' = faults + 1 /\ UNCHANGED <<cuts, restarts>>

\* The helper cannot be started, or the bound on helpers is reached.
SpawnFails(th) ==
  /\ Alive /\ pc[th] = "spawn"
  /\ \/ Fault
     \/ (\A h \in Helper : hpc[h] # "none") /\ UNCHANGED bounds
  /\ Applied(th)
  /\ UNCHANGED <<disk, service, current, restart, helpers>>

\* StageIfNeeded returned without an error: the WebSocket goroutine applies once
\* more, unless tasks are queued.
Staged(th) ==
  \/ Done(th)
  \/ th = "ws" /\ again' = TRUE /\ Goto(th, "apply") /\ UNCHANGED <<offer, base, todo>>

Path(th) == VersionOf[offer[th].build]

\* StageIfNeeded, and DownloadFileWithMeta up to its request: a file that is
\* there already makes it ask for the rest.
Stage(th) ==
  /\ Alive /\ pc[th] = "stage"
  /\ IF Wanted(offer[th])
       THEN /\ Goto(th, "open")
            /\ base' = [base EXCEPT ![th] = staged[Path(th)]]
            /\ UNCHANGED <<offer, todo, again>>
       ELSE Staged(th)
  /\ UNCHANGED <<disk, service, current, restart, helpers, bounds>>

\* The server sends the whole file, asked for no range or ignoring it: the file
\* is opened with O_TRUNC.  A part may be empty, and then no range is asked for.
OpenWhole(th) ==
  /\ Alive /\ pc[th] = "open"
  /\ Ranges = "ignored" \/ base[th].part \in {"none", "part"}
  /\ Goto(th, "truncated")
  /\ staged' = [staged EXCEPT ![Path(th)] = Part(offer[th].build)]
  /\ UNCHANGED <<exe, tmp, meta, cfgVersion, service, current, offer, base, todo, again,
                 restart, helpers, bounds>>

\* The server sends the rest, or 416 when there is none: the file is opened with
\* O_APPEND.  Behind anything but a part of the same build the rest is garbage.
OpenRest(th) ==
  /\ Alive /\ pc[th] = "open"
  /\ Ranges = "honoured" /\ base[th] \notin {NoFile, Whole(offer[th].build)}
  /\ Goto(th, "appending")
  /\ LET b == offer[th].build
     IN staged' = [staged EXCEPT ![Path(th)] =
                     IF @ = Part(b) /\ base[th] = Part(b) THEN Part(b) ELSE Mixed]
  /\ UNCHANGED <<exe, tmp, meta, cfgVersion, service, current, offer, base, todo, again,
                 restart, helpers, bounds>>

\* A range at the end of the file: 416.
RangeRefused(th) ==
  /\ Alive /\ pc[th] = "open"
  /\ Ranges = "honoured" /\ base[th] = Whole(offer[th].build)
  /\ Done(th)
  /\ UNCHANGED <<disk, service, current, restart, helpers, bounds>>

\* The request or the copy fails: StageIfNeeded returns the error.
DownloadFails(th) ==
  /\ Alive /\ pc[th] \in {"open", "truncated", "appending"}
  /\ Done(th)
  /\ UNCHANGED <<disk, service, current, restart, helpers, bounds>>

\* Another goroutine is writing the same file.
Shared(th) ==
  \E other \in Thread \ {th} : /\ pc[other] \in {"truncated", "appending"}
                               /\ Path(other) = Path(th)

\* What the file is when the copy has ended.  Another goroutine that opened it
\* meanwhile may have cut it, or have added to it.
Copied(th) ==
  LET b         == offer[th].build
      file      == staged[Path(th)]
      disturbed == (Shared(th) \/ file # Part(b)) /\ file # Whole(b)
  IN IF pc[th] = "truncated" THEN (IF disturbed THEN {Whole(b), Mixed} ELSE {Whole(b)})
     ELSE IF file # Part(b) THEN {Mixed}
     ELSE IF Thread = {th} THEN {Whole(b)} ELSE {Whole(b), Mixed}

Copy(th) ==
  /\ Alive /\ pc[th] \in {"truncated", "appending"}
  /\ Goto(th, "check")
  /\ \E file \in Copied(th) : staged' = [staged EXCEPT ![Path(th)] = file]
  /\ UNCHANGED <<exe, tmp, meta, cfgVersion, service, current, offer, base, todo, again,
                 restart, helpers, bounds>>

\* VerifyFileHash after the download; a file with another hash is removed,
\* which Windows refuses while it is open elsewhere.
Check(th) ==
  /\ Alive /\ pc[th] = "check"
  /\ IF StagedIntact(offer[th])
       THEN Goto(th, "writeMeta") /\ UNCHANGED <<staged, offer, base, todo, again>>
       ELSE /\ Done(th)
            /\ staged' = IF Shared(th) THEN staged ELSE [staged EXCEPT ![Path(th)] = NoFile]
  /\ UNCHANGED <<exe, tmp, meta, cfgVersion, service, current, restart, helpers, bounds>>

WriteMeta(th) ==
  /\ Alive /\ pc[th] = "writeMeta"
  /\ meta' = offer[th]
  /\ Staged(th)
  /\ UNCHANGED <<exe, tmp, staged, cfgVersion, service, current, restart, helpers, bounds>>

\* os.WriteFile empties the file before it writes.
WriteMetaFails(th) ==
  /\ Alive /\ pc[th] = "writeMeta" /\ Fault
  /\ meta' \in {meta, TornMeta}
  /\ Done(th)
  /\ UNCHANGED <<exe, tmp, staged, cfgVersion, service, current, restart, helpers>>

\* server.broadcast.restart: requestRestart.
BroadcastRestart ==
  /\ Alive /\ "ws" \in Thread /\ pc["ws"] = "idle"
  /\ restarts < MaxRestarts
  /\ restarts' = restarts + 1
  /\ restart' = TRUE
  /\ UNCHANGED <<disk, service, current, pc, offer, base, todo, again, helpers, faults, cuts>>

\* The main loop takes the restart request or sees the context done.
MainReturns ==
  /\ Alive /\ pc["main"] = "idle"
  /\ restart \/ service = "stopping"
  /\ Goto("main", "returned")
  /\ UNCHANGED <<disk, service, current, offer, base, todo, again, restart, helpers, bounds>>

\* The process is gone, whatever its goroutines were doing.
Gone ==
  /\ service' = "stopped"
  /\ current' = 0
  /\ NoThreads
  /\ \/ meta' = meta
     \/ \E th \in Thread : pc[th] = "writeMeta" /\ meta' \in {TornMeta, offer[th]}

\* runAgent returned, Execute returns, the service manager sees it stopped.  No
\* recovery action starts it again.
ProcessEnds ==
  /\ Alive /\ pc["main"] = "returned"
  /\ Gone
  /\ UNCHANGED <<exe, tmp, staged, cfgVersion, helpers, bounds>>

-----------------------------------------------------------------------------
(* The update helper *)

HGoto(h, label) == hpc' = [hpc EXCEPT ![h] = label]

\* The helper process ends.
Exit(h) ==
  /\ HGoto(h, "none")
  /\ job' = [job EXCEPT ![h] = NoMeta]
  /\ from' = [from EXCEPT ![h] = "new"]
  /\ backup' = [backup EXCEPT ![h] = NoFile]

\* (mutant) The wait for the stop has no deadline.
HelperWaitsOn(h) ==
  /\ \/ hpc[h] \in {"stop", "backup"} /\ Fault
     \/ hpc[h] = "backup" /\ exe = NoFile /\ UNCHANGED bounds
  /\ Exit(h)
  /\ UNCHANGED <<disk, process>>

\* Fatalf before anything was replaced: no service manager, no stop before the
\* deadline, no backup.  A service that another helper has started again does
\* not stop for this one.
HelperGivesUp(h) ==
  /\ \/ /\ hpc[h] \in {"stop", "backup"} \/ (hpc[h] = "wait" /\ service = "stopping")
        /\ Fault
     \/ hpc[h] = "wait" /\ service = "running" /\ UNCHANGED bounds
     \/ hpc[h] = "backup" /\ exe = NoFile /\ UNCHANGED bounds
  /\ Exit(h)
  /\ UNCHANGED <<disk, process>>

\* (mutant) The error of a stop request to a service that has stopped is fatal.
StopServiceStrict(h) ==
  /\ hpc[h] = "stop"
  /\ IF service = "stopped" THEN Exit(h)
                            ELSE HGoto(h, "wait") /\ UNCHANGED <<job, from, backup>>
  /\ service' = IF service = "running" THEN "stopping" ELSE service
  /\ UNCHANGED <<disk, current, pc, offer, base, todo, again, restart, bounds>>

\* The error of the stop request is ignored: the service may have stopped by itself.
StopService(h) ==
  /\ hpc[h] = "stop"
  /\ HGoto(h, "wait")
  /\ service' = IF service = "running" THEN "stopping" ELSE service
  /\ UNCHANGED <<disk, current, pc, offer, base, todo, again, restart, job, from, backup, bounds>>

WaitStopped(h) ==
  /\ hpc[h] = "wait" /\ service = "stopped"
  /\ HGoto(h, "backup")
  /\ UNCHANGED <<disk, process, job, from, backup, bounds>>

\* (mutant) The version is recorded before the executable is replaced.
BackUpAndRecord(h) ==
  /\ hpc[h] = "backup" /\ exe # NoFile
  /\ HGoto(h, "copy")
  /\ backup' = [backup EXCEPT ![h] = exe]
  /\ cfgVersion' = IF cfgVersion = TornConfig THEN TornConfig ELSE VersionOf[job[h].build]
  /\ UNCHANGED <<exe, tmp, staged, meta, process, job, from, bounds>>

BackUp(h) ==
  /\ hpc[h] = "backup" /\ exe # NoFile
  /\ HGoto(h, "copy")
  /\ backup' = [backup EXCEPT ![h] = exe]
  /\ UNCHANGED <<disk, process, job, from, bounds>>

Source(h) == IF from[h] = "new" THEN staged[VersionOf[job[h].build]] ELSE backup[h]

\* replaceFile: copy to .new, remove the executable, rename.
CopyNew(h) ==
  /\ hpc[h] = "copy" /\ Source(h) # NoFile
  /\ HGoto(h, "remove")
  /\ tmp' = Source(h)
  /\ UNCHANGED <<exe, staged, meta, cfgVersion, process, job, from, backup, bounds>>

\* An executable that runs can be neither removed nor renamed over.
Remove(h) ==
  /\ hpc[h] = "remove"
  /\ HGoto(h, "rename")
  /\ exe' = IF service = "stopped" THEN NoFile ELSE exe
  /\ UNCHANGED <<tmp, staged, meta, cfgVersion, process, job, from, backup, bounds>>

Rename(h) ==
  /\ hpc[h] = "rename" /\ tmp # NoFile /\ service = "stopped"
  /\ HGoto(h, "unlink")
  /\ exe' = tmp
  /\ tmp' = NoFile
  /\ UNCHANGED <<staged, meta, cfgVersion, process, job, from, backup, bounds>>

\* An error of replaceFile: the new file gives way to the backup; the backup's
\* own error is ignored.
ReplaceFails(h) ==
  /\ \/ hpc[h] = "copy" /\ Source(h) = NoFile /\ UNCHANGED <<tmp, bounds>>
     \/ hpc[h] = "rename" /\ (tmp = NoFile \/ service # "stopped") /\ UNCHANGED <<tmp, bounds>>
     \/ hpc[h] = "copy" /\ Fault /\ tmp' \in {tmp, Mixed}
     \/ hpc[h] = "rename" /\ Fault /\ UNCHANGED tmp
  /\ \/ /\ from[h] = "new"
        /\ from' = [from EXCEPT ![h] = "backup"]
        /\ HGoto(h, "copy")
        /\ UNCHANGED <<job, backup>>
     \/ from[h] = "backup" /\ Exit(h)
     \/ from[h] = "rollback" /\ HGoto(h, "restart") /\ UNCHANGED <<job, from, backup>>
  /\ UNCHANGED <<exe, staged, meta, cfgVersion, process>>

\* The source is removed once it is in place.
Unlink(h) ==
  /\ hpc[h] = "unlink"
  /\ \/ /\ from[h] = "new"
        /\ staged' = [staged EXCEPT ![VersionOf[job[h].build]] = NoFile]
        /\ HGoto(h, "config")
        /\ UNCHANGED <<job, from, backup>>
     \/ from[h] = "backup" /\ Exit(h) /\ UNCHANGED staged
     \/ /\ from[h] = "rollback"
        /\ backup' = [backup EXCEPT ![h] = NoFile]
        /\ HGoto(h, "restart")
        /\ UNCHANGED <<staged, job, from>>
  /\ UNCHANGED <<exe, tmp, meta, cfgVersion, process, bounds>>

\* updateConfigVersion, which empties the file before it writes; an error is only
\* a warning.
UpdateConfigVersion(h) ==
  /\ hpc[h] = "config"
  /\ HGoto(h, "cleanup")
  /\ \/ /\ cfgVersion' = IF cfgVersion = TornConfig THEN TornConfig ELSE VersionOf[job[h].build]
        /\ UNCHANGED bounds
     \/ cfgVersion' \in {cfgVersion, TornConfig} /\ Fault
  /\ UNCHANGED <<exe, tmp, staged, meta, process, job, from, backup>>

CleanUp(h) ==
  /\ hpc[h] = "cleanup"
  /\ HGoto(h, "start")
  /\ meta' = NoMeta
  /\ UNCHANGED <<exe, tmp, staged, cfgVersion, process, job, from, backup, bounds>>

\* The service manager starts a whole executable; the agent ends at once when
\* its config cannot be read.
Startable == service = "stopped" /\ exe.part = "whole"

\* (mutant) The agent runs on although its config cannot be read.
StartedAnyway == service' = "running" /\ current' = cfgVersion

Started ==
  /\ service' = IF cfgVersion = TornConfig THEN "stopped" ELSE "running"
  /\ current' = IF cfgVersion = TornConfig THEN 0 ELSE cfgVersion

StartService(h) ==
  /\ hpc[h] \in {"start", "restart"} /\ Startable
  /\ Started
  /\ Exit(h)
  /\ UNCHANGED <<disk, pc, offer, base, todo, again, restart, bounds>>

\* The service does not start: the backup is put back and started.
StartFails(h) ==
  /\ hpc[h] \in {"start", "restart"}
  /\ \/ Fault
     \/ ~Startable /\ UNCHANGED bounds
  /\ \/ /\ hpc[h] = "start"
        /\ from' = [from EXCEPT ![h] = "rollback"]
        /\ HGoto(h, "copy")
        /\ UNCHANGED <<job, backup>>
     \/ hpc[h] = "restart" /\ Exit(h)
  /\ UNCHANGED <<disk, process>>

-----------------------------------------------------------------------------

Cut == cuts < MaxCuts /\ cuts' = cuts + 1 /\ UNCHANGED <<faults, restarts>>

\* The service process is killed or panics.
Killed ==
  /\ Alive /\ Cut
  /\ Gone
  /\ UNCHANGED <<exe, tmp, staged, cfgVersion, helpers>>

\* The power fails, with config.yaml or pending_update.json half written, and
\* Windows starts the service if there is an executable.
PowerCut ==
  /\ Cut
  /\ \/ cfgVersion' = cfgVersion
     \/ \E h \in Helper : /\ hpc[h] = "config"
                          /\ cfgVersion' \in {TornConfig, VersionOf[job[h].build]}
  /\ \/ meta' = meta
     \/ \E th \in Thread : pc[th] = "writeMeta" /\ meta' \in {TornMeta, offer[th]}
  /\ NoThreads
  /\ hpc' = [h \in Helper |-> "none"]
  /\ job' = [h \in Helper |-> NoMeta]
  /\ from' = [h \in Helper |-> "new"]
  /\ backup' = [h \in Helper |-> NoFile]
  /\ LET up == exe.part = "whole" /\ cfgVersion' # TornConfig
     IN /\ service' = IF up THEN "running" ELSE "stopped"
        /\ current' = IF up THEN cfgVersion' ELSE 0
  /\ UNCHANGED <<exe, tmp, staged>>

-----------------------------------------------------------------------------

UpdateStep(th) ==
  \/ Apply(th) \/ Spawn(th) \/ SpawnFails(th)
  \/ Stage(th) \/ OpenWhole(th) \/ OpenRest(th) \/ RangeRefused(th)
  \/ Copy(th) \/ Check(th)
  \/ WriteMeta(th) \/ WriteMetaFails(th)

HelperStep(h) ==
  \/ HelperGivesUp(h) \/ StopService(h) \/ WaitStopped(h) \/ BackUp(h)
  \/ CopyNew(h) \/ Remove(h) \/ Rename(h) \/ ReplaceFails(h) \/ Unlink(h)
  \/ UpdateConfigVersion(h) \/ CleanUp(h) \/ StartService(h) \/ StartFails(h)

Next ==
  \/ \E th \in Thread : \/ \E o \in Offers \cup {NoOffer} : QueueEmpty(th, o) \/ TasksQueued(th, o)
                        \/ UpdateStep(th)
                        \/ DownloadFails(th)
  \/ BroadcastRestart
  \/ MainReturns
  \/ ProcessEnds
  \/ \E h \in Helper : HelperStep(h)
  \/ Killed
  \/ PowerCut

Spec == Init /\ [][Next]_vars

\* Goroutines and helpers are scheduled, and the select of the main loop, which
\* picks at random among what is ready, does not pass over its end for ever.
Scheduling ==
  /\ \A th \in Thread : WF_vars(UpdateStep(th))
  /\ SF_vars(MainReturns)
  /\ WF_vars(ProcessEnds)
  /\ \A h \in Helper : WF_vars(HelperStep(h))

ScheduledSpec == Spec /\ Scheduling

-----------------------------------------------------------------------------

\* Every variable holds a value of its type.
TypeOK ==
  /\ exe \in File /\ tmp \in File
  /\ staged \in [Version -> File]
  /\ meta \in Meta
  /\ cfgVersion \in Version \cup {TornConfig}
  /\ service \in {"running", "stopping", "stopped"}
  /\ current \in Version \cup {0}
  /\ pc \in [Thread -> ThreadLabel]
  /\ offer \in [Thread -> Offers \cup {NoOffer}]
  /\ base \in [Thread -> File]
  /\ todo \in [Thread -> Meta]
  /\ again \in BOOLEAN /\ restart \in BOOLEAN
  /\ hpc \in [Helper -> HelperLabel]
  /\ job \in [Helper -> Meta]
  /\ from \in [Helper -> {"new", "backup", "rollback"}]
  /\ backup \in [Helper -> File]
  /\ faults \in 0..MaxFaults /\ cuts \in 0..MaxCuts /\ restarts \in 0..MaxRestarts

\* What the helper puts at the path of the service is a whole executable, after
\* downloads that were cut, resumed or repeated, and after errors of the helper.
\* No single call that fails leaves the service without one.
ExeIntact ==
  /\ exe.part \in {"none", "whole"}
  /\ faults <= 1 /\ cuts = 0 /\ (\A h \in Helper : hpc[h] = "none") => exe.part = "whole"

\* As long as no call fails, config.yaml never claims a version above that of
\* the executable, at whatever point the power is cut: an agent that does would
\* refuse the update it still needs.
VersionNotAhead ==
  faults = 0 /\ exe.part = "whole" => cfgVersion <= VersionOf[exe.build]

\* Helper h puts a version in place that is no newer than what it replaces,
\* although the offer was not forced.
StepsBack(h) ==
  /\ Rename(h) /\ from[h] = "new"
  /\ ~job[h].force
  /\ tmp.part = "whole" /\ backup[h].part = "whole"
  /\ ~Newer(VersionOf[tmp.build], VersionOf[backup[h].build])

\* internal/updater/apply.go:77: downgrades and no-ops are never applied, as long
\* as nothing has failed and no power was cut.
NeverStepsBackUnharmed ==
  [][faults = 0 /\ cuts = 0 => \A h \in Helper : ~StepsBack(h)]_vars

\* No two helpers are at work, and nobody writes to the staged file from the time
\* that it is verified to the end of the helper.
HelperAlone ==
  /\ \A h, k \in Helper : hpc[h] # "none" /\ hpc[k] # "none" => h = k
  /\ (\E h \in Helper : hpc[h] # "none") \/ (\E th \in Thread : pc[th] = "spawn")
       => \A th \in Thread : pc[th] \notin {"open", "truncated", "appending", "check"}

\* A service that is stopped while a helper is at work starts again, whatever
\* stopped it: the helper, the return of the main loop, a restart that the server
\* asked for.  That is so as long as no call fails, nothing is cut and HelperAlone
\* holds: a helper that meets an error before it has replaced the executable leaves
\* the service down.  Nothing is said of a service that stops while no helper is at
\* work: after a restart that the server asks for it ends with exit code 0
\* (service_windows.go:48) and is not started again.
ServiceComesBack ==
  []HelperAlone =>
    (service = "stopped" /\ (\E h \in Helper : hpc[h] # "none")
       ~> service = "running" \/ faults > 0 \/ cuts > 0)

\* README.md:115: the update helper replaces the service and restarts it.  Two
\* goroutines at the update spoil this without any failing call: the download of one
\* takes away the staged file that the helper of the other was started for, and two
\* helpers undo each other's work.
UpdateRestarts ==
  service = "stopped" /\ (\E h \in Helper : hpc[h] # "none") ~> service = "running"

\* Every helper ends, whatever another helper does to the service and the files.
HelpersEnd == \A h \in Helper : hpc[h] # "none" ~> hpc[h] = "none"

\* The server answers the main loop and a download ends, with what the server has,
\* again and again, and so is the queue empty at a heartbeat, not only when no
\* update is staged.
Luck ==
  /\ SF_vars(OpenWhole("main") \/ OpenRest("main"))
  /\ SF_vars(Copy("main"))
  /\ SF_vars(Copy("main") /\ staged'[Path("main")].part = "whole")
  /\ \A o \in Offers : SF_vars(QueueEmpty("main", o))
  /\ SF_vars(\E o \in Offers : QueueEmpty("main", o) /\ Wanted(meta) /\ StagedIntact(meta))

\* The whole file is there and nothing records it: a server that honours ranges
\* answers 416 for ever (downloader.go:69 and 79).
Unrecorded(o) == Ranges = "honoured" /\ staged[VersionOf[o.build]].part = "whole" /\ meta # o

\* config.yaml has the version of an executable that did not start and gave way to
\* its backup: the agent takes the offer for no news.
Claimed(o) == cfgVersion = VersionOf[o.build] /\ exe # Whole(o.build)

\* README.md:110: an update that a server goes on to offer is installed in the end
\* and stays so, if the service does not stay down and the WebSocket goroutine comes
\* to rest, whatever parts and mixtures the downloads leave to be resumed, unless the
\* agent gets into one of two states for good: the staged file is whole and not
\* recorded, or the version is recorded and not installed.
UpdateInstalled ==
  Luck /\ []<>(service = "running") /\ <>[](\A th \in Thread \ {"main"} : pc[th] = "idle")
    => \A o \in Offers : <>[](exe = Whole(o.build)) \/ <>[]Unrecorded(o) \/ <>[]Claimed(o)
=============================================================================
