----------------------------- MODULE TaskQueue -----------------------------
(***************************************************************************)
(* The install queue of the agent: internal/queue/taskqueue.go, and the    *)
(* loop of cmd/service/core.go that drives it (processCommands, reportFn). *)
(*                                                                         *)
(* Two goroutines call processCommands: the main loop, on every heartbeat  *)
(* answer, and the WebSocket read loop, on server.hello and server.command.*)
(* Both hold stateMu for the whole call, which lasts as long as the        *)
(* installs do.  The heartbeat goroutine does not: it takes only q.mu, in  *)
(* ConsumeAppsChanged.  An action below is one critical section of q.mu,   *)
(* or one call out of the queue (the install, one HTTP attempt).           *)
(***************************************************************************)
EXTENDS Integers, FiniteSets

CONSTANTS
  Task,            \* task ids a server hands out (never 0)
  Thread,          \* the goroutines that call processCommands
  Main,            \* the one that runs the main loop
  App,             \* application ids greater than 0
  AppOf,           \* the application of a task; NoApp when AppID is 0
  NoApp,
  VersionOf,       \* the AppVersion of a task, "" when the field is empty
  Priority,        \* smaller is more urgent
  Forced,          \* tasks with ForceUpdate
  Batches,         \* the command lists that arrive, as sets of task ids
  MaxRetries,      \* NewTaskQueue(3)
  ReportAttempts   \* the attempts of reportFn: 3

ASSUME TaskAssumption == Task \subseteq Nat \ {0}
ASSUME ThreadAssumption == Main \in Thread /\ "none" \notin Thread
ASSUME AppAssumption == NoApp \notin App /\ AppOf \in [Task -> App \cup {NoApp}]
ASSUME VersionAssumption == VersionOf \in [Task -> STRING]
ASSUME PriorityAssumption == Priority \in [Task -> Int]
ASSUME BatchAssumption == Batches \subseteq SUBSET (Task \cup {0})
ASSUME ForcedAssumption == Forced \subseteq Task
ASSUME BoundAssumption == MaxRetries \in Nat \ {0} /\ ReportAttempts \in Nat \ {0}

VARIABLES
  tasks,           \* TaskQueue.tasks: the ids queued
  retryCount,      \* TaskQueue.retries[t].Count, 0 when there is no entry
  retryWait,       \* units of five minutes left until NextRetryAt
  installed,       \* TaskQueue.installed, NoVersion when there is no entry
  appsChanged,     \* TaskQueue.appsChanged
  stateMu,         \* the goroutine that holds stateMu, or NoThread
  pc,              \* where each goroutine is in processCommands/ProcessOne
  batch,           \* the commands a goroutine brings to processCommands
  cur,             \* the task ProcessOne is working on
  attempt,         \* the attempt number of the loop in reportFn
  ctxDone,         \* the service context is cancelled
  wsActive         \* the WebSocket is connected: Sender.wsActive, no heartbeat
                   \* is sent on the ticker

VARIABLES          \* the world outside the process
  srv,             \* what the server last recorded for a task
  handed           \* the app list the heartbeat goroutine last took

VARIABLES          \* history, read by the properties only
  tries,           \* runs of the installer since the task was last queued
  succeeded,       \* tasks whose installer succeeded since last queued
  everOk,          \* tasks whose installer ever succeeded on this host
  lastOk,          \* version of the last success per app, in this process
  since            \* units of five minutes since the last failed run

queue   == <<tasks, retryCount, retryWait, installed, appsChanged>>
threads == <<stateMu, pc, batch, cur, attempt>>
world   == <<srv, handed>>
control == <<ctxDone, wsActive>>
history == <<tries, succeeded, everOk, lastOk, since>>
vars    == <<queue, threads, control, world, history>>

NoTask == 0
NoThread == "none"
NoVersion == "not installed"

Label == {"idle", "lock", "next", "jitter", "execute", "handleFailure",
          "reportFailed", "reportSuccess", "handleSuccess"}

\* The labels at which a goroutine holds stateMu, works on cur, and has not
\* yet handed the outcome of the run to the queue.
Holding == Label \ {"idle", "lock"}
Working == {"jitter", "execute", "handleFailure", "reportSuccess", "handleSuccess"}

\* handleSuccess records "unknown" for a command without a version.
RecordedVersion(t) == IF VersionOf[t] = "" THEN "unknown" ELSE VersionOf[t]

Version == {RecordedVersion(t) : t \in Task} \cup {NoVersion}

-----------------------------------------------------------------------------

\* A process starts with NewTaskQueue and no goroutine in processCommands.
Init ==
  /\ tasks = {}
  /\ retryCount = [t \in Task |-> 0]
  /\ retryWait = [t \in Task |-> 0]
  /\ installed = [a \in App |-> NoVersion]
  /\ appsChanged = FALSE
  /\ stateMu = NoThread
  /\ pc = [th \in Thread |-> "idle"]
  /\ batch = [th \in Thread |-> {}]
  /\ cur = [th \in Thread |-> NoTask]
  /\ attempt = [th \in Thread |-> 0]
  /\ ctxDone = FALSE
  /\ wsActive = FALSE
  /\ srv = [t \in Task |-> "none"]
  /\ handed = [a \in App |-> NoVersion]
  /\ tries = [t \in Task |-> 0]
  /\ succeeded = {}
  /\ everOk = {}
  /\ lastOk = [a \in App |-> NoVersion]
  /\ since = [t \in Task |-> 0]

-----------------------------------------------------------------------------

Goto(th, label) == pc' = [pc EXCEPT ![th] = label]

\* OnConnected mutes the heartbeat; OnDisconnected, called by the goroutine that
\* reads the connection when its handlers have returned, unmutes it.
Connect ==
  /\ Thread # {Main}
  /\ ~wsActive /\ wsActive' = TRUE
  /\ UNCHANGED <<queue, threads, ctxDone, world, history>>

Disconnect ==
  /\ \A th \in Thread \ {Main} : pc[th] = "idle"
  /\ wsActive /\ wsActive' = FALSE
  /\ UNCHANGED <<queue, threads, ctxDone, world, history>>

\* A heartbeat answer, which may be one asked for by TriggerNow while the
\* heartbeat is muted, or a WebSocket message arrives with commands: the
\* goroutine asks for stateMu.
Receive(th, cmds) ==
  /\ pc[th] = "idle"
  /\ th = Main \/ (wsActive /\ cmds # {})
  /\ Goto(th, "lock")
  /\ batch' = [batch EXCEPT ![th] = cmds]
  /\ UNCHANGED <<queue, stateMu, cur, attempt, control, world, history>>

\* (mutant) processCommands without stateMu around it.
AddCommandsUnlocked(th) ==
  LET added == batch[th] \ ({0} \cup tasks)
  IN /\ pc[th] = "lock"
     /\ stateMu' = th
     /\ tasks' = tasks \cup added
     /\ batch' = [batch EXCEPT ![th] = {}]
     /\ Goto(th, "next")
     /\ tries' = [t \in Task |-> IF t \in added THEN 0 ELSE tries[t]]
     /\ succeeded' = succeeded \ added
     /\ UNCHANGED <<retryCount, retryWait, installed, appsChanged, cur, attempt,
                    control, world, everOk, lastOk, since>>

\* processCommands, once stateMu is ours: the ids that are not queued yet
\* enter the queue, id 0 and the ids already there are skipped.  An entry of
\* retries is not touched.
AddCommands(th) ==
  LET added == batch[th] \ ({0} \cup tasks)
  IN /\ pc[th] = "lock"
     /\ stateMu = NoThread
     /\ stateMu' = th
     /\ tasks' = tasks \cup added
     /\ batch' = [batch EXCEPT ![th] = {}]
     /\ Goto(th, "next")
     /\ tries' = [t \in Task |-> IF t \in added THEN 0 ELSE tries[t]]
     /\ succeeded' = succeeded \ added
     /\ UNCHANGED <<retryCount, retryWait, installed, appsChanged, cur, attempt,
                    control, world, everOk, lastOk, since>>

\* (mutants) The retry time is compared one unit early; or a task with a retry
\* entry is taken for one that is done.
RunnableEarly == {t \in tasks : retryWait[t] <= 1}
RunnableOnce  == {t \in tasks : retryCount[t] = 0}

Runnable == {t \in tasks : retryWait[t] = 0}

Before(t, u) == \/ Priority[t] < Priority[u]
                \/ Priority[t] = Priority[u] /\ t < u

\* nextRunnable: the most urgent task whose retry time has come.  A task
\* that is not forced sleeps for the jitter first, unless the jitter is 0.
NextRunnable(th, t) ==
  /\ pc[th] = "next"
  /\ t \in Runnable
  /\ \A u \in Runnable \ {t} : Before(t, u)
  /\ \/ t \notin Forced /\ Goto(th, "jitter")
     \/ Goto(th, "execute")
  /\ cur' = [cur EXCEPT ![th] = t]
  /\ UNCHANGED <<queue, stateMu, batch, attempt, control, world, history>>

\* ProcessOne returned false: the loop ends and the caller releases stateMu.
Leave(th) ==
  /\ stateMu' = NoThread
  /\ Goto(th, "idle")
  /\ cur' = [cur EXCEPT ![th] = NoTask]
  /\ UNCHANGED <<queue, batch, attempt, control, world, history>>

NothingRunnable(th) == pc[th] = "next" /\ Runnable = {} /\ Leave(th)

JitterCancelled(th) == pc[th] = "jitter" /\ ctxDone /\ Leave(th)

JitterOver(th) ==
  /\ pc[th] = "jitter"
  /\ Goto(th, "execute")
  /\ UNCHANGED <<queue, stateMu, batch, cur, attempt, control, world, history>>

\* executeFn returned no error: the installer ran and exited with success.
ExecuteOk(th) ==
  LET t == cur[th]
  IN /\ pc[th] = "execute"
     /\ Goto(th, "reportSuccess")
     /\ attempt' = [attempt EXCEPT ![th] = 1]
     /\ tries' = [tries EXCEPT ![t] = @ + 1]
     /\ succeeded' = succeeded \cup {t}
     /\ everOk' = everOk \cup {t}
     /\ lastOk' = IF AppOf[t] = NoApp THEN lastOk
                  ELSE [lastOk EXCEPT ![AppOf[t]] = RecordedVersion(t)]
     /\ since' = [since EXCEPT ![t] = 0]
     /\ UNCHANGED <<queue, stateMu, batch, cur, control, world>>

\* executeFn returned an error: download, hash, or the installer itself.
ExecuteFails(th) ==
  /\ pc[th] = "execute"
  /\ Goto(th, "handleFailure")
  /\ tries' = [tries EXCEPT ![cur[th]] = @ + 1]
  /\ since' = [since EXCEPT ![cur[th]] = 0]
  /\ UNCHANGED <<queue, stateMu, batch, cur, attempt, control, world,
                 succeeded, everOk, lastOk>>

\* (mutant) One retry too many: count > maxRetries.
HandleFailureOneMore(th) ==
  LET t == cur[th]
      count == retryCount[t] + 1
  IN /\ pc[th] = "handleFailure"
     /\ Goto(th, "reportFailed")
     /\ attempt' = [attempt EXCEPT ![th] = 1]
     /\ IF count > MaxRetries
          THEN /\ tasks' = tasks \ {t}
               /\ retryCount' = [retryCount EXCEPT ![t] = 0]
               /\ retryWait' = [retryWait EXCEPT ![t] = 0]
          ELSE /\ tasks' = tasks
               /\ retryCount' = [retryCount EXCEPT ![t] = count]
               /\ retryWait' = [retryWait EXCEPT ![t] = count]
     /\ UNCHANGED <<installed, appsChanged, stateMu, batch, cur, control, world, history>>

HandleFailure(th) ==
  LET t == cur[th]
      count == retryCount[t] + 1
  IN /\ pc[th] = "handleFailure"
     /\ Goto(th, "reportFailed")
     /\ attempt' = [attempt EXCEPT ![th] = 1]
     /\ IF count >= MaxRetries
          THEN /\ tasks' = tasks \ {t}
               /\ retryCount' = [retryCount EXCEPT ![t] = 0]
               /\ retryWait' = [retryWait EXCEPT ![t] = 0]
          ELSE /\ tasks' = tasks
               /\ retryCount' = [retryCount EXCEPT ![t] = count]
               /\ retryWait' = [retryWait EXCEPT ![t] = count]
     /\ UNCHANGED <<installed, appsChanged, stateMu, batch, cur, control, world, history>>

ReportLabel == {"reportFailed", "reportSuccess"}

\* (mutant) A task that will be retried is not reported as failed.
StatusAtOptimist(label) == IF label \in ReportLabel THEN "success" ELSE "failed"

StatusAt(label) == IF label = "reportSuccess" THEN "success" ELSE "failed"

\* Where ProcessOne goes when reportFn returned; its error is ignored.
AfterReport(th) == IF pc[th] = "reportSuccess" THEN "handleSuccess" ELSE "next"

\* reportFn: the attempt is answered.
ReportOk(th) ==
  /\ pc[th] \in ReportLabel
  /\ ~ ctxDone
  /\ srv' = [srv EXCEPT ![cur[th]] = StatusAt(pc[th])]
  /\ Goto(th, AfterReport(th))
  /\ attempt' = [attempt EXCEPT ![th] = 0]
  /\ UNCHANGED <<queue, stateMu, batch, cur, control, handed, history>>

\* (mutant) ProcessOne returns at once when the report errs for good.
ReportErrsReturns(th) ==
  /\ pc[th] \in ReportLabel
  /\ \/ srv' = srv
     \/ ~ ctxDone /\ srv' = [srv EXCEPT ![cur[th]] = StatusAt(pc[th])]
  /\ \/ /\ attempt[th] < ReportAttempts
        /\ attempt' = [attempt EXCEPT ![th] = @ + 1]
        /\ pc' = pc
     \/ /\ attempt[th] = ReportAttempts \/ ctxDone
        /\ attempt' = [attempt EXCEPT ![th] = 0]
        /\ Goto(th, "next")
  /\ UNCHANGED <<queue, stateMu, batch, cur, control, handed, history>>

\* reportFn: the attempt errs, whether or not the server got the request.
\* After the last attempt, and at once when the context is done, it gives up.
ReportErrs(th) ==
  /\ pc[th] \in ReportLabel
  /\ \/ srv' = srv
     \/ ~ ctxDone /\ srv' = [srv EXCEPT ![cur[th]] = StatusAt(pc[th])]
  /\ \/ /\ attempt[th] < ReportAttempts
        /\ attempt' = [attempt EXCEPT ![th] = @ + 1]
        /\ pc' = pc
     \/ /\ attempt[th] = ReportAttempts \/ ctxDone
        /\ attempt' = [attempt EXCEPT ![th] = 0]
        /\ Goto(th, AfterReport(th))
  /\ UNCHANGED <<queue, stateMu, batch, cur, control, handed, history>>

\* (mutant) The retry entry outlives the task, and the change is not flagged.
HandleSuccessForgets(th) ==
  LET t == cur[th]
  IN /\ pc[th] = "handleSuccess"
     /\ Goto(th, "next")
     /\ tasks' = tasks \ {t}
     /\ UNCHANGED <<retryCount, retryWait, appsChanged>>
     /\ installed' = IF AppOf[t] = NoApp THEN installed
                     ELSE [installed EXCEPT ![AppOf[t]] = RecordedVersion(t)]
     /\ UNCHANGED <<stateMu, batch, cur, attempt, control, world, history>>

HandleSuccess(th) ==
  LET t == cur[th]
  IN /\ pc[th] = "handleSuccess"
     /\ Goto(th, "next")
     /\ tasks' = tasks \ {t}
     /\ retryCount' = [retryCount EXCEPT ![t] = 0]
     /\ retryWait' = [retryWait EXCEPT ![t] = 0]
     /\ IF AppOf[t] = NoApp
          THEN UNCHANGED <<installed, appsChanged>>
          ELSE /\ installed' = [installed EXCEPT ![AppOf[t]] = RecordedVersion(t)]
               /\ appsChanged' = TRUE
     /\ UNCHANGED <<stateMu, batch, cur, attempt, control, world, history>>

\* The heartbeat goroutine takes the change flag and the whole list.
ConsumeAppsChanged ==
  /\ appsChanged
  /\ appsChanged' = FALSE
  /\ handed' = installed
  /\ UNCHANGED <<tasks, retryCount, retryWait, installed, threads, control, srv, history>>

-----------------------------------------------------------------------------

\* Five minutes of a task's retry delay pass.  The clocks of two tasks are not
\* aligned, so each has its own step.
RetryClock(t) ==
  /\ retryWait[t] > 0
  /\ retryWait' = [retryWait EXCEPT ![t] = @ - 1]
  /\ since' = [since EXCEPT ![t] = IF @ < MaxRetries THEN @ + 1 ELSE @]
  /\ UNCHANGED <<tasks, retryCount, installed, appsChanged, threads, control, world,
                 tries, succeeded, everOk, lastOk>>

\* The service is told to stop.
Cancel ==
  /\ ~ ctxDone
  /\ ctxDone' = TRUE
  /\ UNCHANGED <<queue, threads, wsActive, world, history>>

\* The process ends and a new one starts; the queue is only in memory.
NewProcess ==
  /\ tasks' = {}
  /\ retryCount' = [t \in Task |-> 0]
  /\ retryWait' = [t \in Task |-> 0]
  /\ installed' = [a \in App |-> NoVersion]
  /\ appsChanged' = FALSE
  /\ stateMu' = NoThread
  /\ pc' = [th \in Thread |-> "idle"]
  /\ batch' = [th \in Thread |-> {}]
  /\ cur' = [th \in Thread |-> NoTask]
  /\ attempt' = [th \in Thread |-> 0]
  /\ ctxDone' = FALSE
  /\ wsActive' = FALSE
  /\ lastOk' = [a \in App |-> NoVersion]
  /\ handed' = [a \in App |-> NoVersion]
  /\ tries' = [t \in Task |-> 0]
  /\ succeeded' = {}
  /\ since' = [t \in Task |-> 0]
  /\ UNCHANGED <<srv, everOk>>

\* The main loop sees ctx.Done and returns, whatever the other goroutines do.
Stop == ctxDone /\ pc[Main] = "idle" /\ NewProcess

\* Power loss, a panic, a kill: at any moment.
Crash == NewProcess

-----------------------------------------------------------------------------

ProcessStep(th) ==
  \/ AddCommands(th)
  \/ \E t \in tasks : NextRunnable(th, t)
  \/ NothingRunnable(th)
  \/ JitterCancelled(th)
  \/ JitterOver(th)
  \/ ExecuteOk(th)
  \/ ExecuteFails(th)
  \/ HandleFailure(th)
  \/ ReportOk(th)
  \/ ReportErrs(th)
  \/ HandleSuccess(th)

Next ==
  \/ \E th \in Thread : \/ \E cmds \in Batches : Receive(th, cmds)
                        \/ ProcessStep(th)
  \/ Connect
  \/ Disconnect
  \/ ConsumeAppsChanged
  \/ \E t \in Task : RetryClock(t)
  \/ Cancel
  \/ Stop
  \/ Crash

Spec == Init /\ [][Next]_vars

\* Goroutines run, an install and an HTTP attempt end, time passes, a goroutine
\* that waits for a sync.Mutex is not passed over for ever, and the select of the
\* main loop, which picks at random, does not miss ctx.Done for ever.  The ticker
\* sends heartbeats while the WebSocket is down and OnDisconnected sends one, so
\* answers keep coming to the main loop, unless the connection stays up for good.
Fairness ==
  /\ \A th \in Thread : WF_vars(ProcessStep(th))
  /\ \A th \in Thread : SF_vars(AddCommands(th))
  /\ <>[]wsActive \/ WF_vars(\E cmds \in Batches : Receive(Main, cmds))
  /\ \A t \in Task : WF_vars(RetryClock(t))
  /\ SF_vars(Stop)

FairSpec == Spec /\ Fairness

-----------------------------------------------------------------------------

\* Every variable holds a value of its type.
TypeOK ==
  /\ tasks \subseteq Task
  /\ retryCount \in [Task -> 0..(MaxRetries - 1)]
  /\ retryWait \in [Task -> 0..(MaxRetries - 1)]
  /\ installed \in [App -> Version]
  /\ appsChanged \in BOOLEAN
  /\ stateMu \in Thread \cup {NoThread}
  /\ pc \in [Thread -> Label]
  /\ batch \in [Thread -> SUBSET (Task \cup {0})]
  /\ cur \in [Thread -> Task \cup {NoTask}]
  /\ attempt \in [Thread -> 0..ReportAttempts]
  /\ ctxDone \in BOOLEAN /\ wsActive \in BOOLEAN
  /\ srv \in [Task -> {"none", "failed", "success"}]
  /\ handed \in [App -> Version]
  /\ tries \in [Task -> Nat]
  /\ succeeded \subseteq Task
  /\ everOk \subseteq Task
  /\ lastOk \in [App -> Version]
  /\ since \in [Task -> Nat]

\* The goroutines that are between nextRunnable and the end of the run's
\* bookkeeping.
AtWork == {th \in Thread : pc[th] \in Working}

\* stateMu is held by the goroutine that is inside processCommands, if any.
LockHeld == \A th \in Thread : pc[th] \in Holding <=> stateMu = th

\* Two goroutines never have a task in hand at the same time: one installer
\* runs at a time, and ProcessOne's unlocked steps are not interleaved with
\* those of another ProcessOne (stateMu around both callers).  The task in hand
\* is still queued: nothing removes it while its jitter, its download or its
\* install runs without q.mu.
OneTaskInHand == Cardinality(AtWork) <= 1 /\ \A th \in AtWork : cur[th] \in tasks

\* A retry entry exists only for a queued task, so a task that is delivered
\* again after it left the queue starts with all its retries.
RetryOnlyQueued == \A t \in Task : retryCount[t] > 0 \/ retryWait[t] > 0 => t \in tasks

\* A run of t has ended and handleFailure or handleSuccess is still to come.
RunOpen(t) ==
  \E th \in Thread : /\ pc[th] \in {"handleFailure", "reportSuccess", "handleSuccess"}
                     /\ cur[th] = t

\* The runs of a queued task are counted: what handleFailure knows of them is
\* the number of failed runs since the task was queued, and no task is run more
\* than MaxRetries times before the server delivers it again.
RunsCounted ==
  /\ \A t \in tasks : tries[t] = IF RunOpen(t) THEN retryCount[t] + 1 ELSE retryCount[t]
  /\ \A t \in Task : tries[t] <= MaxRetries

\* The server shows success only for a task whose installer really succeeded
\* on this host, whatever reports were lost, repeated or cut by a restart.
SuccessIsTrue == \A t \in Task : srv[t] = "success" => t \in everOk

\* The version the agent claims for an app is that of the last install that
\* succeeded, as soon as no success is still on its way to handleSuccess, and
\* the heartbeat goroutine has taken that list or is told to take it.
AppsTracked ==
  /\ \A a \in App : \/ installed[a] = lastOk[a]
                    \/ \E th \in AtWork : cur[th] \in succeeded /\ AppOf[cur[th]] = a
  /\ appsChanged \/ handed = installed

\* An install that succeeded is not run again while the task stays queued,
\* even when every report of the success is lost.
NoRerunAfterSuccess ==
  [][\A t \in Task : t \in succeeded => tries'[t] = tries[t] \/ t \notin succeeded']_vars

\* Between a failed run and the next one of the same queued task, as many five
\* minute units pass as it has failed.
BackoffKept ==
  [][\A t \in tasks : t \in tasks' /\ tries'[t] > tries[t] => since[t] >= retryCount[t]]_vars

\* The goroutine that has t in hand, seen from outside: t is running from the
\* moment nextRunnable returned it until handleSuccess or handleFailure.
Running(t) == \E th \in AtWork : cur[th] = t

Phase == [t \in Task |-> IF t \notin tasks THEN "absent"
                         ELSE IF Running(t) THEN "running" ELSE "queued"]

Lifecycle == INSTANCE TaskLifecycle WITH phase <- Phase, failures <- retryCount

\* The queue and its callers implement the life cycle of a task: whatever the
\* goroutines, reports, timers and restarts do, a step changes a task only the
\* way TaskLifecycle allows.
ImplementsLifecycle == Lifecycle!AbsSpec

\* A goroutine brings commands, or an empty list, to processCommands.
Called == \E th \in Thread : pc[th] = "lock"

\* Every queued task leaves the queue: it succeeds, uses up its retries, or the
\* process ends; more urgent tasks and the other goroutine do not starve it.
\* Only a call of processCommands runs a task, and while the WebSocket is up the
\* ticker makes none: with a connection that never breaks the server has to send
\* something again and again, or a task whose retry time has come stays queued.
QueuedTaskLeaves ==
  (<>[]wsActive => []<>Called) => \A t \in Task : t \in tasks ~> t \notin tasks
=============================================================================
