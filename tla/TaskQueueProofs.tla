-------------------------- MODULE TaskQueueProofs --------------------------
(***************************************************************************)
(* Proofs about TaskQueue for every set of tasks, every number of callers  *)
(* of processCommands and every retry bound.                               *)
(*                                                                         *)
(* Everything rests on stateMu: only its holder is past AddCommands, so    *)
(* the task in hand cannot be changed by another goroutine between the     *)
(* short critical sections of q.mu.                                        *)
(***************************************************************************)
EXTENDS TaskQueue, TLAPS, FiniteSetTheorems

\* The task a goroutine has in hand is queued and its retry time has come.
InHand ==
  \A th \in Thread : pc[th] \in Working => cur[th] \in tasks /\ retryWait[cur[th]] = 0

\* An outcome is reported for a task, and a success only after the installer's.
Outcome ==
  \A th \in Thread :
    /\ pc[th] \in ReportLabel => cur[th] \in Task
    /\ pc[th] \in {"reportSuccess", "handleSuccess"} =>
         /\ cur[th] \in everOk
         /\ AppOf[cur[th]] # NoApp => lastOk[AppOf[cur[th]]] = RecordedVersion(cur[th])

\* A queued task whose installer succeeded is on its way to handleSuccess.
SuccessOnItsWay ==
  \A t \in tasks \cap succeeded :
    \E th \in Thread : pc[th] \in {"reportSuccess", "handleSuccess"} /\ cur[th] = t

\* What is left of a task's delay and what has passed of it make up the delay.
DelayAccounted ==
  \A t \in tasks : RunOpen(t) \/ since[t] + retryWait[t] >= retryCount[t]

IInv ==
  /\ TypeOK
  /\ LockHeld
  /\ InHand
  /\ RetryOnlyQueued
  /\ Outcome
  /\ SuccessIsTrue
  /\ SuccessOnItsWay
  /\ RunsCounted
  /\ DelayAccounted
  /\ AppsTracked

\* The variables other than those of the threads never leave their types.
LEMMA TypeInit == Init => TypeOK
<1> SUFFICES ASSUME Init PROVE TypeOK
    OBVIOUS
<1>1. "idle" \in Label /\ NoVersion \in Version
    BY DEF Label, Version
<1>2. 0 \in 0..(MaxRetries - 1) /\ 0 \in 0..ReportAttempts
    BY BoundAssumption
<1>3. QED
    BY <1>1, <1>2 DEF Init, TypeOK, NoThread

\* Every action keeps the types.
LEMMA TypeStep == TypeOK /\ InHand /\ Outcome /\ [Next]_vars => TypeOK'
<1> SUFFICES ASSUME TypeOK, InHand, Outcome, [Next]_vars PROVE TypeOK'
    OBVIOUS
<1> USE BoundAssumption DEF TypeOK, Label, control
<1>0. /\ \A t \in Task : RecordedVersion(t) \in Version
      /\ NoVersion \in Version
    BY DEF Version
<1>1. ASSUME NEW th \in Thread, NEW cmds \in Batches, Receive(th, cmds) PROVE TypeOK'
    BY <1>1, BatchAssumption DEF Receive, Goto, queue, world, history
<1>2. ASSUME NEW th \in Thread, AddCommands(th) PROVE TypeOK'
    BY <1>2 DEF AddCommands, Goto, world
<1>3. ASSUME NEW th \in Thread, NEW t \in tasks, NextRunnable(th, t) PROVE TypeOK'
    BY <1>3 DEF NextRunnable, Goto, queue, world, history
<1>4. ASSUME NEW th \in Thread, NothingRunnable(th) PROVE TypeOK'
    BY <1>4 DEF NothingRunnable, Leave, Goto, queue, world, history
<1>5. ASSUME NEW th \in Thread, JitterCancelled(th) PROVE TypeOK'
    BY <1>5 DEF JitterCancelled, Leave, Goto, queue, world, history
<1>6. ASSUME NEW th \in Thread, JitterOver(th) PROVE TypeOK'
    BY <1>6 DEF JitterOver, Goto, queue, world, history
<1>7. ASSUME NEW th \in Thread, ExecuteOk(th) PROVE TypeOK'
  <2>1. cur[th] \in Task
      BY <1>7 DEF ExecuteOk, InHand, Working
  <2>2. lastOk' \in [App -> Version]
      BY <1>7, <2>1, <1>0, AppAssumption DEF ExecuteOk
  <2>3. QED
      BY <1>7, <2>1, <2>2 DEF ExecuteOk, Goto, queue, world
<1>8. ASSUME NEW th \in Thread, ExecuteFails(th) PROVE TypeOK'
  <2>1. cur[th] \in Task
      BY <1>8 DEF ExecuteFails, InHand, Working
  <2>2. QED
      BY <1>8, <2>1 DEF ExecuteFails, Goto, queue, world
<1>9. ASSUME NEW th \in Thread, HandleFailure(th) PROVE TypeOK'
    BY <1>9 DEF HandleFailure, Goto, world, history
<1>10. ASSUME NEW th \in Thread, ReportOk(th) PROVE TypeOK'
    BY <1>10 DEF ReportOk, Goto, AfterReport, StatusAt, ReportLabel, Outcome, queue, history
<1>11. ASSUME NEW th \in Thread, ReportErrs(th) PROVE TypeOK'
    BY <1>11 DEF ReportErrs, Goto, AfterReport, StatusAt, ReportLabel, Outcome, queue, history
<1>12. ASSUME NEW th \in Thread, HandleSuccess(th) PROVE TypeOK'
  <2>1. cur[th] \in Task
      BY <1>12 DEF HandleSuccess, InHand, Working
  <2>2. installed' \in [App -> Version] /\ appsChanged' \in BOOLEAN
      BY <1>12, <2>1, <1>0, AppAssumption DEF HandleSuccess
  <2>3. QED
      BY <1>12, <2>1, <2>2 DEF HandleSuccess, Goto, world, history
<1>13. CASE ConsumeAppsChanged
    BY <1>13 DEF ConsumeAppsChanged, threads, history
<1>14. ASSUME NEW t \in Task, RetryClock(t) PROVE TypeOK'
    BY <1>14 DEF RetryClock, threads, world
<1>15. CASE Cancel \/ Connect \/ Disconnect
    BY <1>15 DEF Cancel, Connect, Disconnect, queue, threads, world, history
<1>16. CASE Stop \/ Crash
  <2>1. NewProcess
      BY <1>16 DEF Stop, Crash
  <2>2. 0 \in 0..(MaxRetries - 1) /\ 0 \in 0..ReportAttempts
      OBVIOUS
  <2>3. QED
      BY <2>1, <2>2, <1>0 DEF NewProcess
<1>17. CASE UNCHANGED vars
    BY <1>17 DEF vars, queue, threads, world, history
<1>18. QED
    BY <1>1, <1>2, <1>3, <1>4, <1>5, <1>6, <1>7, <1>8, <1>9, <1>10, <1>11, <1>12,
       <1>13, <1>14, <1>15, <1>16, <1>17 DEF Next, ProcessStep
\* Only the holder of stateMu is past AddCommands.
LEMMA LockStep == TypeOK /\ LockHeld /\ [Next]_vars => LockHeld'
<1> SUFFICES ASSUME TypeOK, LockHeld, [Next]_vars PROVE LockHeld'
    OBVIOUS
<1> USE ThreadAssumption DEF TypeOK, LockHeld, Label, Holding, NoThread, queue, threads, world, history
<1>1. ASSUME NEW th \in Thread, NEW cmds \in Batches, Receive(th, cmds) PROVE LockHeld'
    BY <1>1 DEF Receive, Goto
<1>2. ASSUME NEW th \in Thread, AddCommands(th) PROVE LockHeld'
    BY <1>2 DEF AddCommands, Goto
<1>3. ASSUME NEW th \in Thread, NEW t \in tasks, NextRunnable(th, t) PROVE LockHeld'
    BY <1>3 DEF NextRunnable, Goto, Runnable
<1>4. ASSUME NEW th \in Thread, NothingRunnable(th) PROVE LockHeld'
    BY <1>4 DEF NothingRunnable, Leave, Goto
<1>5. ASSUME NEW th \in Thread, JitterCancelled(th) PROVE LockHeld'
    BY <1>5 DEF JitterCancelled, Leave, Goto
<1>6. ASSUME NEW th \in Thread, JitterOver(th) PROVE LockHeld'
    BY <1>6 DEF JitterOver, Goto
<1>7. ASSUME NEW th \in Thread, ExecuteOk(th) PROVE LockHeld'
    BY <1>7 DEF ExecuteOk, Goto
<1>8. ASSUME NEW th \in Thread, ExecuteFails(th) PROVE LockHeld'
    BY <1>8 DEF ExecuteFails, Goto
<1>9. ASSUME NEW th \in Thread, HandleFailure(th) PROVE LockHeld'
    BY <1>9 DEF HandleFailure, Goto
<1>10. ASSUME NEW th \in Thread, ReportOk(th) PROVE LockHeld'
    BY <1>10 DEF ReportOk, Goto, AfterReport, ReportLabel
<1>11. ASSUME NEW th \in Thread, ReportErrs(th) PROVE LockHeld'
    BY <1>11 DEF ReportErrs, Goto, AfterReport, ReportLabel
<1>12. ASSUME NEW th \in Thread, HandleSuccess(th) PROVE LockHeld'
    BY <1>12 DEF HandleSuccess, Goto
<1>13. CASE ConsumeAppsChanged
    BY <1>13 DEF ConsumeAppsChanged
<1>14. ASSUME NEW t \in Task, RetryClock(t) PROVE LockHeld'
    BY <1>14 DEF RetryClock
<1>15. CASE Cancel \/ Connect \/ Disconnect
    BY <1>15 DEF Cancel, Connect, Disconnect
<1>16. CASE NewProcess
    BY <1>16 DEF NewProcess
<1>17. CASE UNCHANGED vars
    BY <1>17 DEF vars
<1>18. QED
    BY <1>1, <1>2, <1>3, <1>4, <1>5, <1>6, <1>7,
       <1>8, <1>9, <1>10, <1>11, <1>12, <1>13, <1>14, <1>15, <1>16, <1>17 DEF Next, ProcessStep, Stop, Crash

\* Another goroutine cannot touch the task in hand: it is not past AddCommands.
LEMMA InHandStep == TypeOK /\ LockHeld /\ InHand /\ [Next]_vars => InHand'
<1> SUFFICES ASSUME TypeOK, LockHeld, InHand, [Next]_vars PROVE InHand'
    OBVIOUS
<1> USE DEF TypeOK, LockHeld, InHand, Label, Holding, Working, queue, threads, world, history
<1>1. ASSUME NEW th \in Thread, NEW cmds \in Batches, Receive(th, cmds) PROVE InHand'
    BY <1>1 DEF Receive, Goto
<1>2. ASSUME NEW th \in Thread, AddCommands(th) PROVE InHand'
    BY <1>2 DEF AddCommands, Goto
<1>3. ASSUME NEW th \in Thread, NEW t \in tasks, NextRunnable(th, t) PROVE InHand'
    BY <1>3 DEF NextRunnable, Goto, Runnable
<1>4. ASSUME NEW th \in Thread, NothingRunnable(th) PROVE InHand'
    BY <1>4 DEF NothingRunnable, Leave, Goto
<1>5. ASSUME NEW th \in Thread, JitterCancelled(th) PROVE InHand'
    BY <1>5 DEF JitterCancelled, Leave, Goto
<1>6. ASSUME NEW th \in Thread, JitterOver(th) PROVE InHand'
    BY <1>6 DEF JitterOver, Goto
<1>7. ASSUME NEW th \in Thread, ExecuteOk(th) PROVE InHand'
    BY <1>7 DEF ExecuteOk, Goto
<1>8. ASSUME NEW th \in Thread, ExecuteFails(th) PROVE InHand'
    BY <1>8 DEF ExecuteFails, Goto
<1>9. ASSUME NEW th \in Thread, HandleFailure(th) PROVE InHand'
    BY <1>9 DEF HandleFailure, Goto
<1>10. ASSUME NEW th \in Thread, ReportOk(th) PROVE InHand'
    BY <1>10 DEF ReportOk, Goto, AfterReport, ReportLabel
<1>11. ASSUME NEW th \in Thread, ReportErrs(th) PROVE InHand'
    BY <1>11 DEF ReportErrs, Goto, AfterReport, ReportLabel
<1>12. ASSUME NEW th \in Thread, HandleSuccess(th) PROVE InHand'
    BY <1>12 DEF HandleSuccess, Goto
<1>13. CASE ConsumeAppsChanged
    BY <1>13 DEF ConsumeAppsChanged
<1>14. ASSUME NEW t \in Task, RetryClock(t) PROVE InHand'
    BY <1>14 DEF RetryClock
<1>15. CASE Cancel \/ Connect \/ Disconnect
    BY <1>15 DEF Cancel, Connect, Disconnect
<1>16. CASE NewProcess
    BY <1>16 DEF NewProcess
<1>17. CASE UNCHANGED vars
    BY <1>17 DEF vars
<1>18. QED
    BY <1>1, <1>2, <1>3, <1>4, <1>5, <1>6, <1>7,
       <1>8, <1>9, <1>10, <1>11, <1>12, <1>13, <1>14, <1>15, <1>16, <1>17 DEF Next, ProcessStep, Stop, Crash

\* A task leaves the queue with its retry entry.
LEMMA RetryOnlyQueuedStep == TypeOK /\ LockHeld /\ InHand /\ RetryOnlyQueued /\ [Next]_vars => RetryOnlyQueued'
<1> SUFFICES ASSUME TypeOK, LockHeld, InHand, RetryOnlyQueued, [Next]_vars PROVE RetryOnlyQueued'
    OBVIOUS
<1> USE BoundAssumption DEF TypeOK, InHand, RetryOnlyQueued, Working, queue, threads, world, history
<1>1. ASSUME NEW th \in Thread, NEW cmds \in Batches, Receive(th, cmds) PROVE RetryOnlyQueued'
    BY <1>1 DEF Receive, Goto
<1>2. ASSUME NEW th \in Thread, AddCommands(th) PROVE RetryOnlyQueued'
    BY <1>2 DEF AddCommands, Goto
<1>3. ASSUME NEW th \in Thread, NEW t \in tasks, NextRunnable(th, t) PROVE RetryOnlyQueued'
    BY <1>3 DEF NextRunnable, Goto, Runnable
<1>4. ASSUME NEW th \in Thread, NothingRunnable(th) PROVE RetryOnlyQueued'
    BY <1>4 DEF NothingRunnable, Leave, Goto
<1>5. ASSUME NEW th \in Thread, JitterCancelled(th) PROVE RetryOnlyQueued'
    BY <1>5 DEF JitterCancelled, Leave, Goto
<1>6. ASSUME NEW th \in Thread, JitterOver(th) PROVE RetryOnlyQueued'
    BY <1>6 DEF JitterOver, Goto
<1>7. ASSUME NEW th \in Thread, ExecuteOk(th) PROVE RetryOnlyQueued'
    BY <1>7 DEF ExecuteOk, Goto
<1>8. ASSUME NEW th \in Thread, ExecuteFails(th) PROVE RetryOnlyQueued'
    BY <1>8 DEF ExecuteFails, Goto
<1>9. ASSUME NEW th \in Thread, HandleFailure(th) PROVE RetryOnlyQueued'
    BY <1>9 DEF HandleFailure, Goto
<1>10. ASSUME NEW th \in Thread, ReportOk(th) PROVE RetryOnlyQueued'
    BY <1>10 DEF ReportOk, Goto, AfterReport, ReportLabel
<1>11. ASSUME NEW th \in Thread, ReportErrs(th) PROVE RetryOnlyQueued'
    BY <1>11 DEF ReportErrs, Goto, AfterReport, ReportLabel
<1>12. ASSUME NEW th \in Thread, HandleSuccess(th) PROVE RetryOnlyQueued'
    BY <1>12 DEF HandleSuccess, Goto
<1>13. CASE ConsumeAppsChanged
    BY <1>13 DEF ConsumeAppsChanged
<1>14. ASSUME NEW t \in Task, RetryClock(t) PROVE RetryOnlyQueued'
    BY <1>14 DEF RetryClock
<1>15. CASE Cancel \/ Connect \/ Disconnect
    BY <1>15 DEF Cancel, Connect, Disconnect
<1>16. CASE NewProcess
    BY <1>16 DEF NewProcess
<1>17. CASE UNCHANGED vars
    BY <1>17 DEF vars
<1>18. QED
    BY <1>1, <1>2, <1>3, <1>4, <1>5, <1>6, <1>7,
       <1>8, <1>9, <1>10, <1>11, <1>12, <1>13, <1>14, <1>15, <1>16, <1>17 DEF Next, ProcessStep, Stop, Crash
\* What a goroutine is about to report stays true until it is reported.
LEMMA OutcomeStep == TypeOK /\ LockHeld /\ InHand /\ Outcome /\ [Next]_vars => Outcome'
<1> SUFFICES ASSUME TypeOK, LockHeld, InHand, Outcome, [Next]_vars PROVE Outcome'
    OBVIOUS
<1> USE AppAssumption DEF TypeOK, LockHeld, InHand, Outcome, ReportLabel, Label, Holding, Working, queue, threads, world, history
<1>1. ASSUME NEW th \in Thread, NEW cmds \in Batches, Receive(th, cmds) PROVE Outcome'
    BY <1>1 DEF Receive, Goto
<1>2. ASSUME NEW th \in Thread, AddCommands(th) PROVE Outcome'
    BY <1>2 DEF AddCommands, Goto
<1>3. ASSUME NEW th \in Thread, NEW t \in tasks, NextRunnable(th, t) PROVE Outcome'
    BY <1>3 DEF NextRunnable, Goto, Runnable
<1>4. ASSUME NEW th \in Thread, NothingRunnable(th) PROVE Outcome'
    BY <1>4 DEF NothingRunnable, Leave, Goto
<1>5. ASSUME NEW th \in Thread, JitterCancelled(th) PROVE Outcome'
    BY <1>5 DEF JitterCancelled, Leave, Goto
<1>6. ASSUME NEW th \in Thread, JitterOver(th) PROVE Outcome'
    BY <1>6 DEF JitterOver, Goto
<1>7. ASSUME NEW th \in Thread, ExecuteOk(th) PROVE Outcome'
    BY <1>7 DEF ExecuteOk, Goto
<1>8. ASSUME NEW th \in Thread, ExecuteFails(th) PROVE Outcome'
    BY <1>8 DEF ExecuteFails, Goto
<1>9. ASSUME NEW th \in Thread, HandleFailure(th) PROVE Outcome'
    BY <1>9 DEF HandleFailure, Goto
<1>10. ASSUME NEW th \in Thread, ReportOk(th) PROVE Outcome'
    BY <1>10 DEF ReportOk, Goto, AfterReport, ReportLabel, StatusAt
<1>11. ASSUME NEW th \in Thread, ReportErrs(th) PROVE Outcome'
    BY <1>11 DEF ReportErrs, Goto, AfterReport, ReportLabel, StatusAt
<1>12. ASSUME NEW th \in Thread, HandleSuccess(th) PROVE Outcome'
    BY <1>12 DEF HandleSuccess, Goto
<1>13. CASE ConsumeAppsChanged
    BY <1>13 DEF ConsumeAppsChanged
<1>14. ASSUME NEW t \in Task, RetryClock(t) PROVE Outcome'
    BY <1>14 DEF RetryClock
<1>15. CASE Cancel \/ Connect \/ Disconnect
    BY <1>15 DEF Cancel, Connect, Disconnect
<1>16. CASE NewProcess
    BY <1>16 DEF NewProcess
<1>17. CASE UNCHANGED vars
    BY <1>17 DEF vars
<1>18. QED
    BY <1>1, <1>2, <1>3, <1>4, <1>5, <1>6, <1>7,
       <1>8, <1>9, <1>10, <1>11, <1>12, <1>13, <1>14, <1>15, <1>16, <1>17 DEF Next, ProcessStep, Stop, Crash

\* Only a goroutine past a successful install writes success at the server.
LEMMA SuccessIsTrueStep == TypeOK /\ Outcome /\ SuccessIsTrue /\ [Next]_vars => SuccessIsTrue'
<1> SUFFICES ASSUME TypeOK, Outcome, SuccessIsTrue, [Next]_vars PROVE SuccessIsTrue'
    OBVIOUS
<1> USE DEF TypeOK, Outcome, SuccessIsTrue, queue, threads, world, history
<1>1. ASSUME NEW th \in Thread, NEW cmds \in Batches, Receive(th, cmds) PROVE SuccessIsTrue'
    BY <1>1 DEF Receive, Goto
<1>2. ASSUME NEW th \in Thread, AddCommands(th) PROVE SuccessIsTrue'
    BY <1>2 DEF AddCommands, Goto
<1>3. ASSUME NEW th \in Thread, NEW t \in tasks, NextRunnable(th, t) PROVE SuccessIsTrue'
    BY <1>3 DEF NextRunnable, Goto, Runnable
<1>4. ASSUME NEW th \in Thread, NothingRunnable(th) PROVE SuccessIsTrue'
    BY <1>4 DEF NothingRunnable, Leave, Goto
<1>5. ASSUME NEW th \in Thread, JitterCancelled(th) PROVE SuccessIsTrue'
    BY <1>5 DEF JitterCancelled, Leave, Goto
<1>6. ASSUME NEW th \in Thread, JitterOver(th) PROVE SuccessIsTrue'
    BY <1>6 DEF JitterOver, Goto
<1>7. ASSUME NEW th \in Thread, ExecuteOk(th) PROVE SuccessIsTrue'
    BY <1>7 DEF ExecuteOk, Goto
<1>8. ASSUME NEW th \in Thread, ExecuteFails(th) PROVE SuccessIsTrue'
    BY <1>8 DEF ExecuteFails, Goto
<1>9. ASSUME NEW th \in Thread, HandleFailure(th) PROVE SuccessIsTrue'
    BY <1>9 DEF HandleFailure, Goto
<1>10. ASSUME NEW th \in Thread, ReportOk(th) PROVE SuccessIsTrue'
    BY <1>10 DEF ReportOk, Goto, AfterReport, ReportLabel, StatusAt
<1>11. ASSUME NEW th \in Thread, ReportErrs(th) PROVE SuccessIsTrue'
    BY <1>11 DEF ReportErrs, Goto, AfterReport, ReportLabel, StatusAt
<1>12. ASSUME NEW th \in Thread, HandleSuccess(th) PROVE SuccessIsTrue'
    BY <1>12 DEF HandleSuccess, Goto
<1>13. CASE ConsumeAppsChanged
    BY <1>13 DEF ConsumeAppsChanged
<1>14. ASSUME NEW t \in Task, RetryClock(t) PROVE SuccessIsTrue'
    BY <1>14 DEF RetryClock
<1>15. CASE Cancel \/ Connect \/ Disconnect
    BY <1>15 DEF Cancel, Connect, Disconnect
<1>16. CASE NewProcess
    BY <1>16 DEF NewProcess
<1>17. CASE UNCHANGED vars
    BY <1>17 DEF vars
<1>18. QED
    BY <1>1, <1>2, <1>3, <1>4, <1>5, <1>6, <1>7,
       <1>8, <1>9, <1>10, <1>11, <1>12, <1>13, <1>14, <1>15, <1>16, <1>17 DEF Next, ProcessStep, Stop, Crash

\* A task that succeeded is removed by its own goroutine before anything else.
LEMMA SuccessOnItsWayStep == TypeOK /\ LockHeld /\ InHand /\ SuccessOnItsWay /\ [Next]_vars => SuccessOnItsWay'
<1> SUFFICES ASSUME TypeOK, LockHeld, InHand, SuccessOnItsWay, [Next]_vars PROVE SuccessOnItsWay'
    OBVIOUS
<1> USE ThreadAssumption DEF TypeOK, LockHeld, InHand, SuccessOnItsWay, Label, Holding, Working, NoThread, queue, threads, world, history
<1>1. ASSUME NEW th \in Thread, NEW cmds \in Batches, Receive(th, cmds) PROVE SuccessOnItsWay'
    BY <1>1 DEF Receive, Goto
<1>2. ASSUME NEW th \in Thread, AddCommands(th) PROVE SuccessOnItsWay'
    BY <1>2 DEF AddCommands, Goto
<1>3. ASSUME NEW th \in Thread, NEW t \in tasks, NextRunnable(th, t) PROVE SuccessOnItsWay'
    BY <1>3 DEF NextRunnable, Goto, Runnable
<1>4. ASSUME NEW th \in Thread, NothingRunnable(th) PROVE SuccessOnItsWay'
    BY <1>4 DEF NothingRunnable, Leave, Goto
<1>5. ASSUME NEW th \in Thread, JitterCancelled(th) PROVE SuccessOnItsWay'
    BY <1>5 DEF JitterCancelled, Leave, Goto
<1>6. ASSUME NEW th \in Thread, JitterOver(th) PROVE SuccessOnItsWay'
    BY <1>6 DEF JitterOver, Goto
<1>7. ASSUME NEW th \in Thread, ExecuteOk(th) PROVE SuccessOnItsWay'
    BY <1>7 DEF ExecuteOk, Goto
<1>8. ASSUME NEW th \in Thread, ExecuteFails(th) PROVE SuccessOnItsWay'
    BY <1>8 DEF ExecuteFails, Goto
<1>9. ASSUME NEW th \in Thread, HandleFailure(th) PROVE SuccessOnItsWay'
    BY <1>9 DEF HandleFailure, Goto
<1>10. ASSUME NEW th \in Thread, ReportOk(th) PROVE SuccessOnItsWay'
    BY <1>10 DEF ReportOk, Goto, AfterReport, ReportLabel, StatusAt
<1>11. ASSUME NEW th \in Thread, ReportErrs(th) PROVE SuccessOnItsWay'
    BY <1>11 DEF ReportErrs, Goto, AfterReport, ReportLabel, StatusAt
<1>12. ASSUME NEW th \in Thread, HandleSuccess(th) PROVE SuccessOnItsWay'
    BY <1>12 DEF HandleSuccess, Goto
<1>13. CASE ConsumeAppsChanged
    BY <1>13 DEF ConsumeAppsChanged
<1>14. ASSUME NEW t \in Task, RetryClock(t) PROVE SuccessOnItsWay'
    BY <1>14 DEF RetryClock
<1>15. CASE Cancel \/ Connect \/ Disconnect
    BY <1>15 DEF Cancel, Connect, Disconnect
<1>16. CASE NewProcess
    BY <1>16 DEF NewProcess
<1>17. CASE UNCHANGED vars
    BY <1>17 DEF vars
<1>18. QED
    BY <1>1, <1>2, <1>3, <1>4, <1>5, <1>6, <1>7,
       <1>8, <1>9, <1>10, <1>11, <1>12, <1>13, <1>14, <1>15, <1>16, <1>17 DEF Next, ProcessStep, Stop, Crash
\* Each run is counted by handleFailure before the next one starts.
LEMMA RunsCountedStep == TypeOK /\ LockHeld /\ InHand /\ RetryOnlyQueued /\ RunsCounted /\ [Next]_vars => RunsCounted'
<1> SUFFICES ASSUME TypeOK, LockHeld, InHand, RetryOnlyQueued, RunsCounted, [Next]_vars PROVE RunsCounted'
    OBVIOUS
<1> USE BoundAssumption, ThreadAssumption DEF TypeOK, LockHeld, InHand, RetryOnlyQueued, RunsCounted, RunOpen, Label, Holding, Working, NoThread, queue, threads, world, history
<1>1. ASSUME NEW th \in Thread, NEW cmds \in Batches, Receive(th, cmds) PROVE RunsCounted'
    BY <1>1 DEF Receive, Goto
<1>2. ASSUME NEW th \in Thread, AddCommands(th) PROVE RunsCounted'
    BY <1>2 DEF AddCommands, Goto
<1>3. ASSUME NEW th \in Thread, NEW t \in tasks, NextRunnable(th, t) PROVE RunsCounted'
    BY <1>3 DEF NextRunnable, Goto, Runnable
<1>4. ASSUME NEW th \in Thread, NothingRunnable(th) PROVE RunsCounted'
    BY <1>4 DEF NothingRunnable, Leave, Goto
<1>5. ASSUME NEW th \in Thread, JitterCancelled(th) PROVE RunsCounted'
    BY <1>5 DEF JitterCancelled, Leave, Goto
<1>6. ASSUME NEW th \in Thread, JitterOver(th) PROVE RunsCounted'
    BY <1>6 DEF JitterOver, Goto
<1>7. ASSUME NEW th \in Thread, ExecuteOk(th) PROVE RunsCounted'
    BY <1>7 DEF ExecuteOk, Goto
<1>8. ASSUME NEW th \in Thread, ExecuteFails(th) PROVE RunsCounted'
    BY <1>8 DEF ExecuteFails, Goto
<1>9. ASSUME NEW th \in Thread, HandleFailure(th) PROVE RunsCounted'
    BY <1>9 DEF HandleFailure, Goto
<1>10. ASSUME NEW th \in Thread, ReportOk(th) PROVE RunsCounted'
    BY <1>10 DEF ReportOk, Goto, AfterReport, ReportLabel, StatusAt
<1>11. ASSUME NEW th \in Thread, ReportErrs(th) PROVE RunsCounted'
    BY <1>11 DEF ReportErrs, Goto, AfterReport, ReportLabel, StatusAt
<1>12. ASSUME NEW th \in Thread, HandleSuccess(th) PROVE RunsCounted'
    BY <1>12 DEF HandleSuccess, Goto
<1>13. CASE ConsumeAppsChanged
    BY <1>13 DEF ConsumeAppsChanged
<1>14. ASSUME NEW t \in Task, RetryClock(t) PROVE RunsCounted'
    BY <1>14 DEF RetryClock
<1>15. CASE Cancel \/ Connect \/ Disconnect
    BY <1>15 DEF Cancel, Connect, Disconnect
<1>16. CASE NewProcess
    BY <1>16 DEF NewProcess
<1>17. CASE UNCHANGED vars
    BY <1>17 DEF vars
<1>18. QED
    BY <1>1, <1>2, <1>3, <1>4, <1>5, <1>6, <1>7,
       <1>8, <1>9, <1>10, <1>11, <1>12, <1>13, <1>14, <1>15, <1>16, <1>17 DEF Next, ProcessStep, Stop, Crash

\* A unit of delay is either still to wait or has passed.
LEMMA DelayAccountedStep == TypeOK /\ LockHeld /\ InHand /\ RetryOnlyQueued /\ DelayAccounted /\ [Next]_vars => DelayAccounted'
<1> SUFFICES ASSUME TypeOK, LockHeld, InHand, RetryOnlyQueued, DelayAccounted, [Next]_vars PROVE DelayAccounted'
    OBVIOUS
<1> USE BoundAssumption, ThreadAssumption DEF TypeOK, LockHeld, InHand, RetryOnlyQueued, DelayAccounted, RunOpen, Label, Holding, Working, NoThread, queue, threads, world, history
<1>1. ASSUME NEW th \in Thread, NEW cmds \in Batches, Receive(th, cmds) PROVE DelayAccounted'
    BY <1>1 DEF Receive, Goto
<1>2. ASSUME NEW th \in Thread, AddCommands(th) PROVE DelayAccounted'
    BY <1>2 DEF AddCommands, Goto
<1>3. ASSUME NEW th \in Thread, NEW t \in tasks, NextRunnable(th, t) PROVE DelayAccounted'
    BY <1>3 DEF NextRunnable, Goto, Runnable
<1>4. ASSUME NEW th \in Thread, NothingRunnable(th) PROVE DelayAccounted'
    BY <1>4 DEF NothingRunnable, Leave, Goto
<1>5. ASSUME NEW th \in Thread, JitterCancelled(th) PROVE DelayAccounted'
    BY <1>5 DEF JitterCancelled, Leave, Goto
<1>6. ASSUME NEW th \in Thread, JitterOver(th) PROVE DelayAccounted'
    BY <1>6 DEF JitterOver, Goto
<1>7. ASSUME NEW th \in Thread, ExecuteOk(th) PROVE DelayAccounted'
    BY <1>7 DEF ExecuteOk, Goto
<1>8. ASSUME NEW th \in Thread, ExecuteFails(th) PROVE DelayAccounted'
    BY <1>8 DEF ExecuteFails, Goto
<1>9. ASSUME NEW th \in Thread, HandleFailure(th) PROVE DelayAccounted'
    BY <1>9 DEF HandleFailure, Goto
<1>10. ASSUME NEW th \in Thread, ReportOk(th) PROVE DelayAccounted'
    BY <1>10 DEF ReportOk, Goto, AfterReport, ReportLabel, StatusAt
<1>11. ASSUME NEW th \in Thread, ReportErrs(th) PROVE DelayAccounted'
    BY <1>11 DEF ReportErrs, Goto, AfterReport, ReportLabel, StatusAt
<1>12. ASSUME NEW th \in Thread, HandleSuccess(th) PROVE DelayAccounted'
    BY <1>12 DEF HandleSuccess, Goto
<1>13. CASE ConsumeAppsChanged
    BY <1>13 DEF ConsumeAppsChanged
<1>14. ASSUME NEW t \in Task, RetryClock(t) PROVE DelayAccounted'
    BY <1>14 DEF RetryClock
<1>15. CASE Cancel \/ Connect \/ Disconnect
    BY <1>15 DEF Cancel, Connect, Disconnect
<1>16. CASE NewProcess
    BY <1>16 DEF NewProcess
<1>17. CASE UNCHANGED vars
    BY <1>17 DEF vars
<1>18. QED
    BY <1>1, <1>2, <1>3, <1>4, <1>5, <1>6, <1>7,
       <1>8, <1>9, <1>10, <1>11, <1>12, <1>13, <1>14, <1>15, <1>16, <1>17 DEF Next, ProcessStep, Stop, Crash

\* The list of installed versions changes only with appsChanged.
LEMMA AppsTrackedStep == TypeOK /\ LockHeld /\ InHand /\ Outcome /\ SuccessOnItsWay /\ AppsTracked /\ [Next]_vars => AppsTracked'
<1> SUFFICES ASSUME TypeOK, LockHeld, InHand, Outcome, SuccessOnItsWay, AppsTracked, [Next]_vars PROVE AppsTracked'
    OBVIOUS
<1> USE AppAssumption, ThreadAssumption DEF TypeOK, LockHeld, InHand, Outcome, SuccessOnItsWay, AppsTracked, AtWork, Label, Holding, Working, NoThread, queue, threads, world, history
<1>1. ASSUME NEW th \in Thread, NEW cmds \in Batches, Receive(th, cmds) PROVE AppsTracked'
    BY <1>1 DEF Receive, Goto
<1>2. ASSUME NEW th \in Thread, AddCommands(th) PROVE AppsTracked'
    BY <1>2 DEF AddCommands, Goto
<1>3. ASSUME NEW th \in Thread, NEW t \in tasks, NextRunnable(th, t) PROVE AppsTracked'
    BY <1>3 DEF NextRunnable, Goto, Runnable
<1>4. ASSUME NEW th \in Thread, NothingRunnable(th) PROVE AppsTracked'
    BY <1>4 DEF NothingRunnable, Leave, Goto
<1>5. ASSUME NEW th \in Thread, JitterCancelled(th) PROVE AppsTracked'
    BY <1>5 DEF JitterCancelled, Leave, Goto
<1>6. ASSUME NEW th \in Thread, JitterOver(th) PROVE AppsTracked'
    BY <1>6 DEF JitterOver, Goto
<1>7. ASSUME NEW th \in Thread, ExecuteOk(th) PROVE AppsTracked'
    BY <1>7 DEF ExecuteOk, Goto
<1>8. ASSUME NEW th \in Thread, ExecuteFails(th) PROVE AppsTracked'
    BY <1>8 DEF ExecuteFails, Goto
<1>9. ASSUME NEW th \in Thread, HandleFailure(th) PROVE AppsTracked'
    BY <1>9 DEF HandleFailure, Goto
<1>10. ASSUME NEW th \in Thread, ReportOk(th) PROVE AppsTracked'
    BY <1>10 DEF ReportOk, Goto, AfterReport, ReportLabel, StatusAt
<1>11. ASSUME NEW th \in Thread, ReportErrs(th) PROVE AppsTracked'
    BY <1>11 DEF ReportErrs, Goto, AfterReport, ReportLabel, StatusAt
<1>12. ASSUME NEW th \in Thread, HandleSuccess(th) PROVE AppsTracked'
    BY <1>12 DEF HandleSuccess, Goto
<1>13. CASE ConsumeAppsChanged
    BY <1>13 DEF ConsumeAppsChanged
<1>14. ASSUME NEW t \in Task, RetryClock(t) PROVE AppsTracked'
    BY <1>14 DEF RetryClock
<1>15. CASE Cancel \/ Connect \/ Disconnect
    BY <1>15 DEF Cancel, Connect, Disconnect
<1>16. CASE NewProcess
    BY <1>16 DEF NewProcess
<1>17. CASE UNCHANGED vars
    BY <1>17 DEF vars
<1>18. QED
    BY <1>1, <1>2, <1>3, <1>4, <1>5, <1>6, <1>7,
       <1>8, <1>9, <1>10, <1>11, <1>12, <1>13, <1>14, <1>15, <1>16, <1>17 DEF Next, ProcessStep, Stop, Crash
\* The inductive invariant holds when a process starts for the first time.
LEMMA IInvInit == Init => IInv
<1> SUFFICES ASSUME Init PROVE IInv
    OBVIOUS
<1>1. TypeOK
    BY TypeInit
<1>2. LockHeld /\ InHand /\ Outcome
    BY ThreadAssumption DEF Init, LockHeld, InHand, Outcome, Holding, Working, ReportLabel, Label, NoThread
<1>3. RetryOnlyQueued /\ SuccessIsTrue /\ SuccessOnItsWay /\ DelayAccounted
    BY DEF Init, RetryOnlyQueued, SuccessIsTrue, SuccessOnItsWay, DelayAccounted
<1>4. RunsCounted
    BY BoundAssumption DEF Init, RunsCounted
<1>5. AppsTracked
    BY DEF Init, AppsTracked
<1>6. QED
    BY <1>1, <1>2, <1>3, <1>4, <1>5 DEF IInv

\* Every step keeps the inductive invariant.
LEMMA IInvStep == IInv /\ [Next]_vars => IInv'
<1> SUFFICES ASSUME IInv, [Next]_vars PROVE IInv'
    OBVIOUS
<1>1. TypeOK' /\ LockHeld' /\ InHand'
    BY TypeStep, LockStep, InHandStep DEF IInv
<1>2. RetryOnlyQueued' /\ Outcome' /\ SuccessIsTrue'
    BY RetryOnlyQueuedStep, OutcomeStep, SuccessIsTrueStep DEF IInv
<1>3. SuccessOnItsWay' /\ RunsCounted'
    BY SuccessOnItsWayStep, RunsCountedStep DEF IInv
<1>4. DelayAccounted' /\ AppsTracked'
    BY DelayAccountedStep, AppsTrackedStep DEF IInv
<1>5. QED
    BY <1>1, <1>2, <1>3, <1>4 DEF IInv

\* The inductive invariant holds in every reachable state.
THEOREM Inductive == Spec => []IInv
<1>1. Init => IInv
    BY IInvInit
<1>2. IInv /\ [Next]_vars => IInv'
    BY IInvStep
<1>3. QED
    BY <1>1, <1>2, PTL DEF Spec

\* Type correctness of the queue, its callers and their histories.
THEOREM TypeCorrect == Spec => []TypeOK
<1>1. IInv => TypeOK
    BY DEF IInv
<1>2. QED
    BY <1>1, Inductive, PTL

\* Any number of goroutines may call processCommands, and yet one task at most
\* is between nextRunnable and the end of its run, one installer at a time, and
\* no critical section of q.mu takes it out of the queue meanwhile.
THEOREM OneAtATime == Spec => []OneTaskInHand
<1>1. IInv => OneTaskInHand
  <2> SUFFICES ASSUME IInv PROVE Cardinality(AtWork) <= 1 /\ \A th \in AtWork : cur[th] \in tasks
      BY DEF OneTaskInHand
  <2>1. AtWork \subseteq {stateMu}
      BY DEF IInv, LockHeld, AtWork, Working, Holding, Label
  <2>2. IsFiniteSet({stateMu}) /\ Cardinality({stateMu}) = 1
      BY FS_Singleton
  <2>3. Cardinality(AtWork) <= Cardinality({stateMu})
      BY <2>1, <2>2, FS_Subset
  <2>4. \A th \in AtWork : cur[th] \in tasks
      BY DEF IInv, InHand, AtWork
  <2>5. QED
      BY <2>2, <2>3, <2>4
<1>2. QED
    BY <1>1, Inductive, PTL

\* A task never enters the queue with the retry entry of an earlier life.
THEOREM NoStaleRetry == Spec => []RetryOnlyQueued
<1>1. IInv => RetryOnlyQueued
    BY DEF IInv
<1>2. QED
    BY <1>1, Inductive, PTL

\* A delivered task is run at most MaxRetries times, for every MaxRetries.
THEOREM RunsBounded == Spec => []RunsCounted
<1>1. IInv => RunsCounted
    BY DEF IInv
<1>2. QED
    BY <1>1, Inductive, PTL

\* The server shows success only for a task that was installed.
THEOREM ServerSuccessIsTrue == Spec => []SuccessIsTrue
<1>1. IInv => SuccessIsTrue
    BY DEF IInv
<1>2. QED
    BY <1>1, Inductive, PTL

\* The version list given to the heartbeat goroutine is the list of the last
\* successful installs.
THEOREM AppsListTracked == Spec => []AppsTracked
<1>1. IInv => AppsTracked
    BY DEF IInv
<1>2. QED
    BY <1>1, Inductive, PTL

\* A step that runs an installer runs it for a task that has not succeeded
\* since it was queued.
LEMMA NoRerunStep ==
  IInv /\ [Next]_vars =>
    \A t \in Task : t \in succeeded => tries'[t] = tries[t] \/ t \notin succeeded'
<1> SUFFICES ASSUME IInv, [Next]_vars, NEW t \in Task, t \in succeeded
             PROVE tries'[t] = tries[t] \/ t \notin succeeded'
    OBVIOUS
<1> USE DEF IInv, TypeOK, queue, threads, world, history
<1>1. ASSUME NEW th \in Thread, ExecuteOk(th) \/ ExecuteFails(th) PROVE tries'[t] = tries[t]
  <2>1. pc[th] = "execute" /\ cur[th] \in tasks
      BY <1>1 DEF ExecuteOk, ExecuteFails, InHand, Working
  <2>2. \A u \in Thread : pc[u] \notin {"reportSuccess", "handleSuccess"}
      BY <2>1 DEF LockHeld, Holding, Label
  <2>3. cur[th] # t
      BY <2>1, <2>2 DEF SuccessOnItsWay
  <2>4. QED
      BY <1>1, <2>3 DEF ExecuteOk, ExecuteFails
<1>2. ASSUME NEW th \in Thread, AddCommands(th) PROVE tries'[t] = tries[t] \/ t \notin succeeded'
    BY <1>2 DEF AddCommands
<1>3. ASSUME NewProcess PROVE t \notin succeeded'
    BY <1>3 DEF NewProcess
<1>4. ASSUME UNCHANGED tries PROVE tries'[t] = tries[t]
    BY <1>4
<1>5. QED
    BY <1>1, <1>2, <1>3, <1>4 DEF Next, ProcessStep, Stop, Crash, Receive, NextRunnable, NothingRunnable,
       Leave, JitterCancelled, JitterOver, HandleFailure, ReportOk, ReportErrs, HandleSuccess,
       ConsumeAppsChanged, RetryClock, Cancel, Connect, Disconnect, vars

\* An install that succeeded is never repeated by a lost success report.
THEOREM NoRerun == Spec => NoRerunAfterSuccess
<1>1. Spec => []IInv
    BY Inductive
<1>2. QED
    BY <1>1, NoRerunStep, PTL DEF Spec, NoRerunAfterSuccess

\* A step that runs an installer again does so after the whole delay.
LEMMA BackoffStep ==
  IInv /\ [Next]_vars =>
    \A t \in tasks : t \in tasks' /\ tries'[t] > tries[t] => since[t] >= retryCount[t]
<1> SUFFICES ASSUME IInv, [Next]_vars, NEW t \in tasks, t \in tasks', tries'[t] > tries[t]
             PROVE since[t] >= retryCount[t]
    OBVIOUS
<1> USE DEF IInv, TypeOK, queue, threads, world, history
<1>1. ASSUME NEW th \in Thread, ExecuteOk(th) \/ ExecuteFails(th) PROVE since[t] >= retryCount[t]
  <2>1. pc[th] = "execute" /\ cur[th] = t
      BY <1>1 DEF ExecuteOk, ExecuteFails
  <2>2. retryWait[t] = 0
      BY <2>1 DEF InHand, Working
  <2>3. ~ RunOpen(t)
      BY <2>1 DEF RunOpen, LockHeld, Holding, Label
  <2>4. QED
      BY <2>2, <2>3 DEF DelayAccounted
<1>2. ASSUME NEW th \in Thread, AddCommands(th) PROVE FALSE
    BY <1>2 DEF AddCommands
<1>3. ASSUME NewProcess PROVE FALSE
    BY <1>3 DEF NewProcess
<1>4. ASSUME UNCHANGED tries PROVE FALSE
    BY <1>4
<1>5. QED
    BY <1>1, <1>2, <1>3, <1>4 DEF Next, ProcessStep, Stop, Crash, Receive, NextRunnable, NothingRunnable,
       Leave, JitterCancelled, JitterOver, HandleFailure, ReportOk, ReportErrs, HandleSuccess,
       ConsumeAppsChanged, RetryClock, Cancel, Connect, Disconnect, vars

\* The k-th retry of a task starts no earlier than k units of five minutes after
\* the failure before it, whichever goroutine runs it.
THEOREM Backoff == Spec => BackoffKept
<1>1. Spec => []IInv
    BY Inductive
<1>2. QED
    BY <1>1, BackoffStep, PTL DEF Spec, BackoffKept

\* A step that leaves the queue, and who has which task in hand, as they are
\* is a stutter of the life cycle.
LEMMA PhaseStutter ==
  (tasks' = tasks /\ retryCount' = retryCount /\ \A t \in Task : Running(t)' = Running(t))
    => UNCHANGED <<Phase, retryCount>>
BY DEF Phase

\* While a goroutine has its task in hand, no other task is running.
LEMMA AloneRunning ==
  ASSUME IInv, NEW th \in Thread, pc[th] \in Holding
  PROVE  \A t \in Task : Running(t) <=> pc[th] \in Working /\ cur[th] = t
BY DEF IInv, LockHeld, Running, AtWork, Holding, Working, Label

\* Every step of the queue is a step of the life cycle or a stutter.
LEMMA LifecycleStep ==
  IInv /\ IInv' /\ [Next]_vars => [Lifecycle!AbsNext]_(Lifecycle!absVars)
<1> SUFFICES ASSUME IInv, IInv', [Next]_vars
             PROVE  Lifecycle!AbsNext \/ UNCHANGED <<Phase, retryCount>>
    BY DEF Lifecycle!absVars
<1> USE DEF IInv, TypeOK, queue, threads, world, history
<1>1. ASSUME NEW th \in Thread, AddCommands(th) PROVE Lifecycle!AbsNext
  <2>1. PICK S \in SUBSET Task : S = batch[th] \ {0}
      BY DEF IInv, TypeOK
  <2>2. \A t \in Task : ~ Running(t) /\ ~ Running(t)'
      BY <1>1, ThreadAssumption DEF AddCommands, Goto, Running, AtWork, LockHeld, Holding, Working, Label, NoThread
  <2>3. tasks' = tasks \cup S /\ retryCount' = retryCount
      BY <1>1, <2>1 DEF AddCommands
  <2>4. Lifecycle!Submit(S)
      BY <2>2, <2>3 DEF Lifecycle!Submit, Phase
  <2>5. QED
      BY <2>4 DEF Lifecycle!AbsNext
<1>2. ASSUME NEW th \in Thread, NEW t \in tasks, NextRunnable(th, t) PROVE Lifecycle!AbsNext
  <2>1. pc[th] = "next" /\ pc'[th] \in {"jitter", "execute"} /\ cur'[th] = t
      BY <1>2 DEF NextRunnable, Goto
  <2>2. \A u \in Task : ~ Running(u)
      BY <2>1, AloneRunning DEF Holding, Label, Working
  <2>3. \A u \in Task : Running(u)' <=> u = t
      BY <1>2, <2>1 DEF NextRunnable, Goto, Running, AtWork, LockHeld, Holding, Working, Label
  <2>4. tasks' = tasks /\ retryCount' = retryCount
      BY <1>2 DEF NextRunnable
  <2>5. Lifecycle!Start(t)
      BY <2>2, <2>3, <2>4 DEF Lifecycle!Start, Phase
  <2>6. QED
      BY <2>5 DEF Lifecycle!AbsNext
<1>3. ASSUME NEW th \in Thread, JitterCancelled(th) PROVE Lifecycle!AbsNext
  <2>1. pc[th] = "jitter" /\ pc'[th] = "idle" /\ cur[th] \in tasks
      BY <1>3 DEF JitterCancelled, Leave, Goto, InHand, Working
  <2>2. \A u \in Task : Running(u) <=> u = cur[th]
      BY <2>1, AloneRunning DEF Holding, Label, Working
  <2>3. \A u \in Task : ~ Running(u)'
      BY <1>3, <2>1 DEF JitterCancelled, Leave, Goto, Running, AtWork, LockHeld, Holding, Working, Label
  <2>4. tasks' = tasks /\ retryCount' = retryCount
      BY <1>3 DEF JitterCancelled, Leave
  <2>5. Lifecycle!Abandon(cur[th])
      BY <2>1, <2>2, <2>3, <2>4 DEF Lifecycle!Abandon, Phase
  <2>6. QED
      BY <2>1, <2>5 DEF Lifecycle!AbsNext
<1>4. ASSUME NEW th \in Thread, HandleFailure(th) PROVE Lifecycle!AbsNext
  <2>1. pc[th] = "handleFailure" /\ pc'[th] = "reportFailed" /\ cur[th] \in tasks
      BY <1>4 DEF HandleFailure, Goto, InHand, Working
  <2>2. \A u \in Task : Running(u) <=> u = cur[th]
      BY <2>1, AloneRunning DEF Holding, Label, Working
  <2>3. \A u \in Task : ~ Running(u)'
      BY <1>4, <2>1 DEF HandleFailure, Goto, Running, AtWork, LockHeld, Holding, Working, Label
  <2>4. CASE retryCount[cur[th]] + 1 >= MaxRetries
    <3>1. retryCount[cur[th]] + 1 = MaxRetries
        BY <2>1, <2>4, BoundAssumption
    <3>2. tasks' = tasks \ {cur[th]} /\ retryCount' = [retryCount EXCEPT ![cur[th]] = 0]
      <4> HIDE DEF IInv, TypeOK
      <4>1. QED
          BY <1>4, <2>4 DEF HandleFailure
    <3>3. Phase' = [Phase EXCEPT ![cur[th]] = "absent"]
        BY <2>1, <2>2, <2>3, <3>2 DEF Phase
    <3>4. Phase[cur[th]] = "running"
        BY <2>1, <2>2 DEF Phase
    <3>5. Lifecycle!Fail(cur[th])
        BY <3>1, <3>2, <3>3, <3>4 DEF Lifecycle!Fail
    <3>6. QED
        BY <2>1, <3>5 DEF Lifecycle!AbsNext
  <2>5. CASE ~ (retryCount[cur[th]] + 1 >= MaxRetries)
    <3>1. Lifecycle!Fail(cur[th])
      <4>1. /\ tasks' = tasks
            /\ retryCount' = [retryCount EXCEPT ![cur[th]] = @ + 1]
          BY <1>4, <2>5 DEF HandleFailure
      <4>2. retryCount[cur[th]] + 1 < MaxRetries
          BY <2>1, <2>5, BoundAssumption
      <4>3. Phase' = [Phase EXCEPT ![cur[th]] = "queued"]
          BY <2>1, <2>2, <2>3, <4>1 DEF Phase
      <4>4. Phase[cur[th]] = "running"
          BY <2>1, <2>2 DEF Phase
      <4>5. QED
          BY <4>1, <4>2, <4>3, <4>4 DEF Lifecycle!Fail
    <3>2. QED
        BY <2>1, <3>1 DEF Lifecycle!AbsNext
  <2>6. QED
      BY <2>4, <2>5
<1>5. ASSUME NEW th \in Thread, HandleSuccess(th) PROVE Lifecycle!AbsNext
  <2>1. pc[th] = "handleSuccess" /\ pc'[th] = "next" /\ cur[th] \in tasks
      BY <1>5 DEF HandleSuccess, Goto, InHand, Working
  <2>2. \A u \in Task : Running(u) <=> u = cur[th]
      BY <2>1, AloneRunning DEF Holding, Label, Working
  <2>3. \A u \in Task : ~ Running(u)'
      BY <1>5, <2>1 DEF HandleSuccess, Goto, Running, AtWork, LockHeld, Holding, Working, Label
  <2>4. Lifecycle!Succeed(cur[th])
      BY <1>5, <2>1, <2>2, <2>3 DEF HandleSuccess, Lifecycle!Succeed, Phase
  <2>5. QED
      BY <2>1, <2>4 DEF Lifecycle!AbsNext
<1>6. ASSUME NewProcess PROVE Lifecycle!AbsNext
  <2>1. Lifecycle!Forget
      BY <1>6 DEF NewProcess, Lifecycle!Forget, Phase
  <2>2. QED
      BY <2>1 DEF Lifecycle!AbsNext
<1>7. ASSUME NEW th \in Thread,
             NothingRunnable(th) \/ JitterOver(th) \/ ExecuteOk(th) \/ ExecuteFails(th)
               \/ ReportOk(th) \/ ReportErrs(th)
      PROVE UNCHANGED <<Phase, retryCount>>
  <2>1. tasks' = tasks /\ retryCount' = retryCount
      BY <1>7 DEF NothingRunnable, Leave, JitterOver, ExecuteOk, ExecuteFails, ReportOk, ReportErrs
  <2>2. pc[th] \in Holding /\ (pc[th] \in Working <=> pc'[th] \in Working)
      BY <1>7 DEF NothingRunnable, Leave, JitterOver, ExecuteOk, ExecuteFails, ReportOk, ReportErrs,
                  Goto, AfterReport, ReportLabel, Holding, Working, Label
  <2>3. /\ \A u \in Thread \ {th} : pc'[u] = pc[u] /\ cur'[u] = cur[u]
        /\ pc[th] \in Working => cur'[th] = cur[th]
      BY <1>7 DEF NothingRunnable, Leave, JitterOver, ExecuteOk, ExecuteFails, ReportOk, ReportErrs,
                  Goto, Working
  <2>4. \A t \in Task : Running(t)' = Running(t)
      BY <2>2, <2>3 DEF Running, AtWork
  <2>5. QED
      BY <2>1, <2>4, PhaseStutter
<1>8. ASSUME NEW th \in Thread, NEW cmds \in Batches, Receive(th, cmds)
      PROVE UNCHANGED <<Phase, retryCount>>
  <2>1. tasks' = tasks /\ retryCount' = retryCount
      BY <1>8 DEF Receive
  <2>2. \A t \in Task : Running(t)' = Running(t)
      BY <1>8 DEF Receive, Goto, Running, AtWork, Working, Label
  <2>3. QED
      BY <2>1, <2>2, PhaseStutter
<1>9. ASSUME \/ ConsumeAppsChanged
             \/ \E t \in Task : RetryClock(t)
             \/ Cancel \/ Connect \/ Disconnect
             \/ UNCHANGED vars
      PROVE UNCHANGED <<Phase, retryCount>>
  <2>1. tasks' = tasks /\ retryCount' = retryCount /\ pc' = pc /\ cur' = cur
      BY <1>9 DEF ConsumeAppsChanged, RetryClock, Cancel, Connect, Disconnect, vars
  <2>2. QED
      BY <2>1, PhaseStutter DEF Running, AtWork
<1>10. QED
    BY <1>1, <1>2, <1>3, <1>4, <1>5, <1>6, <1>7, <1>8, <1>9 DEF Next, ProcessStep, Stop, Crash

\* The queue, its goroutines, its timers and its restarts implement the life
\* cycle of TaskLifecycle.
THEOREM Refinement == Spec => ImplementsLifecycle
<1>1. Init => Lifecycle!AbsInit
    BY DEF Init, Lifecycle!AbsInit, Phase
<1>2. Spec => []IInv
    BY Inductive
<1>3. QED
    BY <1>1, <1>2, LifecycleStep, PTL DEF Spec, ImplementsLifecycle, Lifecycle!AbsSpec

-----------------------------------------------------------------------------
\* The steps that are left at most of a round of ProcessOne, from the task that
\* nextRunnable returned to the next call of it, the attempts of reportFn with
\* them.
StepsLeft(th) ==
  CASE pc[th] = "jitter"        -> ReportAttempts + 4
    [] pc[th] = "execute"       -> ReportAttempts + 3
    [] pc[th] = "handleFailure" -> ReportAttempts + 2
    [] pc[th] = "reportSuccess" -> ReportAttempts + 2 - attempt[th]
    [] pc[th] = "reportFailed"  -> ReportAttempts + 1 - attempt[th]
    [] pc[th] = "handleSuccess" -> 1
    [] OTHER                    -> 0

\* Nothing sends a round back or lets another goroutine move it: the time passes,
\* commands arrive at the other goroutine, reports are lost, and each step brings
\* the goroutine that has a task in hand nearer to the end of the round.
RoundAdvances ==
  [][\A th \in Thread : \/ pc[th] \in {"idle", "lock", "next"}
                        \/ pc'[th] = pc[th] /\ attempt'[th] = attempt[th]
                        \/ StepsLeft(th)' < StepsLeft(th)]_vars

LEMMA RoundStep ==
  ASSUME TypeOK, NEW th \in Thread, ProcessStep(th), pc[th] \notin {"lock", "next"}
  PROVE  /\ StepsLeft(th)' < StepsLeft(th)
         /\ \A h \in Thread \ {th} : pc'[h] = pc[h] /\ attempt'[h] = attempt[h]
<1>0. /\ pc \in [Thread -> Label] /\ attempt \in [Thread -> 0..ReportAttempts]
      /\ attempt[th] \in Int /\ attempt[th] <= ReportAttempts /\ ReportAttempts \in Int /\ ReportAttempts > 0
    BY BoundAssumption DEF TypeOK
<1>1. CASE JitterCancelled(th) \/ JitterOver(th)
    BY <1>0, <1>1 DEF JitterCancelled, JitterOver, Leave, Goto, StepsLeft
<1>2. CASE ExecuteOk(th) \/ ExecuteFails(th) \/ HandleFailure(th)
    BY <1>0, <1>2 DEF ExecuteOk, ExecuteFails, HandleFailure, Goto, StepsLeft
<1>3. CASE ReportOk(th)
    BY <1>0, <1>3 DEF ReportOk, ReportLabel, AfterReport, Goto, StepsLeft
<1>4. CASE ReportErrs(th)
    BY <1>0, <1>4 DEF ReportErrs, ReportLabel, AfterReport, Goto, StepsLeft
<1>5. CASE HandleSuccess(th)
    BY <1>0, <1>5 DEF HandleSuccess, Goto, StepsLeft
<1>6. QED
    BY <1>1, <1>2, <1>3, <1>4, <1>5 DEF ProcessStep, AddCommands, NextRunnable, NothingRunnable

\* A goroutine that holds stateMu is back at nextRunnable, or has left, after at
\* most ReportAttempts + 4 of its own steps: with RunsBounded, what QueuedTaskLeaves
\* needs apart from the scheduling.
THEOREM RoundsEnd == Spec => RoundAdvances
<1>1. ASSUME TypeOK, [Next]_vars, NEW th \in Thread
      PROVE  \/ pc[th] \in {"idle", "lock", "next"}
             \/ pc'[th] = pc[th] /\ attempt'[th] = attempt[th]
             \/ StepsLeft(th)' < StepsLeft(th)
  <2>0. /\ pc \in [Thread -> Label] /\ attempt \in [Thread -> 0..ReportAttempts]
        /\ attempt[th] \in Int /\ attempt[th] <= ReportAttempts /\ ReportAttempts \in Int /\ ReportAttempts > 0
      BY <1>1, BoundAssumption DEF TypeOK
  <2>1. ASSUME NEW h \in Thread, ProcessStep(h), h = th \/ pc[h] \notin {"lock", "next"}
        PROVE  \/ pc[th] \in {"lock", "next"}
               \/ pc'[th] = pc[th] /\ attempt'[th] = attempt[th]
               \/ StepsLeft(th)' < StepsLeft(th)
      BY <1>1, <2>1, RoundStep
  <2>2. ASSUME NEW h \in Thread \ {th}, ProcessStep(h), pc[h] \in {"lock", "next"}
        PROVE  pc'[th] = pc[th] /\ attempt'[th] = attempt[th]
      BY <2>0, <2>2 DEF ProcessStep, AddCommands, NextRunnable, NothingRunnable, JitterCancelled, JitterOver,
                        ExecuteOk, ExecuteFails, HandleFailure, ReportOk, ReportErrs, ReportLabel, HandleSuccess,
                        Leave, Goto
  <2>3. ASSUME NEW h \in Thread, NEW cmds \in Batches, Receive(h, cmds)
        PROVE  pc[th] = "idle" \/ (pc'[th] = pc[th] /\ attempt'[th] = attempt[th])
      BY <2>0, <2>3 DEF Receive, Goto
  <2>4. CASE \/ ConsumeAppsChanged \/ (\E t \in Task : RetryClock(t))
             \/ Cancel \/ Connect \/ Disconnect \/ UNCHANGED vars
      BY <2>4 DEF ConsumeAppsChanged, RetryClock, Cancel, Connect, Disconnect, vars, threads
  <2>5. CASE NewProcess
    <3>1. pc'[th] = "idle"
        BY <2>5 DEF NewProcess
    <3>2. StepsLeft(th)' = 0
        BY <3>1 DEF StepsLeft
    <3>3. pc[th] \notin {"idle", "lock", "next"} => StepsLeft(th) > 0
        BY <2>0 DEF StepsLeft, Label
    <3>4. QED
        BY <3>2, <3>3
  <2>6. QED
      BY <1>1, <2>1, <2>2, <2>3, <2>4, <2>5 DEF Next, Stop, Crash
<1>2. TypeOK /\ [Next]_vars =>
        [\A th \in Thread : \/ pc[th] \in {"idle", "lock", "next"}
                            \/ pc'[th] = pc[th] /\ attempt'[th] = attempt[th]
                            \/ StepsLeft(th)' < StepsLeft(th)]_vars
    BY <1>1
<1>3. QED
    BY <1>2, TypeCorrect, PTL DEF Spec, RoundAdvances

=============================================================================
