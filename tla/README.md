# AppCenter agent: TLA+ models, checks and proofs

The agent is a Windows service in Go that an AppCenter server manages: it sends
heartbeats, holds a WebSocket to the server, installs applications, updates
itself and its companion programs, reports inventory, shows announcements, runs
an application store and lets an operator share the user's screen. This
directory holds TLA+ models of its parts, TLC configurations that check them on
small instances, and proofs for TLAPS that hold for every instance.
`PROJECT.json` is the index: components, runs, the source lines behind each
definition, hazards, findings and theorems.

    tlc -config MCTaskQueue.cfg MCTaskQueue      # one run
    tlapm TaskQueueProofs.tla                    # one module's proofs

## 1. The system

### Parts, their state and operations

| Part | State | Operations | Model |
|---|---|---|---|
| Task queue, `internal/queue`, and `processCommands` in `cmd/service/core.go` | queued tasks, retry entries, installed applications, change flag; `stateMu` | add commands, choose, install, report, fail/succeed, hand over the list of applications | `TaskQueue`, `TaskLifecycle` |
| Remote support, `internal/remotesupport` | manager state and session, approval dialog (a process and an answer file in globals), VNC helper processes | request, approve, connect, activate, end by server or user | `RemoteSupport`, `SessionProtocol` |
| Self-update, `internal/updater`, `internal/downloader`, `cmd/update-helper`, `service_windows.go` | staged file, `pending_update.json`, the service's executable, `agent.version` | stage, apply, restart; stop, back up, replace, record, start, roll back | `SelfUpdate` |
| Heartbeat and long poll, `internal/heartbeat`; WebSocket client, `internal/wsconn`; announcements, `internal/announcement`; the main loop that takes what they bring | trigger channel, answer channel of 8, mute flag, connection, tracker of open boxes, configuration in use | tick, trigger, build, send, hand over; dial, greet, read, reconnect; show, acknowledge | `Delivery`, `Mailbox` |
| Inventory, `internal/inventory`, with the hash that the main loop and the heartbeat send | last items, hash, time; Appx cache in memory and on disk; kick channel, last hash sent | scan, cache, send the hash, submit | `Inventory` |
| Runtime update, `internal/runtimeupdate`, and tray supervisor | files, backups, downloads; the wish for the tray; processes | sync, download, verify, replace, roll back; start and stop the tray | `RuntimeUpdate` |
| Store: `ui/store-ui`, the CLI mode of `cmd/tray`, `internal/ipc`, its handlers in `core.go` | lists and cards of the page, message and script queues | list, request, acknowledge, refresh, reopen | `Store` |
| Configuration and bootstrap | `config.yaml`, registration | load, default, save, register | in part, in `SelfUpdate` |
| Installers, system information, logging, firewall, packaging | none that a protocol depends on | I/O | not modelled |

### How they interact

The main loop takes one heartbeat answer at a time and runs self-update,
configuration, remote support, announcements, inventory and commands on it, in
that order. The WebSocket read loop calls the same handlers on its own
goroutine. `stateMu` is meant to serialise the two; it is held while an
installation runs, it is not held by the self-update, and remote support leaves
it at once because requests and ends get goroutines of their own. The heartbeat
goroutine reads the task queue and the inventory under their own mutexes. The
runtime manager replaces the tray program and asks the supervisor to start it
again, without a lock. The update helper, the dialog, the tray, the store window
and the VNC helper are processes that outlive the goroutines that start them,
and the service.

### What is hard

* Two goroutines handle commands, and one of them may hold `stateMu` for half an
  hour of installation; answers pile up and are dropped meanwhile.
* Reports, acknowledgements, hashes and submissions to the server fail while the
  thing reported has happened.
* What the server wants reaches the agent over two ways, one muted by the other,
  and an old answer may be applied after a newer push.
* Remote support checks its state under a lock, releases it, and then acts; the
  dialog is a pair of global variables.
* Self-update and runtime update are sequences of file operations on programs
  that may be running, with an end of the service possible after each.
* Scans of the inventory run outside the lock and overtake each other.
* The queue, the sessions and the helper's progress are not persisted.

`PROJECT.json` lists each such place under `hazards`, with the properties that
would catch it.

## 2. Plan and progress

1. `TaskQueue` with its abstract `TaskLifecycle`: what the agent is for. Checked,
   proved.
2. `RemoteSupport` with its abstract `SessionProtocol`: consent is the property
   that matters most to a user. Checked, its safety proved.
3. `SelfUpdate`: the part that can brick the agent. Checked; its safety proved
   for an agent without the WebSocket goroutine.
4. `Delivery` with its abstract `Mailbox`: heartbeat, long poll, WebSocket, main
   loop and announcements. Checked, its safety proved.
5. `Inventory`. Checked, its safety proved.
6. `Store`. Checked, its safety proved.
7. `RuntimeUpdate` with the tray supervisor. Checked, its safety proved.
8. Left: the registration.

## 3. The modules

In all of them an action is what the code does without letting another actor in:
one critical section, one file operation, or one call to the server, an
installer or the operating system. `pc` says where each goroutine is; its labels
name the next call. Calls that fail, connections that break, processes that are
killed and messages that are late are counted by `faults` (and `cuts`), with the
constant `MaxFaults` as their bound: a run covers every behaviour with at most so
many. The theorems hold for any bound.

### TaskQueue and TaskLifecycle

`Receive` brings a batch of commands to a goroutine, `AddCommands` takes
`stateMu` and queues them, `NextRunnable` chooses, `JitterOver`/`JitterCancelled`
is the delay before a run, `ExecuteOk`/`ExecuteFails` the installer,
`ReportOk`/`ReportErrs` one attempt of the report, `HandleSuccess` and
`HandleFailure` the outcome in the queue, `NothingRunnable` the end of the loop.
`ConsumeAppsChanged` is the heartbeat's. `Connect` and `Disconnect` mute and
unmute the heartbeat: `processCommands` is called with its answers (also with the one
that a trigger asks for while it is muted) and, while the WebSocket is up, with what
the server pushes. `Cancel` and `Stop` are the orderly end
of the service, `Crash` any other; both leave an empty queue. Time is counted in
units of five minutes, the unit of the backoff; `RetryClock` lets it pass for
one task. `srv` and `handed` are what the server and the heartbeat were told;
`tries`, `succeeded`, `everOk`, `lastOk`, `since` are history that only
properties read.

The installer is an outcome; progress messages, the delta of the installed
applications and the wording of errors are left out. `shouldExecuteNow` always
returns true, so that the work hours that the README of the agent describes do
not appear.

`TaskLifecycle` is the promise without goroutines, locks or reports: a task is
absent, queued or running; one runs at a time; after `MaxRetries` failures it
leaves. `ImplementsLifecycle` is the refinement.

### RemoteSupport and SessionProtocol

Each goroutine of `HandleRequest` or of an end goes through labels; `sm.mu` and
`approvalMu` are the critical sections, the helper, the dialog and the server
are touched between them. `Request`, `EndSignal` and `UserEnd` start goroutines
at any time for any session, so that requests come again, late or out of order.
The code neither watches the helper nor looks whether `Stop` worked: `HelperEnds`
ends a helper at any time, `StopHelpers` and `StartHelper` may leave one of
`Unkillable` running, and `Crash` leaves the helpers running and everything else
new. `strays` is history: the helpers that a `Stop` or the end of the service has
left; `lost`: the helper has ended by itself. `raced` is history: whether an end or a
new request has come between the check and the writes of another goroutine. `HandleRequest` assigns its states without a look at the
session, so that after such a race the manager may be wrong for a while; the
exactness properties (`ManagerExact`, `HelperExact`) say that nothing but these
races makes it wrong.

`SessionProtocol` is what the server and the user see: a session is taken on, the
user may agree if he is to be asked, approved is reported only of what he has
agreed to or need not be asked about, rejected only of what he is asked about, ready
only after approved, ended only of what was taken on. `ImplementsProtocol` is the
refinement; the protocol's variables are history variables of `RemoteSupport`.

### SelfUpdate

A file is a build, whole or in part, or a mixture that is none. The main loop
and the WebSocket goroutine run `ApplyIfPending` (`Apply`, `Spawn`) and
`StageIfNeeded` (`Stage`, `OpenWhole`/`OpenRest`/`RangeRefused`, `Copy`, `Check`,
`WriteMeta`); the constant `Thread` leaves the second out where the WebSocket is
disabled. A helper is a process with a label per step of `main`; `from` says
whether it is putting the new file, the backup, or the backup after a failed
start in place, which are the three calls of `replaceFile`. `Killed` ends the
service, `PowerCut` ends everything and starts the service if its executable and
its configuration are whole. `BroadcastRestart` ends the service with exit code 0:
nothing starts it then, unless a helper is at work.

The copy of a file to `.new` is one step. How long an installation keeps the
service from stopping is not modelled: that the helper's 120 seconds pass is one
of the faults. Other writers of `config.yaml` are left out.

### Delivery and Mailbox

The server has the version of its configuration and items (commands and
announcements) that wait for an answer. It tells all of it in every heartbeat
answer and in `server.hello` (`Snapshot`), and pushes what is new on a connection
it believes in (`Push`). Four goroutines: the `sender` (`Tick`, `Triggered`,
`Answered`/`RequestFails`, `HandOver`), the `listener` (`OpenPoll`, `PollEnds`),
`ws` (`Dial`, `Hello`, `OnConnected`, `Read`, `ReadSignal`, `ReadFails`,
`OnDisconnected`) and `main` (`Take`); the last two handle a message by
`ApplyConfig`, `Announce` and `ProcessCommands`. `BoxCloses` is the goroutine of a
message box: it acknowledges if there is a connection and forgets the
announcement in any case. `HandOver` drops an answer when `pollResults` is full.
`overtaken` is history: the configuration last applied is older than the one
before it. How a command is run is `TaskQueue`'s business, here it arrives.

`Mailbox` is the same without heartbeats, channels and connections: what the
server has asked is pending until the agent, which must have received it, has
answered; it may be received again. The configuration in use is one the server
has published, and rises as long as the server cannot push. `ImplementsMailbox` is the
refinement; a heartbeat whose answer is dropped is a stutter.

### Inventory

A list of software is a version number of the registry and one of the Appx
packages, and the pair stands for the hash. A scan takes the registry first,
queries the packages (`QueryAppx`, which falls back on the cache of the process
and then on its file, both at most twelve hours old), and is stored under the
lock (`StoreScan`). The main loop scans at the start, for the kick channel, the
ticker and every answer; the WebSocket goroutine scans after an installation and
kicks the main loop. `SendHash`, `SyncRequired`, `Build`, `Answered`,
`SyncIfRequested` and `Submit` are the way from a hash that the server does not
know to the submission. `Restart` forgets everything but the file, and may tear
that.

### Store

The page and the window have two queues between them, `inbox` and `scripts`; the
window handles one message at a time, by a call of the command line tool, which
calls the service over the named pipe, which calls the server. A call fails
before the server has it, is answered, or is handled and its answer lost
(`SendRequest`). `RenderStore` and `ApplyInstallAck` are what the page does with a
list and an acknowledgement; `Card` is what it shows of an application.
`Deploy`, `Progress` and `Remove` change the server's side behind its back,
`Listed` lets a task come late into a list, `Open` opens the window again.
`acked` is history: which installation the page was told is queued.

### RuntimeUpdate

Two files with their `.bak` and `.download`, and the processes started from
them. A file that a process was started from can be renamed and not removed, and
the process goes with the rename (`Follow`). The manager's `ensureFile` is a label
per file operation from `CheckHash` to `MoveIn`; `Defer` leaves a helper in use
alone. The supervisor runs on three goroutines without a lock: `EnsureRunning`
and `StartTray`, `LoadEnabled` and `StopAll`. `Logon` starts the tray as the
installer has registered it, `Logoff` and `Programs` end it and start and end
the helper. `Restart` ends the service and leaves the programs of the user.

## 4. What the runs check

| Run | Question | Distinct states |
|---|---|---|
| `tasks` | all safety of the queue and its refinement, two goroutines, two tasks of one application, three attempts, restarts | 2.0 M |
| `tasks_live` | does every queued task leave, while connections come and go? | 160 k |
| `remote` | consent, the protocol with the server, manager and helper exact while nothing raced, every end carried out; two goroutines, two sessions, a helper that may survive a stop | 4.1 M |
| `update` | torn or lost executables, claimed versions, steps back; one goroutine, two faults, two cuts | 0.4 M |
| `update_live` | is the update installed, with ranges honoured, two faults and two cuts? | 2 k |
| `update_helpers_end` | do helpers started by both goroutines end, and does a service that stops under a helper come back, with a restart asked for? | 86 k |
| `update_two_goroutines` | does it come back whatever the two goroutines do? (it does not, see below) | 26 k |
| `delivery` | are answers applied in order, is the mailbox implemented, does everything arrive, does the configuration settle, are announcements acknowledged and forgotten? | 0.9 M |
| `inventory` | are packages never taken for removed, is an installation scanned, does the server learn it? | 0.5 M |
| `store` | is a queued installation never offered again, does every card settle? | 0.4 M |
| `runtime` | is no program lost, is what is published installed, does the tray come back? | 0.8 M |
| `tray_policy` | is the tray ended when the server switches it off? (it is not, see below) | small |

### Bounds, and why they are enough

* `tasks`, `tasks_live`: two tasks are what it takes for one to wait while
  another runs, and for two of one application; three attempts make a first, a
  middle and a last failure. Two goroutines are all that call `processCommands`.
* `remote`: a session in progress needs no goroutine, so that the two
  goroutines are an end and a second request that meet it. They are alike, so
  the run uses symmetry. The helper of the first port may survive a `Stop`; for any set
  of survivors `HelperExact` is proved.
* `update`: four builds are the installed one, two steps up, and one published
  again under a known version; two cuts reach a cut in the recovery from a cut.
  The server offers older builds too, but with force only upwards: after a
  forced step down, a cut before the record leaves `config.yaml` ahead, which
  `VersionNotAhead` does not except.
* `update_live`: one goroutine, as two undo each other's work without a failure; one
  update on offer, so that it is the same one that must arrive. Two faults and two
  cuts leave each kind of part, whole file and record behind, and both states that put
  an update off for good are reached: without either exception the run fails.
* `update_helpers_end`, `update_two_goroutines`: both goroutines, a helper for each. No
  call fails and nothing is cut, since a failing call may leave the service down. One
  restart by the server may come at any step. In the second the server ignores ranges
  and asks for no restart, which makes the counterexample plain.
* `delivery`: one item at a time, a command or an announcement, so that nothing
  else brings what is lost; a channel of one answer is full as soon as an answer
  waits, and answers in the sender's hand, the channel and the main loop's hand
  are three to keep in order. One change of the configuration switches the
  WebSocket on. Two faults are a heartbeat that fails and a connection that
  breaks afterwards, or the other way round.
* `inventory`: one change and one fault, with the file of the cache there at the
  start: an overtaken scan needs one installation, each lost message one fault.
* `store`: one application, as applications share only the queues, which hold
  two; two installations and one removal reach a second life of the application.
* `runtime`: two versions, one change of the policy and one failure. `NothingLost`
  promises nothing after a second failure.

### The disagreements found

`tray_policy`: a service that has just started does not end the tray program
that Windows started at logon, although `store_tray_enabled` is false, and
`README.md:141` of the agent says that it is ended. The flag that the code looks
at is the one the same process has set.

`update_two_goroutines`: `README.md:115` says that the helper replaces the service
and restarts it. The main loop and the WebSocket goroutine stage and apply without
a lock. While the helper of one is on its way, the other may download over the
same path and remove the file when its hash does not match; the helper, which has
stopped the service by then, puts its backup back and exits. Or both start a
helper, and one removes the executable that the other has just put in place. The
service stays down, and no call has failed.

### Known behaviours no run is spent on

The models have behaviours that are undesirable, and that properties except
explicitly:

* An end between the recheck and the approve of `HandleRequest` is followed by
  the approve (`Approve` after `EndCheck`); `Consent` still holds.
* An end between the restart of the helper and the ready report (`session.go:165` to
  `203`) empties the manager, and the goroutine of the request then goes on: the
  manager is active without a session and the helper runs. Requests are then dropped
  as busy, and ends find no session to end, until the service starts again. `ManagerExact` and
  `HelperExact` except it as a race; `GoroutinesAdvance` says only that the end
  itself was carried out.
* A helper left by a crash or by a `Stop` that failed is cleared neither by an end
  without a session nor by the start of the service, although `docs/WORKLOG.md:601`
  and `:603` say so; it is one of `strays`. A helper that ends by itself leaves the
  manager active (`lost`). A dialog that closes forgets the process of a newer one.
* While the WebSocket is connected the ticker sends nothing (`heartbeat.go:123`), and
  only a push, a trigger or the loss of the connection leads to `processCommands`: a
  task in backoff on a quiet, connected agent stays queued. `QueuedTaskLeaves`
  promises nothing of a connection that stays up for good without another call.
* With both goroutines staging, the staged file may be truncated between its
  verification and its copy; `ExeIntact` is checked with one goroutine.
* A broadcast restart ends the service with exit code 0 (`service_windows.go:48`);
  neither the installer nor `service-install.bat` sets a recovery action, so that
  nothing starts it again unless a helper is at work. `ServiceComesBack` speaks of a
  service that stops while one is.
* The update helper that gives up (no stop in time, no backup, no replacement) leaves
  the service stopped, which is why `ServiceComesBack` excepts failing calls.
* When the new executable does not start, the old one comes back and
  `agent.version` does not: the agent takes the offer for no news. `VersionNotAhead`
  excepts failed calls; `UpdateInstalled` names the state (`Claimed`).
* After a cut between replacement and record the agent installs what it already
  is, which is why `NeverStepsBackUnharmed` excepts cuts. A server that honours
  ranges answers 416 for ever to a download that was complete but not recorded:
  `UpdateInstalled` names that state too (`Unrecorded`), and says that there is no third.
* An answer that waited in the channel may put an older configuration in use than
  the WebSocket has brought, until the next change or connection: `ConfigSettles`
  excepts `overtaken`.
* A request of the store that fails before it is acknowledged is offered again by
  the next list; a list that shows a failed attempt hides that a new one is
  queued: `QueuedStaysShown` excepts it. After a removal the page may show the
  application as installed until the window is opened again: `CardSettles`
  excepts applications of which the server knows nothing.
* `replaceFile` removes the old program when it cannot rename it: a second failure
  then leaves none.

### Fairness

* `tasks_live`: goroutines run, installations and HTTP attempts end (both have
  timeouts), time passes: weak fairness. Heartbeat answers come to the main loop
  unless the WebSocket stays up for good: the ticker sends while it is down, and
  `OnDisconnected` sends one at each loss. A goroutine that
  waits for `stateMu` gets it even when it is released and taken again, because a
  `sync.Mutex` hands over to a waiter it has starved; and the main loop's select,
  which picks at random, does not miss the shutdown for ever: strong fairness.
* `remote`: none; its properties are safety.
* `update_live`, `update_helpers_end`, `update_two_goroutines` (`Scheduling`):
  goroutines, helpers and the end of a process that shuts down go on, weakly fair, and the select takes
  the restart request, strongly. What is luck and not scheduling is no part of the
  specification but the premise `Luck` of `UpdateInstalled`: the download succeeds
  again and again, and the queue is empty at some heartbeats, also at some at
  which a staged update is intact. That rests on `QueuedTaskLeaves` and on
  chance, and without it a download over the staged file that always fails at
  the wrong moment would put the update off for ever.
* `delivery`: the four goroutines run and the ticker ticks; connections and
  requests have timeouts, and the boxes do not wait for the user. The long poll
  need not bring anything.
* `inventory`: the goroutines and the clock run; the main loop's select picks at
  random among the channels that are ready, so that it passes over neither the
  answers nor the kick for ever: strong fairness. Nothing is assumed of the host
  and of the connection.
* `store`: the window and the page handle what is in their queues, and the timer of
  the page asks for a list again and again. Users and server are free.
* `runtime`, `tray_policy`: the manager's interval passes, and a configuration comes
  with every heartbeat or over the WebSocket and is applied. While a WebSocket is
  connected the server sends a configuration only when it changes, which is why
  `TrayKept` and `TrayEnded` speak of the time without one.

### Broken variants

Every property of a passing run has a variant of one definition, whose comment
begins with "(mutant)", under which the run fails: a lock not taken, an attempt
too many, a check dropped, a step out of order, a message with a part missing.
They show that the bounds reach the case the property is about.

## 5. What is proved

Each `...Proofs` module extends the one it is about; the constants satisfy the
`ASSUME`s there and nothing else, in particular no bound of a run.

`TaskQueueProofs`: the type invariant; one task in hand (`OneAtATime`), queued as
long as it is in hand; no retry entry without a queued task; runs counted and
bounded; success shown only of what succeeded; the list of applications true; no
run after a success, no run before the backoff is over; and the refinement of
`TaskLifecycle`. The inductive invariant `IInv` adds to the properties what ties
them to the program counter: `LockHeld` and `InHand` (whoever works has the lock
and a queued task), `Outcome` and `SuccessOnItsWay` (which labels mean that the
current task has succeeded, and that its success is reported or about to be),
`RunsCounted`, and `DelayAccounted` (the wait that is left and the time since the
last failure make up the backoff). Without them `SuccessIsTrue` and
`BackoffKept` are not preserved by steps from unreachable states. Each action
has its own step lemma; the action properties and the refinement are then proved
from `IInv` step by step. `RoundsEnd`: between the choice of a task and its outcome
in the queue a goroutine takes at most `ReportAttempts` + 4 steps, each of which
lowers `StepsLeft`.

`RemoteSupportProofs`: the type invariant and the refinement of
`SessionProtocol`. `IInv` adds to the types `LabelInv`, what holds of a goroutine's
locals at each label (a goroutine past the recheck has a session that needs no
approval or that was consented to; a popup exists only in the dialog), and
`SessionBegun`, that the manager's session has passed the gate. `LabelFrame` is the
lemma for every goroutine a step leaves where it is. `Consent` and the order of the
reports are then shown of the protocol alone (`PromiseKept`, a few lines) and
follow for the code by the refinement. `ManagerExact` and `HelperExact` are about
what holds as long as nothing has raced: the first is inductive with the labels, the
second with `HelperAt` (the helper is up once it has answered, unless it ended by itself;
only what the last `Stop` could not end is left when a reset is to
write the state; and nobody acts while a session is active), for any set of helpers
that survive a `Stop`. The steps that leave
the manager alone are one lemma (`QuietManager`), those that leave the helper alone as
well another (`CalmHelper`); `HelperTypes` says what starting and stopping may leave. `EndsCarriedOut`: a goroutine of a request takes at most
18 steps and one of an end at most 7, none is sent back by another, and one that
has found the session to end, or resets, returns only by a step that makes the manager
idle without one, whether or not the server could be told. Another goroutine may write
the state after that step.

`DeliveryProofs`: the type invariant with the capacity of the channel;
`AnswersInOrder`; `TrackedWhileShown`; the refinement of `Mailbox`; and three facts no
run needs: the mute flag is set exactly between `OnConnected` and
`OnDisconnected` (`Muted`), no call of `TriggerNow` is lost (`TokenKept`), and
pushes are read in order over every loss of the connection (`PushesOrdered`), so that an
older configuration can only come over the other of the two ways. The refinement needs
`AllFounded` (every message in a hand, in the channel or on the line tells only of
what the server asked and published), `BoxArrived` (a box shows only what has
arrived) and `NotBehind` (without the WebSocket nothing on its way is older than
what is in use), the last from `AnswersInOrder`.

`InventoryProofs`: the type invariant, for which changes of the host must be
counted (`HostBound`) and an answer be at the head of the channel while it is
worked on (`AnswerKept`); `NoFalseRemoval` from `Cached`, which says where the
fresh list is and that everything on its way has one; `InstallationScanned` from
`Reflected`, which says what is still to happen while a scan may be too old; and
`OnlyRealSoftware`, that nothing the agent stores, hashes or submits was never on
the host, for the cache, the file that outlives the process and every list in hand
(`NothingInvented`).

`StoreProofs`: the type invariant and `QueuedStaysShown`, from `AckRemembered`: as
long as the page remembers an acknowledgement, the card has a transient state.
`ShownHasCause`: the page shows nothing as queued or installed that was never
queued, since no script on its way says so (`ScriptsTrue`) and the server does not
(`ServerTrue`). `AcksOrdered`: an acknowledgement of an earlier installation never
replaces that of a later one, because they wait in that order (`InOrder`).

`RuntimeUpdateProofs`: the type invariant, which says that nothing torn is ever
installed, and `NothingLost`. `Inv` adds `FileVerified` (what the manager has
verified is the file of its manifest), `BackupInUse` (a process that was started
from a backup keeps it on disk) and `Missing` (when, after which number of
failures, a file may be missing and where the manager is then).
`InstalledPublished`: what is installed or kept was published. `VersionsGrow`: no
single failure brings back an older version; `Floor` is what is installed or will be
put in place next, and `Free` says that without a failure nothing runs from the
backup when it is to be removed.

`SelfUpdateProofs`: for any goroutines and helpers, the type invariant with
`BuildInHand`, that what is worked on is a build; and `HelpersAdvance`, that every step of
a helper lowers `StepsLeft`, at most 15, and no one else's raises it. The rest is
for an agent without the WebSocket goroutine (`OneThread`), and for any number of
helpers. That restriction is needed: two goroutines can write the staged file that a
helper is copying. `OneHelperAtATime` then follows, as the goroutine that starts a helper
returns, and only that helper starts the service again. `ExeStaysIntact`: the
executable is never torn, whatever fails and whenever the power is cut; and without a
cut and with one failing call at most, there is one when no helper is at work. `Safe` adds to the
types `Handed` (the staged file stays what was verified until the helper has
copied it), `Apart` (a helper works only when the goroutine has returned, and
replaces only when the process is gone) and `Copies` (what may be renamed is a
whole file); `Spared` and `InTheGap` say where the helper is while the executable is
missing, and that the backup is whole then. With `Safe` also `VersionNotAhead` and
`NeverStepsBackUnharmed`, for servers whose versions can be parsed and that force no
older build (`Ordinary`): a version that cannot be parsed is "newer" than any, and a
forced step down is recorded only after the replacement, so that a power cut between
the two leaves `config.yaml` ahead. `Behind` says that without a failing call the helper
puts in place what it was started for, no older than the recorded version;
`Recorded`, that without a cut the recorded version is the installed one but between
the removal and the update of the file.

Only model-checked: what holds under fairness (`QueuedTaskLeaves`,
`ServiceComesBack`, `UpdateInstalled`, `HelpersEnd`,
`ItemsArrive`, `ConfigSettles`, `AnnouncementsAcked`, `InventoryKnown`,
`CardSettles`, `FilesUpdated`, `TrayKept`), which this prover does not reach. Of two
of them the part that needs no fairness is proved: whoever works on a task
(`RoundsEnd`, with `RunsBounded` for the number of rounds) or replaces the executable
(`HelpersAdvance`) has a bounded number of steps left, so that what remains for TLC is
that it is scheduled. The same holds of a request and an end (`EndsCarriedOut`).
The safety of `SelfUpdate` with the WebSocket goroutine, beyond its types and
`HelpersAdvance`, is neither checked nor proved: the staged file can be
truncated under a helper then.

## 6. Not modelled, and why

* Installers, system information, logging, firewall: each call reads or starts
  something outside and returns; the modules have its outcome.
* Encoding, headers and URLs of the API client and the WebSocket: a call is an
  outcome in the module that makes it.
* The snapshots of services and system profile in a heartbeat: copies of what the
  operating system says, whose loss the server repairs by asking
  (`services_sync_required`); the loss of `apps_changed` with a failed heartbeat
  is in `TaskQueue` as the hand-over, and nothing promises its arrival.
* The registration: one request at the start of the service. The comment at
  `core.go:61` lets heartbeats retry it, which they do not.
* Defaults and overrides of `config.yaml`, and its writes by the service; the one
  by the update helper is in `SelfUpdate`.
* Process creation in the user's session is a call that succeeds or fails.
* The native store windows, the tray's icon and menu, and all layout are user
  interface. The packaging is the initial state of the modules.
