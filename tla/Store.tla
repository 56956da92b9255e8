------------------------------- MODULE Store -------------------------------
(***************************************************************************)
(* The application store of a workstation: the page of ui/store-ui, the    *)
(* window that runs it, the command line tool that the window calls for    *)
(* each request, the named pipe and the service that passes the request on *)
(* to the server.                                                          *)
(*                                                                         *)
(* The page posts messages to the window and the window posts scripts to   *)
(* the page: two queues.  The window handles one message at a time, with a *)
(* call of the tool that blocks it, but an installation goes on only after *)
(* the page has run the script of its acknowledgement.                     *)
(***************************************************************************)
EXTENDS Naturals, Sequences

CONSTANTS
  App,
  MaxRuns,      \* bound: installations of an application
  MaxRemovals,  \* bound: applications that are removed again
  MaxFaults,    \* bound: failing calls, late states, windows opened again
  MaxWaiting    \* bound: messages, scripts and continuations that wait

ASSUME BoundAssumption ==
  MaxRuns \in Nat /\ MaxRemovals \in Nat /\ MaxFaults \in Nat /\ MaxWaiting \in Nat \ {0}

VARIABLES           \* the server
  srv,        \* what it knows of an application
  run,        \* how often its installation was queued
  removals

VARIABLES           \* the window: StoreForm
  inbox,      \* messages of the page: an application to install, or a refresh
  scripts,    \* scripts for the page
  toPush      \* installations whose acknowledgement was run, before PushStoreAsync

VARIABLES           \* the page
  apps,       \* the list that was rendered last
  transient,  \* transientState
  installing, \* installingIds
  acked,      \* history: the installation that was last acknowledged as queued; 0 for none
  faults

server == <<srv, run, removals>>
window == <<inbox, scripts, toPush>>
page   == <<apps, transient, installing, acked>>
vars   == <<server, window, page, faults>>

InProgress == {"pending", "running"}   \* running: downloading or installing
State   == InProgress \cup {"none", "failed", "installed"}
Status  == {"", "queued", "already_queued", "re-queued", "already_installed"}
Refresh == "refresh"
Ack(a, s, n)   == [kind |-> "ack", app |-> a, status |-> s, run |-> n]
Snapshot(list) == [kind |-> "snapshot", list |-> list]

Fault == faults < MaxFaults /\ faults' = faults + 1
Charge(c) == IF c THEN Fault ELSE UNCHANGED faults

FreshPage ==
  /\ apps = [a \in App |-> "unlisted"]
  /\ transient = [a \in App |-> "none"] /\ acked = [a \in App |-> 0]
  /\ installing = {}

Init ==
  /\ srv = [a \in App |-> "none"] /\ run = [a \in App |-> 0] /\ removals = 0
  /\ inbox = <<Refresh>> /\ scripts \in {<<>>, <<Snapshot(srv)>>} /\ toPush = 0
  /\ FreshPage
  /\ faults = 0

-----------------------------------------------------------------------------
(* The server *)

Queue(a) ==
  /\ run[a] < MaxRuns
  /\ srv' = [srv EXCEPT ![a] = "pending"] /\ run' = [run EXCEPT ![a] = @ + 1]

\* A deployment, or another window of the store.
Deploy(a) ==
  /\ srv[a] \in {"none", "failed"} /\ Queue(a)
  /\ UNCHANGED <<removals, window, page, faults>>

\* The agent works on the task and reports it.
Progress(a) ==
  /\ \/ srv[a] = "pending" /\ srv' = [srv EXCEPT ![a] = "running"]
     \/ srv[a] = "running" /\ \E s \in {"installed", "failed"} : srv' = [srv EXCEPT ![a] = s]
  /\ UNCHANGED <<run, removals, window, page, faults>>

Remove(a) ==
  /\ srv[a] = "installed" /\ removals < MaxRemovals
  /\ srv' = [srv EXCEPT ![a] = "none"] /\ removals' = removals + 1
  /\ UNCHANGED <<run, window, page, faults>>

\* A task that has been running for long may be queued again, and a request may
\* be refused, as every one is that comes after MaxRuns.
Replies(a) ==
  CASE srv[a] = "pending"   -> {"already_queued"}
    [] srv[a] = "running"   -> {"already_queued", "re-queued"}
    [] srv[a] = "installed" -> {"already_installed"}
    [] OTHER                -> {"no status", "queued", "refused"}

Accept(a, reply) ==
  IF reply \in {"no status", "queued", "re-queued"}
    THEN Queue(a) /\ UNCHANGED removals
    ELSE UNCHANGED server

\* A task may come late into the list.
Listed == {srv} \cup {[srv EXCEPT ![a] = "none"] : a \in {b \in App : srv[b] \in InProgress}}

-----------------------------------------------------------------------------
(* The service, the named pipe and the command line tool *)

\* install_from_store: a reply without a status means that it was queued.
InstallFromStore(reply) ==
  CASE reply = "no status" -> "queued"
    [] reply = "refused"   -> ""
    [] OTHER               -> reply

\* A call fails before the server has it, is answered, or is handled by the
\* service and its answer lost.
SendRequest == {"failed", "answered", "lost"}

\* The exit code tells every failure from an answer.
Cli(call, answer, failure) == IF call = "answered" THEN answer ELSE failure

-----------------------------------------------------------------------------
(* The window *)

Post(s) == Len(scripts) < MaxWaiting /\ scripts' = Append(scripts, s)

\* FetchStoreApps and PushStoreAsync: an error is shown, and nothing is posted.
PushStore ==
  \E call \in SendRequest, list \in Listed :
    /\ Charge(call # "answered" \/ list # srv)
    /\ IF call = "answered" THEN Post(Snapshot(list)) ELSE UNCHANGED scripts

Acks == SelectSeq(scripts, LAMBDA s : s.kind = "ack")

\* A request that fails is acknowledged without a status.
RequestInstall(a) ==
  /\ Len(Acks) + toPush < MaxWaiting
  /\ \E call \in SendRequest, reply \in Replies(a) :
       /\ Charge(call # "answered")
       /\ IF call = "failed" THEN UNCHANGED server ELSE Accept(a, reply)
       /\ Post(Ack(a, Cli(call, InstallFromStore(reply), ""), run'[a]))

\* The tool cannot be started: no acknowledgement and no new list.
NoTool == Fault /\ UNCHANGED <<server, scripts>>

OnWebMessage ==
  /\ inbox # <<>> /\ inbox' = Tail(inbox)
  /\ \/ Head(inbox) = Refresh /\ PushStore /\ UNCHANGED server
     \/ Head(inbox) # Refresh /\ (RequestInstall(Head(inbox)) \/ NoTool)
  /\ UNCHANGED <<toPush, page>>

\* An installation goes on after its acknowledgement.
Acknowledged ==
  /\ toPush > 0 /\ toPush' = toPush - 1
  /\ PushStore
  /\ UNCHANGED <<server, inbox, page>>

\* The store is opened again, or a second time and the first one closed.
Open ==
  /\ Fault
  /\ inbox' = <<Refresh>> /\ scripts' \in {<<>>, <<Snapshot(srv)>>} /\ toPush' = 0
  /\ apps' = [a \in App |-> "unlisted"]
  /\ transient' = [a \in App |-> "none"] /\ acked' = [a \in App |-> 0]
  /\ installing' = {}
  /\ UNCHANGED server

-----------------------------------------------------------------------------
(* The page *)

\* stateFromServer || transientState
CardState(a) == IF apps[a] \in InProgress \cup {"failed"} THEN apps[a] ELSE transient[a]

\* What render makes of an application: the button, or what stands in its place.
Card(a) ==
  IF apps[a] = "unlisted" THEN "none"
  ELSE IF "installed" \in {apps[a], CardState(a)} THEN "installed"
  ELSE IF CardState(a) \in InProgress THEN "progress"
  ELSE IF a \in installing THEN "sending" ELSE "offered"

\* (mutant) The state of the server is kept as it is called there.
TransientOfRaw(status, old) == IF status = "" THEN old ELSE status

\* (mutant) Only a new task counts.
TransientOfNew(status, old) ==
  CASE status = "queued"            -> "pending"
    [] status = "already_installed" -> "installed"
    [] OTHER                        -> old

\* What an acknowledgement makes of the transient state.
TransientOf(status, old) ==
  CASE status \in {"queued", "already_queued"} -> "pending"
    [] status = "already_installed"            -> "installed"
    [] OTHER                                   -> old

\* render deletes the transient state of what the list has as installed.
Render(list, t, n) ==
  /\ transient' = [a \in App |-> IF list[a] = "installed" THEN "none" ELSE t[a]]
  /\ acked' = [a \in App |-> IF list[a] = "installed" THEN 0 ELSE n[a]]

\* (mutant) A request that was never acknowledged stays marked.
RenderStoreOnly(list) ==
  /\ apps' = list
  /\ Render(list, transient, acked)
  /\ UNCHANGED <<toPush, installing>>

\* Every list frees the buttons, also of a request that is still on its way.
RenderStore(list) ==
  /\ apps' = list
  /\ installing' = {}
  /\ Render(list, transient, acked)
  /\ UNCHANGED toPush

ApplyInstallAck(s) ==
  /\ installing' = installing \ {s.app}
  /\ Render(apps,
            [transient EXCEPT ![s.app] = TransientOf(s.status, @)],
            [acked EXCEPT ![s.app] = IF s.status \in {"queued", "already_queued"} THEN s.run ELSE @])
  /\ toPush' = toPush + 1
  /\ UNCHANGED apps

Execute ==
  /\ scripts # <<>> /\ scripts' = Tail(scripts)
  /\ \/ Head(scripts).kind = "ack" /\ ApplyInstallAck(Head(scripts))
     \/ Head(scripts).kind = "snapshot" /\ RenderStore(Head(scripts).list)
  /\ UNCHANGED <<server, inbox, faults>>

Send(m) == Len(inbox) < MaxWaiting /\ inbox' = Append(inbox, m)

Install(a) ==
  /\ Card(a) = "offered"
  /\ installing' = installing \cup {a}
  /\ Send(a)
  /\ UNCHANGED <<server, scripts, toPush, apps, transient, acked, faults>>

\* The timer, or the button that refreshes.
RequestRefresh ==
  /\ Send(Refresh)
  /\ UNCHANGED <<server, scripts, toPush, page, faults>>

-----------------------------------------------------------------------------
Environment == Open \/ \E a \in App : Deploy(a) \/ Progress(a) \/ Remove(a) \/ Install(a)
Program     == OnWebMessage \/ Acknowledged \/ Execute \/ RequestRefresh
Next == Environment \/ Program

Spec == Init /\ [][Next]_vars
FairSpec == /\ Spec
            /\ WF_vars(OnWebMessage) /\ WF_vars(Acknowledged) /\ WF_vars(Execute) /\ WF_vars(RequestRefresh)

-----------------------------------------------------------------------------
Message == App \cup {Refresh}
List    == [App -> State]
Script  == [kind : {"ack"}, app : App, status : Status, run : 0..MaxRuns]
             \cup [kind : {"snapshot"}, list : List]

TypeOK ==
  /\ srv \in List /\ run \in [App -> 0..MaxRuns] /\ removals \in 0..MaxRemovals
  /\ inbox \in Seq(Message) /\ Len(inbox) \in 0..MaxWaiting
  /\ scripts \in Seq(Script) /\ Len(scripts) \in 0..MaxWaiting /\ toPush \in Nat
  /\ apps \in [App -> State \cup {"unlisted"}]
  /\ transient \in [App -> State \ {"failed"}]
  /\ installing \subseteq App
  /\ acked \in [App -> 0..MaxRuns]
  /\ faults \in 0..MaxFaults

\* While an installation that was acknowledged to the page as queued goes on,
\* the page does not offer it again, whatever the lists it gets leave out,
\* unless it shows that the attempt before has failed (applyInstallAck,
\* renderStore).
QueuedStaysShown ==
  \A a \in App :
    acked[a] # 0 /\ acked[a] = run[a] /\ srv[a] \in InProgress /\ apps[a] # "failed"
      => Card(a) \notin {"offered", "sending"}

\* What the card of an application is to show.
Truth(a) ==
  CASE srv[a] \in InProgress -> "progress"
    [] srv[a] = "installed"  -> "installed"
    [] OTHER                 -> "offered"

\* However answers, acknowledgements and lists overtake the changes of the
\* server, every card shows again and again what the server has of its
\* application (requestRefresh, renderStore).
CardSettles == \A a \in App : []<>(srv[a] = "none" \/ Card(a) = Truth(a))
=============================================================================
