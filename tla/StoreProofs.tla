---------------------------- MODULE StoreProofs ----------------------------
(***************************************************************************)
(* The types of Store, that an installation the page knows to be queued is *)
(* not offered again, and that what the page shows has a cause at the      *)
(* server, taken in order.                                                 *)
(***************************************************************************)
EXTENDS Store, TLAPS

\* The scripts of a window that has just been opened.
LEMMA FirstScripts ==
  ASSUME NEW list \in List, NEW q \in {<<>>, <<Snapshot(list)>>}
  PROVE  q \in Seq(Script) /\ Len(q) \in 0..MaxWaiting
  <1>1. Snapshot(list) \in Script BY DEF Snapshot, Script
  <1> HIDE DEF Script
  <1>2. <<Snapshot(list)>> \in Seq(Script) /\ Len(<<Snapshot(list)>>) = 1 BY <1>1
  <1>3. <<>> \in Seq(Script) /\ Len(<<>>) = 0 OBVIOUS
  <1>4. 0 \in 0..MaxWaiting /\ 1 \in 0..MaxWaiting BY BoundAssumption
  <1> QED BY <1>2, <1>3, <1>4

LEMMA InitTypeOK == Init => TypeOK
  <1> SUFFICES ASSUME Init PROVE TypeOK OBVIOUS
  <1>1. [a \in App |-> "none"] \in List BY DEF List, State
  <1>2. scripts \in Seq(Script) /\ Len(scripts) \in 0..MaxWaiting
    BY <1>1, FirstScripts DEF Init
  <1>3. inbox \in Seq(Message) /\ Len(inbox) \in 0..MaxWaiting
    BY BoundAssumption DEF Init, Message
  <1> QED BY <1>1, <1>2, <1>3, BoundAssumption DEF Init, FreshPage, TypeOK, List, State, InProgress

-----------------------------------------------------------------------------
(* What the parts of a step keep *)

LEMMA FaultType ==
  ASSUME faults \in 0..MaxFaults, NEW c \in BOOLEAN, Charge(c)
  PROVE  faults' \in 0..MaxFaults
  BY BoundAssumption DEF Charge, Fault

LEMMA ListedType ==
  ASSUME TypeOK, NEW list \in Listed
  PROVE  list \in List
  BY DEF TypeOK, Listed, List, State

\* A script is put at the end of the queue.
LEMMA PostType ==
  ASSUME TypeOK, NEW s \in Script, Post(s)
  PROVE  scripts' \in Seq(Script) /\ Len(scripts') \in 0..MaxWaiting
  BY BoundAssumption DEF TypeOK, Post

LEMMA PushStoreType ==
  ASSUME TypeOK, PushStore
  PROVE  scripts' \in Seq(Script) /\ Len(scripts') \in 0..MaxWaiting /\ faults' \in 0..MaxFaults
  <1>1. PICK call \in SendRequest, list \in Listed :
          /\ Charge(call # "answered" \/ list # srv)
          /\ IF call = "answered" THEN Post(Snapshot(list)) ELSE UNCHANGED scripts
    BY DEF PushStore
  <1>2. faults' \in 0..MaxFaults BY <1>1, FaultType DEF TypeOK
  <1>3. Snapshot(list) \in Script BY ListedType DEF Snapshot, Script
  <1>4. CASE call = "answered" BY <1>1, <1>2, <1>3, <1>4, PostType
  <1>5. CASE call # "answered" BY <1>1, <1>2, <1>5 DEF TypeOK
  <1> QED BY <1>4, <1>5

LEMMA QueueType ==
  ASSUME TypeOK, NEW a \in App, Queue(a)
  PROVE  srv' \in List /\ run' \in [App -> 0..MaxRuns]
  <1>1. srv' \in List BY DEF TypeOK, Queue, List, State, InProgress
  <1>2. run[a] + 1 \in 0..MaxRuns BY BoundAssumption DEF TypeOK, Queue
  <1> QED BY <1>1, <1>2 DEF TypeOK, Queue

\* The requests of a page reach the server or not, and are acknowledged.
LEMMA RequestType ==
  ASSUME TypeOK, NEW a \in App, RequestInstall(a)
  PROVE  /\ srv' \in List /\ run' \in [App -> 0..MaxRuns] /\ removals' \in 0..MaxRemovals
         /\ scripts' \in Seq(Script) /\ Len(scripts') \in 0..MaxWaiting
         /\ faults' \in 0..MaxFaults
  <1>1. PICK call \in SendRequest, reply \in Replies(a) :
          /\ Charge(call # "answered")
          /\ IF call = "failed" THEN UNCHANGED server ELSE Accept(a, reply)
          /\ Post(Ack(a, Cli(call, InstallFromStore(reply), ""), run'[a]))
    BY DEF RequestInstall
  <1>2. faults' \in 0..MaxFaults BY <1>1, FaultType DEF TypeOK
  <1>3. UNCHANGED server \/ (Queue(a) /\ UNCHANGED removals) BY <1>1 DEF Accept
  <1>4. srv' \in List /\ run' \in [App -> 0..MaxRuns] /\ removals' \in 0..MaxRemovals
    BY <1>3, QueueType DEF TypeOK, server
  <1>5. Cli(call, InstallFromStore(reply), "") \in Status
    BY DEF Cli, InstallFromStore, Replies, Status
  <1>6. Ack(a, Cli(call, InstallFromStore(reply), ""), run'[a]) \in Script
    BY <1>4, <1>5 DEF Ack, Script
  <1> QED BY <1>1, <1>2, <1>4, <1>6, PostType

\* A message is put at the end of the queue.
LEMMA SendType ==
  ASSUME TypeOK, NEW m \in Message, Send(m)
  PROVE  inbox' \in Seq(Message) /\ Len(inbox') \in 0..MaxWaiting
  BY BoundAssumption DEF TypeOK, Send

LEMMA TailType ==
  ASSUME NEW S, NEW q \in Seq(S), q # <<>>, Len(q) \in 0..MaxWaiting
  PROVE  Head(q) \in S /\ Tail(q) \in Seq(S) /\ Len(Tail(q)) \in 0..MaxWaiting
  BY BoundAssumption

\* What render makes of the transient states.
LEMMA RenderType ==
  ASSUME NEW list, NEW t \in [App -> State \ {"failed"}], NEW n \in [App -> 0..MaxRuns], Render(list, t, n)
  PROVE  transient' \in [App -> State \ {"failed"}] /\ acked' \in [App -> 0..MaxRuns]
  BY BoundAssumption DEF Render, State

-----------------------------------------------------------------------------
\* A step keeps the types.
LEMMA NextTypeOK == TypeOK /\ [Next]_vars => TypeOK'
  <1> SUFFICES ASSUME TypeOK, [Next]_vars PROVE TypeOK' OBVIOUS
  <1>1. CASE Open
    <2>1. [a \in App |-> "none"] \in [App -> State \ {"failed"}] BY DEF State
    <2>2. scripts' \in Seq(Script) /\ Len(scripts') \in 0..MaxWaiting
      BY <1>1, FirstScripts DEF Open, TypeOK
    <2>3. inbox' \in Seq(Message) /\ Len(inbox') \in 0..MaxWaiting
      BY <1>1, BoundAssumption DEF Open, Message
    <2>4. faults' \in 0..MaxFaults BY <1>1, BoundAssumption DEF Open, Fault, TypeOK
    <2> QED BY <1>1, <2>1, <2>2, <2>3, <2>4, BoundAssumption DEF Open, TypeOK, server
  <1>2. ASSUME NEW a \in App, Deploy(a) PROVE TypeOK'
    <2>1. srv' \in List /\ run' \in [App -> 0..MaxRuns] BY <1>2, QueueType DEF Deploy
    <2> QED BY <1>2, <2>1 DEF Deploy, TypeOK, window, page
  <1>3. ASSUME NEW a \in App, Progress(a) PROVE TypeOK'
    <2>1. srv' \in List BY <1>3 DEF Progress, TypeOK, List, State, InProgress
    <2> QED BY <1>3, <2>1 DEF Progress, TypeOK, window, page
  <1>4. ASSUME NEW a \in App, Remove(a) PROVE TypeOK'
    <2>1. srv' \in List BY <1>4 DEF Remove, TypeOK, List, State
    <2> QED BY <1>4, <2>1, BoundAssumption DEF Remove, TypeOK, window, page
  <1>5. ASSUME NEW a \in App, Install(a) PROVE TypeOK'
    <2>1. inbox' \in Seq(Message) /\ Len(inbox') \in 0..MaxWaiting BY <1>5, SendType DEF Install, Message
    <2> QED BY <1>5, <2>1 DEF Install, TypeOK, server
  <1>6. CASE OnWebMessage
    <2>1. inbox' \in Seq(Message) /\ Len(inbox') \in 0..MaxWaiting /\ Head(inbox) \in Message
      BY <1>6, TailType DEF OnWebMessage, TypeOK
    <2>2. CASE PushStore /\ UNCHANGED server
      BY <1>6, <2>1, <2>2, PushStoreType DEF OnWebMessage, TypeOK, server, page
    <2>3. CASE Head(inbox) # Refresh /\ RequestInstall(Head(inbox))
      <3>1. Head(inbox) \in App BY <2>1, <2>3 DEF Message
      <3> QED BY <1>6, <2>1, <2>3, <3>1, RequestType DEF OnWebMessage, TypeOK, page
    <2>4. CASE NoTool
      BY <1>6, <2>1, <2>4, BoundAssumption DEF OnWebMessage, NoTool, Fault, TypeOK, server, page
    <2> QED BY <1>6, <2>2, <2>3, <2>4 DEF OnWebMessage
  <1>7. CASE Acknowledged
    BY <1>7, PushStoreType DEF Acknowledged, TypeOK, server, page
  <1>8. CASE Execute
    <2>1. scripts' \in Seq(Script) /\ Len(scripts') \in 0..MaxWaiting /\ Head(scripts) \in Script
      BY <1>8, TailType DEF Execute, TypeOK
    <2>2. CASE Head(scripts).kind = "ack" /\ ApplyInstallAck(Head(scripts))
      <3> DEFINE s == Head(scripts)
      <3>1. s.app \in App /\ s.status \in Status /\ s.run \in 0..MaxRuns
        BY <2>1, <2>2 DEF Script
      <3>2. [transient EXCEPT ![s.app] = TransientOf(s.status, @)] \in [App -> State \ {"failed"}]
        BY <3>1 DEF TypeOK, TransientOf, State, InProgress
      <3>3. [acked EXCEPT ![s.app] = IF s.status \in {"queued", "already_queued"} THEN s.run ELSE @]
              \in [App -> 0..MaxRuns]
        BY <3>1 DEF TypeOK
      <3>4. transient' \in [App -> State \ {"failed"}] /\ acked' \in [App -> 0..MaxRuns]
        BY <2>2, <3>2, <3>3, RenderType DEF ApplyInstallAck
      <3> QED BY <1>8, <2>1, <2>2, <3>4 DEF Execute, ApplyInstallAck, TypeOK, server
    <2>3. CASE Head(scripts).kind = "snapshot" /\ RenderStore(Head(scripts).list)
      <3>1. Head(scripts).list \in List BY <2>1, <2>3 DEF Script
      <3>2. transient' \in [App -> State \ {"failed"}] /\ acked' \in [App -> 0..MaxRuns]
        BY <2>3, RenderType DEF RenderStore, TypeOK
      <3> QED BY <1>8, <2>1, <2>3, <3>1, <3>2 DEF Execute, RenderStore, TypeOK, server, List
    <2> QED BY <1>8, <2>2, <2>3 DEF Execute
  <1>9. CASE RequestRefresh
    <2>1. inbox' \in Seq(Message) /\ Len(inbox') \in 0..MaxWaiting BY <1>9, SendType DEF RequestRefresh, Message
    <2> QED BY <1>9, <2>1 DEF RequestRefresh, TypeOK, server, page
  <1>10. CASE UNCHANGED vars BY <1>10 DEF vars, server, window, page, TypeOK
  <1> QED BY <1>1, <1>2, <1>3, <1>4, <1>5, <1>6, <1>7, <1>8, <1>9, <1>10 DEF Next, Environment, Program

\* The server, the window and the page stay in their types: the queues between
\* the page and the window hold well-formed messages and scripts (Program.cs).
THEOREM TypeCorrect == Spec => []TypeOK
  BY InitTypeOK, NextTypeOK, PTL DEF Spec

-----------------------------------------------------------------------------
\* What the page remembers of an acknowledgement, the inductive part: as long as
\* it does, the card has a transient state and no list with the application
\* installed.
AckRemembered ==
  \A a \in App : acked[a] # 0 => transient[a] \in {"pending", "installed"}

LEMMA RenderRemembers ==
  ASSUME NEW list, NEW t, NEW n, Render(list, t, n),
         \A a \in App : n[a] # 0 => t[a] \in {"pending", "installed"}
  PROVE  AckRemembered'
  BY DEF Render, AckRemembered

LEMMA NextRemembered == TypeOK /\ AckRemembered /\ [Next]_vars => AckRemembered'
  <1> SUFFICES ASSUME TypeOK, AckRemembered, [Next]_vars PROVE AckRemembered' OBVIOUS
  <1>1. CASE UNCHANGED <<transient, acked>> BY <1>1 DEF AckRemembered
  <1>2. CASE Open BY <1>2 DEF Open, AckRemembered
  <1>3. CASE Execute
    <2>1. Head(scripts) \in Script BY <1>3, TailType DEF Execute, TypeOK
    <2>2. CASE Head(scripts).kind = "ack" /\ ApplyInstallAck(Head(scripts))
      <3> DEFINE s == Head(scripts)
                 t == [transient EXCEPT ![s.app] = TransientOf(s.status, @)]
                 n == [acked EXCEPT ![s.app] = IF s.status \in {"queued", "already_queued"} THEN s.run ELSE @]
      <3>1. s.app \in App BY <2>1, <2>2 DEF Script
      <3>2. Render(apps, t, n) BY <2>2 DEF ApplyInstallAck
      <3>3. ASSUME NEW a \in App, n[a] # 0 PROVE t[a] \in {"pending", "installed"}
        BY <3>1, <3>3 DEF AckRemembered, TypeOK, TransientOf
      <3> HIDE DEF t, n
      <3> QED BY <3>2, <3>3, RenderRemembers
    <2>3. CASE Head(scripts).kind = "snapshot" /\ RenderStore(Head(scripts).list)
      BY <2>3, RenderRemembers DEF RenderStore, AckRemembered
    <2> QED BY <1>3, <2>2, <2>3 DEF Execute
  <1> QED
    BY <1>1, <1>2, <1>3
    DEF Next, Environment, Program, Deploy, Progress, Remove, Install, OnWebMessage, Acknowledged,
        RequestRefresh, page, vars

\* An installation that was acknowledged as queued is not offered again, however
\* late and incomplete the lists are, unless the page shows a failure: of any
\* number of applications, requests, faults and waiting messages.
THEOREM QueuedShown == Spec => []QueuedStaysShown
  <1>1. Init => AckRemembered BY DEF Init, FreshPage, AckRemembered
  <1>2. TypeOK /\ AckRemembered => QueuedStaysShown
    <2> SUFFICES ASSUME TypeOK, AckRemembered, NEW a \in App, acked[a] # 0, apps[a] # "failed"
                 PROVE  Card(a) \notin {"offered", "sending"}
      BY DEF QueuedStaysShown
    <2>1. transient[a] \in {"pending", "installed"} BY DEF AckRemembered
    <2>2. CardState(a) \in {"installed"} \cup InProgress BY <2>1 DEF CardState, InProgress
    <2> QED BY <2>2 DEF Card
  <1> QED BY <1>1, <1>2, InitTypeOK, NextTypeOK, NextRemembered, PTL DEF Spec
-----------------------------------------------------------------------------
(* What the page shows is what the server has had, in the order it had it *)

\* A script for the page says nothing that the server has not done: an
\* acknowledgement with a status is one of an installation that was queued, and a
\* list has only what was installed through the store or is on its way.
ScriptTrue(s) ==
  IF s.kind = "ack" THEN s.run <= run[s.app] /\ (s.status # "" => s.run > 0)
                    ELSE \A a \in App : s.list[a] # "none" => run[a] > 0

ServerTrue == \A a \in App : srv[a] # "none" => run[a] > 0

PageTrue ==
  \A a \in App : /\ transient[a] # "none" \/ apps[a] \notin {"none", "unlisted"} => run[a] > 0
                 /\ acked[a] <= run[a]

ScriptsTrue == \A i \in 1..Len(scripts) : ScriptTrue(scripts[i])

Truthful == ServerTrue /\ PageTrue /\ ScriptsTrue

\* The page never shows progress, or an application as installed, that was never
\* queued, and takes no acknowledgement for one of a later installation than the
\* last: lost answers and failing calls make it show too little, never too much
\* (installFromStore, applyInstallAck, renderStore).
ShownWasQueued ==
  \A a \in App : (Card(a) \in {"progress", "installed"} => run[a] > 0) /\ acked[a] <= run[a]

\* Acknowledgements for an application wait in the order of its installations, and
\* none is older than what the page has taken.
AckFor(i, a) == scripts[i].kind = "ack" /\ scripts[i].app = a
InOrder ==
  \A a \in App, i \in 1..Len(scripts) : AckFor(i, a) =>
    /\ acked[a] <= scripts[i].run
    /\ \A j \in 1..i : AckFor(j, a) => scripts[j].run <= scripts[i].run

\* The acknowledgement of an earlier installation never takes the place of that of
\* a later one: the page forgets an acknowledgement or takes a newer one
\* (OnWebMessage, applyInstallAck).
AcksInOrder == [][\A a \in App : acked'[a] >= acked[a] \/ acked'[a] = 0]_vars

\* What a script says stays true: installations are only added.
LEMMA ScriptStays ==
  ASSUME TypeOK, NEW s \in Script, ScriptTrue(s), run' \in [App -> Nat], \A a \in App : run'[a] >= run[a]
  PROVE  ScriptTrue(s)'
  <1>1. run \in [App -> Nat] BY BoundAssumption DEF TypeOK
  <1>2. CASE s.kind = "ack"
    <2>1. s.app \in App /\ s.run \in Nat BY <1>2, BoundAssumption DEF Script
    <2>2. run[s.app] \in Nat /\ run'[s.app] \in Nat /\ run'[s.app] >= run[s.app] BY <1>1, <2>1
    <2>3. s.run <= run[s.app] /\ (s.status # "" => s.run > 0) BY <1>2 DEF ScriptTrue
    <2>5. \A x, y, z \in Nat : x <= y /\ z >= y => x <= z OBVIOUS
    <2>4. s.run <= run'[s.app] BY <2>1, <2>2, <2>3, <2>5, Zenon
    <2> QED BY <1>2, <2>3, <2>4 DEF ScriptTrue
  <1>3. CASE s.kind # "ack" BY <1>1, <1>3 DEF ScriptTrue
  <1> QED BY <1>2, <1>3

\* The ways in which the scripts for the page, and what it remembers, change.
ScriptsStep ==
  \/ scripts' = scripts /\ acked' = acked
  \/ /\ acked' = acked
     /\ \E s \in Script : /\ ScriptTrue(s)' /\ scripts' = Append(scripts, s)
                          /\ \A a \in App : s.kind = "ack" /\ s.app = a => s.run = run'[a]
  \/ Execute \/ Open

LEMMA RunGrows ==
  ASSUME TypeOK, [Next]_vars
  PROVE  run' \in [App -> Nat] /\ \A a \in App : run'[a] >= run[a]
  <1>0. run \in [App -> Nat] BY BoundAssumption DEF TypeOK
  <1>1. CASE run' = run BY <1>0, <1>1
  <1>2. ASSUME NEW a \in App, Queue(a) PROVE run' \in [App -> Nat] /\ \A b \in App : run'[b] >= run[b]
    BY <1>0, <1>2 DEF Queue
  <1>3. \A a \in App : RequestInstall(a) => run' = run \/ Queue(a) BY DEF RequestInstall, Accept, server
  <1>4. OnWebMessage => run' = run \/ \E a \in App : Queue(a)
    <2>1. inbox # <<>> => Head(inbox) \in Message BY TailType DEF TypeOK
    <2> QED BY <1>3, <2>1 DEF OnWebMessage, NoTool, server, Message
  <1>5. run' = run \/ \E a \in App : Queue(a)
    BY <1>4 DEF Next, Environment, Program, Open, Deploy, Progress, Remove, Install, Acknowledged, Execute,
                RequestRefresh, server, vars
  <1> QED BY <1>1, <1>2, <1>5

LEMMA ServerStep == ASSUME TypeOK, ServerTrue, [Next]_vars PROVE ServerTrue'
  <1>0. run \in [App -> Nat] /\ srv \in [App -> State] BY BoundAssumption DEF TypeOK, List
  <1>1. CASE srv' = srv BY <1>0, <1>1, RunGrows DEF ServerTrue
  <1>2. ASSUME NEW a \in App, Queue(a) PROVE ServerTrue' BY <1>0, <1>2 DEF Queue, ServerTrue
  <1>3. ASSUME NEW a \in App, Progress(a) \/ Remove(a) PROVE ServerTrue'
    BY <1>0, <1>3 DEF Progress, Remove, ServerTrue
  <1>4. OnWebMessage => srv' = srv \/ \E a \in App : Queue(a)
    <2>1. inbox # <<>> => Head(inbox) \in Message BY TailType DEF TypeOK
    <2> QED BY <2>1 DEF OnWebMessage, RequestInstall, Accept, NoTool, server, Message
  <1>5. srv' = srv \/ \E a \in App : Queue(a) \/ Progress(a) \/ Remove(a)
    BY <1>4 DEF Next, Environment, Program, Open, Deploy, Install, Acknowledged, Execute,
                RequestRefresh, server, vars
  <1> QED BY <1>1, <1>2, <1>3, <1>5

\* A list has at most what the server has.
LEMMA SnapshotTrue ==
  ASSUME TypeOK, ServerTrue, NEW list \in Listed, run' = run
  PROVE  Snapshot(list) \in Script /\ ScriptTrue(Snapshot(list)) /\ ScriptTrue(Snapshot(list))'
  <1>1. Snapshot(list) \in Script BY ListedType DEF Snapshot, Script
  <1>2. \A a \in App : list[a] # "none" => run[a] > 0 BY DEF Listed, ServerTrue, TypeOK, List
  <1>3. Snapshot(list).kind # "ack" /\ Snapshot(list).list = list BY DEF Snapshot
  <1> QED BY <1>1, <1>2, <1>3 DEF ScriptTrue

\* A request that is answered with a status was queued, now or before.
LEMMA AckTrue ==
  ASSUME TypeOK, ServerTrue, NEW a \in App, RequestInstall(a)
  PROVE  \E s \in Script : /\ ScriptTrue(s)' /\ scripts' = Append(scripts, s)
                           /\ \A b \in App : s.kind = "ack" /\ s.app = b => s.run = run'[b]
  <1>1. PICK call \in SendRequest, reply \in Replies(a) :
          /\ Charge(call # "answered")
          /\ IF call = "failed" THEN UNCHANGED server ELSE Accept(a, reply)
          /\ Post(Ack(a, Cli(call, InstallFromStore(reply), ""), run'[a]))
    BY DEF RequestInstall
  <1> DEFINE status == Cli(call, InstallFromStore(reply), "")
  <1>2. status \in Status BY DEF Cli, InstallFromStore, Replies, Status
  <1>3. run' \in [App -> 0..MaxRuns] BY RequestType
  <1>4. PICK s \in Script : s = Ack(a, status, run'[a]) BY <1>2, <1>3 DEF Ack, Script
  <1>5. run \in [App -> Nat] /\ srv \in [App -> State] BY BoundAssumption DEF TypeOK, List
  <1>6. ASSUME status # "" PROVE run'[a] > 0
    <2>1. call = "answered" /\ reply # "refused" BY <1>6 DEF Cli, InstallFromStore
    <2>2. CASE Queue(a) BY <1>5, <2>2 DEF Queue
    <2>3. CASE ~ Queue(a)
      <3>1. reply \notin {"no status", "queued", "re-queued"} /\ UNCHANGED server
        BY <1>1, <2>1, <2>3 DEF Accept
      <3>2. srv[a] # "none" BY <2>1, <3>1 DEF Replies
      <3> QED BY <1>5, <3>1, <3>2 DEF ServerTrue, server
    <2> QED BY <2>2, <2>3
  <1>7. s.kind = "ack" /\ s.app = a /\ s.status = status /\ s.run = run'[a] BY <1>4 DEF Ack
  <1> HIDE DEF status
  <1>8. ScriptTrue(s)'
    <2>1. run'[a] \in Nat BY <1>3, BoundAssumption
    <2>2. s.run <= run'[s.app] BY <1>7, <2>1
    <2>3. s.status # "" => s.run > 0 BY <1>6, <1>7
    <2> QED BY <1>7, <2>2, <2>3 DEF ScriptTrue
  <1>9. scripts' = Append(scripts, s) BY <1>1, <1>4 DEF Post, status
  <1> QED BY <1>4, <1>7, <1>8, <1>9

LEMMA PushTrue ==
  ASSUME TypeOK, ServerTrue, PushStore, run' = run
  PROVE  \/ scripts' = scripts
         \/ \E s \in Script : /\ ScriptTrue(s)' /\ scripts' = Append(scripts, s)
                              /\ \A a \in App : s.kind = "ack" /\ s.app = a => s.run = run'[a]
  <1>1. PICK call \in SendRequest, list \in Listed :
          IF call = "answered" THEN Post(Snapshot(list)) ELSE UNCHANGED scripts
    BY DEF PushStore
  <1>2. Snapshot(list) \in Script /\ ScriptTrue(Snapshot(list))' /\ Snapshot(list).kind # "ack"
    BY SnapshotTrue DEF Snapshot
  <1> QED BY <1>1, <1>2 DEF Post

LEMMA ScriptsChange == ASSUME TypeOK, ServerTrue, [Next]_vars PROVE ScriptsStep
  <1>1. CASE OnWebMessage
    <2>1. inbox # <<>> /\ Head(inbox) \in Message /\ acked' = acked
      BY <1>1, TailType DEF OnWebMessage, TypeOK, page
    <2>2. CASE PushStore /\ UNCHANGED server BY <2>1, <2>2, PushTrue DEF server, ScriptsStep
    <2>3. CASE Head(inbox) # Refresh /\ RequestInstall(Head(inbox))
      <3>1. Head(inbox) \in App BY <2>1, <2>3 DEF Message
      <3> QED BY <2>1, <2>3, <3>1, AckTrue DEF ScriptsStep
    <2>4. CASE NoTool BY <2>1, <2>4 DEF NoTool, ScriptsStep
    <2> QED BY <1>1, <2>2, <2>3, <2>4 DEF OnWebMessage
  <1>2. CASE Acknowledged
    <2>1. acked' = acked /\ PushStore /\ run' = run BY <1>2 DEF Acknowledged, page, server
    <2> QED BY <2>1, PushTrue DEF ScriptsStep
  <1>3. CASE ~ (OnWebMessage \/ Acknowledged \/ Execute \/ Open)
    BY <1>3 DEF Next, Environment, Program, Deploy, Progress, Remove, Install, RequestRefresh, window, page,
                vars, ScriptsStep
  <1> QED BY <1>1, <1>2, <1>3 DEF ScriptsStep

\* The page takes the first script and nothing else changes what it remembers.
LEMMA ExecuteAcks ==
  ASSUME TypeOK, Execute
  PROVE  /\ scripts # <<>> /\ scripts' = Tail(scripts) /\ UNCHANGED server
         /\ \A a \in App : \/ acked'[a] \in {0, acked[a]}
                           \/ AckFor(1, a) /\ acked'[a] = scripts[1].run
  <1>1. scripts # <<>> /\ scripts' = Tail(scripts) /\ UNCHANGED server BY DEF Execute
  <1>2. Head(scripts) = scripts[1] BY <1>1 DEF TypeOK
  <1>3. CASE Head(scripts).kind = "ack" /\ ApplyInstallAck(Head(scripts))
    <2> DEFINE s == Head(scripts)
               n == [acked EXCEPT ![s.app] = IF s.status \in {"queued", "already_queued"} THEN s.run ELSE @]
    <2>1. s.kind = "ack" /\ acked' = [a \in App |-> IF apps[a] = "installed" THEN 0 ELSE n[a]]
      BY <1>3 DEF ApplyInstallAck, Render
    <2>2. ASSUME NEW a \in App PROVE n[a] = acked[a] \/ (s.app = a /\ n[a] = s.run) BY DEF TypeOK
    <2> HIDE DEF n
    <2> QED BY <1>1, <1>2, <2>1, <2>2 DEF AckFor
  <1>4. CASE Head(scripts).kind = "snapshot" /\ RenderStore(Head(scripts).list)
    BY <1>1, <1>4 DEF RenderStore, Render
  <1> QED BY <1>1, <1>3, <1>4 DEF Execute

LEMMA PageStep ==
  ASSUME TypeOK, Truthful, [Next]_vars
  PROVE  PageTrue'
  <1>0. /\ run \in [App -> Nat] /\ run' \in [App -> Nat] /\ acked \in [App -> Nat]
        /\ \A a \in App : run'[a] >= run[a]
    BY RunGrows, BoundAssumption DEF TypeOK
  <1>1. CASE Execute
    <2>1. scripts # <<>> /\ run' = run BY <1>1 DEF Execute, server
    <2>2. Head(scripts) \in Script /\ Head(scripts) = scripts[1] /\ 1 \in 1..Len(scripts)
      BY <2>1, TailType DEF TypeOK
    <2>3. ScriptTrue(Head(scripts)) BY <2>2 DEF Truthful, ScriptsTrue
    <2>4. \A a \in App : acked'[a] <= run'[a]
      <3> SUFFICES ASSUME NEW a \in App PROVE acked'[a] <= run'[a] OBVIOUS
      <3>1. CASE acked'[a] \in {0, acked[a]} BY <1>0, <2>1, <3>1 DEF Truthful, PageTrue
      <3>2. CASE AckFor(1, a) /\ acked'[a] = scripts[1].run
        BY <2>1, <2>2, <2>3, <3>2 DEF AckFor, ScriptTrue
      <3> QED BY <1>1, <3>1, <3>2, ExecuteAcks
    <2>5. \A a \in App : transient'[a] # "none" \/ apps'[a] \notin {"none", "unlisted"} => run[a] > 0
      <3>1. CASE Head(scripts).kind = "ack" /\ ApplyInstallAck(Head(scripts))
        <4> DEFINE s == Head(scripts)
                   t == [transient EXCEPT ![s.app] = TransientOf(s.status, @)]
        <4>1. s.app \in App /\ s.run \in Nat /\ s.status \in Status
          BY <2>2, <3>1, BoundAssumption DEF Script
        <4>2. s.run <= run[s.app] /\ (s.status # "" => s.run > 0) BY <2>3, <3>1 DEF ScriptTrue
        <4>3. run[s.app] \in Nat BY <1>0, <4>1
        <4>4. s.status # "" => run[s.app] > 0
          <5> DEFINE r == s.run
                     q == run[s.app]
          <5>1. r \in Nat /\ q \in Nat /\ r <= q BY <4>1, <4>2, <4>3
          <5> HIDE DEF r, q
          <5>2. r > 0 => q > 0 BY <5>1
          <5> QED BY <4>2, <5>2, Zenon DEF r, q
        <4>5. ASSUME NEW a \in App, t[a] # "none" PROVE run[a] > 0
          <5>1. CASE t[a] = transient[a] BY <4>5, <5>1 DEF Truthful, PageTrue
          <5>2. CASE t[a] # transient[a]
            <6>1. a = s.app /\ s.status # "" BY <5>2 DEF TypeOK, TransientOf
            <6> QED BY <4>4, <6>1
          <5> QED BY <5>1, <5>2
        <4>6. apps' = apps /\ \A a \in App : transient'[a] \in {"none", t[a]}
          BY <3>1 DEF ApplyInstallAck, Render
        <4> HIDE DEF t
        <4> QED BY <4>5, <4>6 DEF Truthful, PageTrue
      <3>2. CASE Head(scripts).kind = "snapshot" /\ RenderStore(Head(scripts).list)
        <4>1. \A a \in App : Head(scripts).list[a] # "none" => run[a] > 0
          BY <2>3, <3>2 DEF ScriptTrue
        <4>2. apps' = Head(scripts).list /\ \A a \in App : transient'[a] \in {"none", transient[a]}
          BY <3>2 DEF RenderStore, Render
        <4> QED BY <4>1, <4>2 DEF Truthful, PageTrue
      <3> QED BY <1>1, <3>1, <3>2 DEF Execute
    <2> QED BY <2>1, <2>4, <2>5 DEF PageTrue
  <1>2. CASE Open BY <1>0, <1>2 DEF Open, PageTrue
  <1>3. CASE ~ (Execute \/ Open)
    <2>1. UNCHANGED <<apps, transient, acked>>
      BY <1>3 DEF Next, Environment, Program, Deploy, Progress, Remove, Install, OnWebMessage, Acknowledged,
                  RequestRefresh, page, vars
    <2> QED BY <1>0, <2>1 DEF Truthful, PageTrue
  <1> QED BY <1>1, <1>2, <1>3

LEMMA TailAt ==
  ASSUME NEW S, NEW q \in Seq(S), q # <<>>
  PROVE  /\ Len(Tail(q)) = Len(q) - 1 /\ Len(q) \in Nat
         /\ \A i \in 1..Len(Tail(q)) : i + 1 \in 1..Len(q) /\ Tail(q)[i] = q[i + 1]
  OBVIOUS

LEMMA AppendAt ==
  ASSUME NEW S, NEW q \in Seq(S), NEW e \in S
  PROVE  /\ Len(Append(q, e)) = Len(q) + 1 /\ Append(q, e)[Len(q) + 1] = e
         /\ \A i \in 1..Len(Append(q, e)) :
              i = Len(q) + 1 \/ (i \in 1..Len(q) /\ Append(q, e)[i] = q[i])
  OBVIOUS

LEMMA ScriptsTrueStep ==
  ASSUME TypeOK, Truthful, [Next]_vars
  PROVE  ScriptsTrue'
  <1>0. run' \in [App -> Nat] /\ \A a \in App : run'[a] >= run[a] BY RunGrows
  <1>1. scripts \in Seq(Script) BY DEF TypeOK
  <1>2. \A i \in 1..Len(scripts) : scripts[i] \in Script BY <1>1
  <1>3. \A i \in 1..Len(scripts) : ScriptTrue(scripts[i]) BY DEF Truthful, ScriptsTrue
  <1>4. \A s \in Script : ScriptTrue(s) => ScriptTrue(s)' BY <1>0, ScriptStays
  <1>5. ASSUME NEW i \in 1..Len(scripts'), NEW j \in 1..Len(scripts), scripts'[i] = scripts[j]
        PROVE  ScriptTrue(scripts[i])'
    <2>1. PICK s \in Script : s = scripts[j] BY <1>2
    <2>2. ScriptTrue(s)' BY <1>3, <1>4, <2>1
    <2>3. s = scripts'[i] BY <1>5, <2>1
    <2> QED BY <2>2, <2>3 DEF ScriptTrue
  <1>6. CASE scripts' = scripts BY <1>5, <1>6 DEF ScriptsTrue
  <1>7. CASE Execute
    <2>1. scripts # <<>> /\ scripts' = Tail(scripts) BY <1>7, ExecuteAcks
    <2>2. \A i \in 1..Len(scripts') : i + 1 \in 1..Len(scripts) /\ scripts'[i] = scripts[i + 1]
      BY <1>1, <2>1, TailAt
    <2>3. \A i \in 1..Len(scripts') : ScriptTrue(scripts[i])' BY <1>5, <2>2
    <2> QED BY <2>3 DEF ScriptsTrue
  <1>8. CASE \E s \in Script : ScriptTrue(s)' /\ scripts' = Append(scripts, s)
    <2>1. PICK s \in Script : ScriptTrue(s)' /\ scripts' = Append(scripts, s) BY <1>8
    <2> SUFFICES ASSUME NEW i \in 1..Len(scripts') PROVE ScriptTrue(scripts[i])' BY DEF ScriptsTrue
    <2>2. CASE i = Len(scripts) + 1
      <3>1. scripts'[i] = s BY <1>1, <2>1, <2>2, AppendAt
      <3> QED BY <2>1, <3>1 DEF ScriptTrue
    <2>3. CASE i \in 1..Len(scripts) /\ scripts'[i] = scripts[i] BY <1>5, <2>3
    <2> QED BY <1>1, <2>1, <2>2, <2>3, AppendAt
  <1>9. CASE Open
    <2>1. srv \in Listed /\ run' = run BY <1>9 DEF Listed, Open, server
    <2>2. PICK s \in Script : s = Snapshot(srv) /\ ScriptTrue(s)'
      <3>1. PICK l \in List : l = srv BY DEF TypeOK
      <3>2. Snapshot(l) \in Script /\ ScriptTrue(Snapshot(l))' BY <2>1, <3>1, SnapshotTrue DEF Truthful
      <3> QED BY <3>1, <3>2
    <2>3. \A i \in 1..Len(scripts') : scripts'[i] = s BY <1>9, <2>2 DEF Open
    <2>4. \A i \in 1..Len(scripts') : ScriptTrue(scripts[i])' BY <2>2, <2>3 DEF ScriptTrue
    <2> QED BY <2>4 DEF ScriptsTrue
  <1> QED BY <1>6, <1>7, <1>8, <1>9, ScriptsChange DEF ScriptsStep, Truthful

LEMMA InOrderStep ==
  ASSUME TypeOK, Truthful, InOrder, [Next]_vars
  PROVE  InOrder'
  <1>0. /\ run \in [App -> Nat] /\ run' \in [App -> Nat] /\ acked \in [App -> Nat]
        /\ \A a \in App : run'[a] >= run[a]
    BY RunGrows, BoundAssumption DEF TypeOK
  <1>1. scripts \in Seq(Script) BY DEF TypeOK
  <1> SUFFICES ASSUME NEW a \in App, NEW i \in 1..Len(scripts'), AckFor(i, a)'
               PROVE  /\ acked'[a] <= scripts'[i].run
                      /\ \A j \in 1..i : AckFor(j, a)' => scripts'[j].run <= scripts'[i].run
    BY DEF InOrder
  <1>2. CASE scripts' = scripts /\ acked' = acked BY <1>2 DEF InOrder, AckFor
  <1>3. CASE Execute
    <2>1. scripts # <<>> /\ scripts' = Tail(scripts) BY <1>3, ExecuteAcks
    <2>2. \A k \in 1..Len(scripts') : k + 1 \in 1..Len(scripts) /\ scripts'[k] = scripts[k + 1]
      BY <1>1, <2>1, TailAt
    <2>3. AckFor(i + 1, a) /\ i + 1 \in 1..Len(scripts) /\ 1 \in 1..(i + 1) BY <2>2 DEF AckFor
    <2>4. acked[a] <= scripts[i + 1].run /\ (AckFor(1, a) => scripts[1].run <= scripts[i + 1].run)
      BY <2>3 DEF InOrder
    <2>5. scripts[i + 1].run \in Nat
      <3>1. scripts[i + 1] \in Script BY <1>1, <2>3
      <3> QED BY <2>3, <3>1, BoundAssumption DEF Script, AckFor
    <2>6. acked'[a] <= scripts'[i].run BY <1>0, <1>3, <2>2, <2>4, <2>5, ExecuteAcks
    <2>7. ASSUME NEW j \in 1..i, AckFor(j, a)' PROVE scripts'[j].run <= scripts'[i].run
      <3>1. j \in 1..Len(scripts') /\ j + 1 \in 1..(i + 1) OBVIOUS
      <3>2. AckFor(j + 1, a) BY <2>2, <2>7, <3>1 DEF AckFor
      <3>3. scripts[j + 1].run <= scripts[i + 1].run BY <2>3, <3>1, <3>2 DEF InOrder
      <3> QED BY <2>2, <3>1, <3>3
    <2> QED BY <2>6, <2>7
  <1>4. CASE /\ acked' = acked
             /\ \E s \in Script : /\ scripts' = Append(scripts, s)
                                  /\ \A b \in App : s.kind = "ack" /\ s.app = b => s.run = run'[b]
    <2>1. PICK s \in Script : /\ scripts' = Append(scripts, s)
                              /\ \A b \in App : s.kind = "ack" /\ s.app = b => s.run = run'[b]
      BY <1>4
    <2>2. \A k \in 1..Len(scripts') : k = Len(scripts) + 1 \/ (k \in 1..Len(scripts) /\ scripts'[k] = scripts[k])
      BY <1>1, <2>1, AppendAt
    <2>3. CASE i \in 1..Len(scripts) /\ scripts'[i] = scripts[i]
      <3>1. AckFor(i, a) BY <2>3 DEF AckFor
      <3>2. acked[a] <= scripts[i].run BY <2>3, <3>1 DEF InOrder
      <3>3. ASSUME NEW j \in 1..i, AckFor(j, a)' PROVE scripts'[j].run <= scripts'[i].run
        <4>1. j \in 1..Len(scripts) /\ j \in 1..Len(scripts') BY <1>1, <2>3
        <4>2. scripts'[j] = scripts[j] BY <1>1, <2>2, <4>1
        <4>3. AckFor(j, a) BY <3>3, <4>2 DEF AckFor
        <4> QED BY <2>3, <3>1, <4>2, <4>3 DEF InOrder
      <3> QED BY <1>4, <2>3, <3>2, <3>3
    <2>4. CASE i = Len(scripts) + 1
      <3>1. scripts'[i] = s BY <1>1, <2>1, <2>4, AppendAt
      <3>2. scripts'[i].run = run'[a] BY <2>1, <3>1 DEF AckFor
      <3>3. acked[a] <= run[a] BY DEF Truthful, PageTrue
      <3>4. acked'[a] <= scripts'[i].run BY <1>0, <1>4, <3>2, <3>3
      <3>5. ASSUME NEW j \in 1..i, AckFor(j, a)' PROVE scripts'[j].run <= scripts'[i].run
        <4>1. CASE j = i BY <1>0, <3>2, <4>1
        <4>2. CASE j # i
          <5>1. j \in 1..Len(scripts) /\ scripts'[j] = scripts[j] BY <1>1, <2>2, <2>4, <4>2
          <5>2. AckFor(j, a) /\ ScriptTrue(scripts[j])
            BY <3>5, <5>1 DEF AckFor, Truthful, ScriptsTrue
          <5>3. scripts[j].run <= run[a] BY <5>2 DEF AckFor, ScriptTrue
          <5>4. scripts[j].run \in Nat
            <6>1. scripts[j] \in Script BY <1>1, <5>1
            <6> QED BY <5>2, <6>1, BoundAssumption DEF Script, AckFor
          <5>5. \A x, y, z \in Nat : x <= y /\ z >= y => x <= z OBVIOUS
          <5>6. run[a] \in Nat /\ run'[a] \in Nat /\ run'[a] >= run[a] BY <1>0
          <5>7. scripts[j].run <= run'[a] BY <5>3, <5>4, <5>5, <5>6, Zenon
          <5> QED BY <3>2, <5>1, <5>7
        <4> QED BY <4>1, <4>2
      <3> QED BY <3>4, <3>5
    <2> QED BY <2>2, <2>3, <2>4
  <1>5. CASE Open
    <2>1. scripts' = <<>> \/ scripts' = <<Snapshot(srv)>> BY <1>5 DEF Open
    <2>2. scripts'[i].kind = "snapshot" BY <2>1 DEF Snapshot
    <2> QED BY <2>2 DEF AckFor
  <1> QED BY <1>2, <1>3, <1>4, <1>5, ScriptsChange DEF ScriptsStep, Truthful

LEMMA TruthfulInit == Init => Truthful /\ InOrder
  <1> SUFFICES ASSUME Init PROVE Truthful /\ InOrder OBVIOUS
  <1>1. ServerTrue /\ PageTrue BY DEF Init, FreshPage, ServerTrue, PageTrue
  <1>2. \A i \in 1..Len(scripts) : scripts[i] = Snapshot(srv) BY DEF Init
  <1>3. Snapshot(srv).kind = "snapshot" /\ Snapshot(srv).list = srv BY DEF Snapshot
  <1>4. ScriptTrue(Snapshot(srv)) BY <1>1, <1>3 DEF ScriptTrue, ServerTrue
  <1> QED BY <1>1, <1>2, <1>3, <1>4 DEF Truthful, ScriptsTrue, InOrder, AckFor

LEMMA TruthfulStep == TypeOK /\ Truthful /\ InOrder /\ [Next]_vars => Truthful' /\ InOrder'
  BY ServerStep, PageStep, ScriptsTrueStep, InOrderStep DEF Truthful

LEMMA TruthfulHolds == Spec => [](TypeOK /\ Truthful /\ InOrder)
  BY InitTypeOK, NextTypeOK, TruthfulInit, TruthfulStep, PTL DEF Spec

\* What the page shows of an application has a cause at the server, whatever
\* answers and lists were lost, late or incomplete.
THEOREM ShownHasCause == Spec => []ShownWasQueued
  <1>1. TypeOK /\ Truthful => ShownWasQueued
    <2> SUFFICES ASSUME TypeOK, Truthful, NEW a \in App
                 PROVE  (Card(a) \in {"progress", "installed"} => run[a] > 0) /\ acked[a] <= run[a]
      BY DEF ShownWasQueued
    <2>1. CASE transient[a] = "none" /\ apps[a] \in {"none", "unlisted"}
      BY <2>1 DEF Card, CardState, InProgress, Truthful, PageTrue
    <2>2. CASE ~ (transient[a] = "none" /\ apps[a] \in {"none", "unlisted"})
      BY <2>2 DEF Truthful, PageTrue
    <2> QED BY <2>1, <2>2
  <1> QED BY <1>1, TruthfulHolds, PTL

\* The page takes the acknowledgements of an application in the order of its
\* installations.
THEOREM AcksOrdered == Spec => AcksInOrder
  <1>1. TypeOK /\ Truthful /\ InOrder /\ [Next]_vars
          => [\A a \in App : acked'[a] >= acked[a] \/ acked'[a] = 0]_vars
    <2> SUFFICES ASSUME TypeOK, Truthful, InOrder, [Next]_vars, NEW a \in App
                 PROVE  acked'[a] >= acked[a] \/ acked'[a] = 0
      OBVIOUS
    <2>1. acked \in [App -> Nat] BY BoundAssumption DEF TypeOK
    <2>2. CASE acked' = acked BY <2>1, <2>2
    <2>3. CASE Open BY <2>3 DEF Open
    <2>4. CASE Execute
      <3>1. CASE acked'[a] \in {0, acked[a]} BY <2>1, <3>1
      <3>2. CASE AckFor(1, a) /\ acked'[a] = scripts[1].run
        <4>1. scripts # <<>> /\ scripts \in Seq(Script) BY <2>4, ExecuteAcks DEF TypeOK
        <4>2. 1 \in 1..Len(scripts) BY <4>1
        <4>3. acked[a] <= scripts[1].run BY <3>2, <4>2 DEF InOrder
        <4>4. scripts[1].run \in Nat
          <5>1. scripts[1] \in Script BY <4>1, <4>2
          <5> QED BY <3>2, <5>1, BoundAssumption DEF Script, AckFor
        <4> QED BY <2>1, <3>2, <4>3, <4>4
      <3> QED BY <2>4, <3>1, <3>2, ExecuteAcks
    <2> QED BY <2>2, <2>3, <2>4, ScriptsChange DEF ScriptsStep, Truthful
  <1> QED BY <1>1, TruthfulHolds, PTL DEF Spec, AcksInOrder

=============================================================================
