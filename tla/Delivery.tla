------------------------------ MODULE Delivery ------------------------------
(***************************************************************************)
(* How what the server has for the agent reaches it: the heartbeat sender, *)
(* the long-poll signal listener, the WebSocket client and the main loop   *)
(* of cmd/service/core.go, which share the flag wsActive, the trigger of   *)
(* the sender and the channel of heartbeat answers.                        *)
(*                                                                         *)
(* What the server has is the version of its configuration and the items   *)
(* that wait for an answer of the agent: commands and announcements.  It   *)
(* tells all of it in a heartbeat answer and in server.hello, and pushes   *)
(* what is new on the WebSocket while it believes in the connection.  How  *)
(* a command is run is the business of TaskQueue, what a configuration     *)
(* does to the tray that of RuntimeUpdate; here they are the version in    *)
(* use and the items that arrived.                                         *)
(***************************************************************************)
EXTENDS Naturals, Sequences, FiniteSets

CONSTANTS
  Command,       \* commands the server may ask for
  Announcement,  \* announcements it may make
  MaxConfig,     \* the last version of its configuration
  WsEnabled,     \* websocket_enabled in each version
  Capacity,      \* of pollResults; 8 in the code
  MaxItems,      \* bound: items the server asks for in one behaviour
  MaxBoxes,      \* bound: message boxes counted for one announcement
  MaxFaults      \* bound: connections and requests that fail

Item   == Command \cup Announcement
Config == 0..MaxConfig

ASSUME ItemAssumption == Command \cap Announcement = {}
ASSUME ConfigAssumption == MaxConfig \in Nat /\ WsEnabled \in [Config -> BOOLEAN]
ASSUME BoundAssumption == Capacity \in Nat \ {0} /\ MaxBoxes \in Nat \ {0} /\ MaxItems \in Nat /\ MaxFaults \in Nat

VARIABLES
  srvConfig, \* the server's configuration
  pending,   \* items it has for the agent and that are not answered
  link,      \* the connection of the WebSocket client works
  line       \* messages on it that the client has not read

VARIABLES
  pc,        \* where the goroutines "main", "ws", "sender" and "listener" are
  msg,       \* what main, ws and sender have in hand
  wsStarted, \* startWSClient has run
  wsActive,  \* wsActive, and the copy of it in the sender
  trigger,   \* triggerCh holds a token
  results,   \* pollResults
  config,    \* the configuration the agent has applied
  boxes,     \* goroutines that show each announcement
  tracked    \* announcementTracker

VARIABLES
  asked,     \* history: TriggerNow was called and no heartbeat was built since
  arrived,   \* history: items that reached the agent
  overtaken, \* history: the last configuration applied was older than the one before
  faults     \* how many connections and requests have failed

server  == <<srvConfig, pending>>
network == <<link, line>>
screen  == <<boxes, tracked>>
vars    == <<server, network, pc, msg, wsStarted, wsActive, trigger, results, config, screen,
             asked, arrived, overtaken, faults>>

Goroutine == {"main", "ws", "sender", "listener"}
Handler   == {"main", "ws"}
Handling  == {"config", "announce", "commands"}
\* The labels of Run at which the client has a connection.
Connected == {"handshake", "connected", "loop"} \cup Handling

\* A message of the server: a version, or MaxConfig + 1 for none, and items.
NoConfig == MaxConfig + 1
Message  == [config : Config \cup {NoConfig}, items : SUBSET Item]
Nothing  == [config |-> NoConfig, items |-> {}]
Snapshot == [config |-> srvConfig, items |-> pending]

Goto(g, to) == pc' = [pc EXCEPT ![g] = to]
Move(g, from, to) == pc[g] = from /\ Goto(g, to)
Hold(g, m) == msg' = [msg EXCEPT ![g] = m]
Fault == faults < MaxFaults /\ faults' = faults + 1

Init ==
  /\ srvConfig = 0 /\ pending = {}
  /\ link = FALSE /\ line = <<>>
  /\ pc = [main |-> "select", ws |-> "down", sender |-> "request", listener |-> "check"]
  /\ msg = [g \in {"main", "ws", "sender"} |-> Nothing]
  /\ config = 0 /\ wsStarted \in BOOLEAN
  /\ wsActive = FALSE /\ trigger = FALSE /\ results = <<>>
  /\ boxes = [a \in Announcement |-> 0] /\ tracked = {}
  /\ asked = FALSE /\ arrived = {} /\ overtaken = FALSE /\ faults = 0

-----------------------------------------------------------------------------
(* The server *)

\* The server believes in a connection from server.hello on.
Push(m) ==
  line' = IF link /\ pc["ws"] \in Connected \ {"handshake"} THEN Append(line, m) ELSE line

NewConfig ==
  /\ srvConfig < MaxConfig
  /\ srvConfig' = srvConfig + 1
  /\ Push([config |-> srvConfig', items |-> {}])
  /\ UNCHANGED <<pending, link, pc, msg, wsStarted, wsActive, trigger, results, config, screen, asked, arrived, overtaken, faults>>

NewItem(i) ==
  /\ i \notin pending \cup arrived /\ Cardinality(pending \cup arrived) < MaxItems
  /\ pending' = pending \cup {i}
  /\ Push([config |-> NoConfig, items |-> {i}])
  /\ UNCHANGED <<srvConfig, link, pc, msg, wsStarted, wsActive, trigger, results, config, screen, asked, arrived, overtaken, faults>>

LinkBreaks ==
  /\ link /\ Fault
  /\ link' = FALSE /\ line' = <<>>
  /\ UNCHANGED <<server, pc, msg, wsStarted, wsActive, trigger, results, config, screen, asked, arrived, overtaken>>

-----------------------------------------------------------------------------
(* What main and ws do with a message: the configuration first, then the     *)
(* announcements, then the commands.                                         *)

Rest(g) == IF g = "main" THEN "select" ELSE IF wsActive THEN "loop" ELSE "connected"

\* (mutant) A message without a configuration resets what is in use.
ApplyConfigNil(g) ==
  LET v == msg[g].config
  IN /\ Move(g, "config", IF msg[g].items = {} THEN Rest(g) ELSE "announce")
     /\ IF msg[g].items = {} THEN Hold(g, Nothing) ELSE UNCHANGED msg
     /\ config' = v
     /\ wsStarted' = (wsStarted \/ (v # NoConfig /\ WsEnabled[v]))
     /\ overtaken' = (v < config \/ (overtaken /\ v = config))
     /\ UNCHANGED <<server, network, wsActive, trigger, results, screen, asked, arrived, faults>>

\* applyServerConfig, under stateMu.  A WebSocket client that runs is not
\* stopped by websocket_enabled=false.
ApplyConfig(g) ==
  LET v == msg[g].config
  IN /\ Move(g, "config", IF msg[g].items = {} THEN Rest(g) ELSE "announce")
     /\ IF msg[g].items = {} THEN Hold(g, Nothing) ELSE UNCHANGED msg
     /\ IF v = NoConfig
          THEN UNCHANGED <<config, wsStarted, overtaken>>
          ELSE /\ config' = v
               /\ wsStarted' = (wsStarted \/ WsEnabled[v])
               /\ overtaken' = (v < config \/ (overtaken /\ v = config))
     /\ UNCHANGED <<server, network, wsActive, trigger, results, screen, asked, arrived, faults>>

\* (mutant) An announcement that was shown before is not shown again.
AnnounceOnce(g) ==
  LET new == (msg[g].items \cap Announcement) \ arrived
  IN /\ Move(g, "announce", "commands")
     /\ tracked' = tracked \cup new
     /\ boxes' = [a \in Announcement |-> IF a \in new THEN 1 ELSE boxes[a]]
     /\ arrived' = arrived \cup new
     /\ UNCHANGED <<server, network, msg, wsStarted, wsActive, trigger, results, config, asked, overtaken, faults>>

\* handleAnnouncementPush: the announcement is tracked and a goroutine shows it,
\* once for every message that has it.
Announce(g) ==
  LET new == msg[g].items \cap Announcement
  IN /\ Move(g, "announce", "commands")
     /\ tracked' = tracked \cup new
     /\ boxes' = [a \in Announcement |->
                    IF a \in new /\ boxes[a] < MaxBoxes THEN boxes[a] + 1 ELSE boxes[a]]
     /\ arrived' = arrived \cup new
     /\ UNCHANGED <<server, network, msg, wsStarted, wsActive, trigger, results, config, asked, overtaken, faults>>

\* processCommands, under stateMu: the commands are run and reported; the server
\* keeps those of which no report arrived, which costs a fault.
ProcessCommands(g) ==
  LET new == msg[g].items \cap Command
  IN /\ Move(g, "commands", Rest(g))
     /\ Hold(g, Nothing)
     /\ arrived' = arrived \cup new
     /\ \/ pending' = pending \ new /\ UNCHANGED faults
        \/ new # {} /\ Fault /\ UNCHANGED pending
     /\ UNCHANGED <<srvConfig, network, wsStarted, wsActive, trigger, results, config, screen, asked, overtaken>>

\* (mutant) The goroutine returns when the acknowledgement cannot be sent.
BoxClosesEarly(a) ==
  /\ boxes[a] > 0
  /\ boxes' = [boxes EXCEPT ![a] = @ - 1]
  /\ IF link /\ pc["ws"] \in Connected \ {"handshake"}
       THEN tracked' = tracked \ {a} /\ pending' = pending \ {a}
       ELSE UNCHANGED <<tracked, pending>>
  /\ UNCHANGED <<srvConfig, network, pc, msg, wsStarted, wsActive, trigger, results, config, asked, arrived, overtaken, faults>>

\* The box of an announcement is over, or was never shown: the acknowledgement
\* goes out if there is a connection, and counts once the handshake is over;
\* the announcement is forgotten in any case.
BoxCloses(a) ==
  /\ boxes[a] > 0
  /\ boxes' = [boxes EXCEPT ![a] = @ - 1]
  /\ tracked' = tracked \ {a}
  /\ pending' = IF link /\ pc["ws"] \in Connected \ {"handshake"} THEN pending \ {a} ELSE pending
  /\ UNCHANGED <<srvConfig, network, pc, msg, wsStarted, wsActive, trigger, results, config, asked, arrived, overtaken, faults>>

-----------------------------------------------------------------------------
(* Heartbeat sender and signal listener *)

TriggerNow == trigger' = TRUE /\ asked' = TRUE

\* A heartbeat is built, at the start and then for a tick of the ticker, which
\* is skipped while the WebSocket is active, or for a trigger.
Tick ==
  /\ Move("sender", "wait", "request")
  /\ ~ wsActive
  /\ asked' = FALSE
  /\ UNCHANGED <<server, network, msg, wsStarted, wsActive, trigger, results, config, screen, arrived, overtaken, faults>>

Triggered ==
  /\ Move("sender", "wait", "request")
  /\ trigger
  /\ trigger' = FALSE /\ asked' = FALSE
  /\ UNCHANGED <<server, network, msg, wsStarted, wsActive, results, config, screen, arrived, overtaken, faults>>

\* The request fails, or the server answers with what it has.
Answered ==
  /\ Move("sender", "request", "handover")
  /\ Hold("sender", Snapshot)
  /\ UNCHANGED <<server, network, wsStarted, wsActive, trigger, results, config, screen, asked, arrived, overtaken, faults>>

\* (mutant) After an error the empty answer is handed over.
RequestFailsOn ==
  /\ Move("sender", "request", "handover")
  /\ Fault
  /\ UNCHANGED <<server, network, msg, wsStarted, wsActive, trigger, results, config, screen, asked, arrived, overtaken>>

RequestFails ==
  /\ Move("sender", "request", "wait")
  /\ Fault
  /\ UNCHANGED <<server, network, msg, wsStarted, wsActive, trigger, results, config, screen, asked, arrived, overtaken>>

\* (mutant) The channel grows.
HandOverAll ==
  /\ Move("sender", "handover", "wait")
  /\ results' = Append(results, msg["sender"])
  /\ Hold("sender", Nothing)
  /\ UNCHANGED <<server, network, wsStarted, wsActive, trigger, config, screen, asked, arrived, overtaken, faults>>

\* An answer that the channel has no room for is dropped.
HandOver ==
  /\ Move("sender", "handover", "wait")
  /\ results' = IF Len(results) < Capacity THEN Append(results, msg["sender"]) ELSE results
  /\ Hold("sender", Nothing)
  /\ UNCHANGED <<server, network, wsStarted, wsActive, trigger, config, screen, asked, arrived, overtaken, faults>>

\* While the WebSocket is active the listener sleeps.
OpenPoll ==
  /\ Move("listener", "check", "poll")
  /\ ~ wsActive
  /\ UNCHANGED <<server, network, msg, wsStarted, wsActive, trigger, results, config, screen, asked, arrived, overtaken, faults>>

WaitForSignal == {"signal", "timeout", "error"}

\* Only a signal asks for a heartbeat; the next poll follows in any case.
PollEnds ==
  /\ Move("listener", "poll", "check")
  /\ \E status \in WaitForSignal :
       IF status = "signal" THEN TriggerNow ELSE UNCHANGED <<trigger, asked>>
  /\ UNCHANGED <<server, network, msg, wsStarted, wsActive, results, config, screen, arrived, overtaken, faults>>

-----------------------------------------------------------------------------
(* The main loop takes an answer *)

Take ==
  /\ Move("main", "select", "config")
  /\ results # <<>>
  /\ Hold("main", Head(results))
  /\ results' = Tail(results)
  /\ UNCHANGED <<server, network, wsStarted, wsActive, trigger, config, screen, asked, arrived, overtaken, faults>>

-----------------------------------------------------------------------------
(* The WebSocket client *)

Dial ==
  /\ wsStarted
  /\ \/ Move("ws", "down", "handshake") /\ link' = TRUE /\ UNCHANGED faults
     \/ Move("ws", "down", "lost") /\ Fault /\ UNCHANGED link
  /\ UNCHANGED <<server, line, msg, wsStarted, wsActive, trigger, results, config, screen, asked, arrived, overtaken>>

\* (mutant) server.hello brings the configuration only.
HelloConfigOnly ==
  /\ Move("ws", "handshake", "config")
  /\ link
  /\ Hold("ws", [config |-> srvConfig, items |-> {}])
  /\ UNCHANGED <<server, network, wsStarted, wsActive, trigger, results, config, screen, asked, arrived, overtaken, faults>>

\* (mutant) server.hello brings the items only.
HelloItemsOnly ==
  /\ Move("ws", "handshake", "config")
  /\ link
  /\ Hold("ws", [config |-> NoConfig, items |-> pending])
  /\ UNCHANGED <<server, network, wsStarted, wsActive, trigger, results, config, screen, asked, arrived, overtaken, faults>>

\* Authentication and agent.hello are answered by server.hello.
Hello ==
  /\ Move("ws", "handshake", "config")
  /\ link
  /\ Hold("ws", Snapshot)
  /\ UNCHANGED <<server, network, wsStarted, wsActive, trigger, results, config, screen, asked, arrived, overtaken, faults>>

\* OnConnected comes after OnServerHello has returned.
OnConnected ==
  /\ Move("ws", "connected", "loop")
  /\ wsActive' = TRUE
  /\ UNCHANGED <<server, network, msg, wsStarted, trigger, results, config, screen, asked, arrived, overtaken, faults>>

Read ==
  /\ Move("ws", "loop", "config")
  /\ line # <<>>
  /\ Hold("ws", Head(line)) /\ line' = Tail(line)
  /\ UNCHANGED <<server, link, wsStarted, wsActive, trigger, results, config, screen, asked, arrived, overtaken, faults>>

\* server.signal and server.inventory.sync_required, which may come at any time.
ReadSignal ==
  /\ pc["ws"] = "loop" /\ link
  /\ TriggerNow
  /\ UNCHANGED <<server, network, pc, msg, wsStarted, wsActive, results, config, screen, arrived, overtaken, faults>>

\* A connection that broke is noticed by the next read; a handler that runs
\* ends first.
ReadFails ==
  /\ pc["ws"] \in {"handshake", "loop"} /\ ~ link
  /\ Goto("ws", "lost")
  /\ UNCHANGED <<server, network, msg, wsStarted, wsActive, trigger, results, config, screen, asked, arrived, overtaken, faults>>

\* OnDisconnected, also after an attempt that never connected; then the backoff.
OnDisconnected ==
  /\ Move("ws", "lost", "down")
  /\ wsActive' = FALSE
  /\ TriggerNow
  /\ UNCHANGED <<server, network, msg, wsStarted, results, config, screen, arrived, overtaken, faults>>

-----------------------------------------------------------------------------

ServerStep == NewConfig \/ (\E i \in Item : NewItem(i)) \/ LinkBreaks
Handle(g)  == ApplyConfig(g) \/ Announce(g) \/ ProcessCommands(g)
SenderStep == Tick \/ Triggered \/ Answered \/ RequestFails \/ HandOver
ListenerStep == OpenPoll \/ PollEnds
ClientStep == Dial \/ Hello \/ OnConnected \/ Read \/ ReadFails \/ OnDisconnected


Next ==
  \/ ServerStep
  \/ \E g \in Handler : Handle(g)
  \/ \E a \in Announcement : BoxCloses(a)
  \/ SenderStep
  \/ ListenerStep
  \/ Take
  \/ ClientStep
  \/ ReadSignal

Spec == Init /\ [][Next]_vars

\* The goroutines run, the ticker ticks, requests and boxes have timeouts.
Fairness ==
  /\ WF_vars(SenderStep)
  /\ WF_vars(Take \/ Handle("main"))
  /\ WF_vars(ClientStep \/ Handle("ws"))
  /\ \A a \in Announcement : WF_vars(BoxCloses(a))

FairSpec == Spec /\ Fairness

-----------------------------------------------------------------------------

Label == [main : {"select"} \cup Handling,
          ws : {"down", "lost"} \cup Connected,
          sender : {"wait", "request", "handover"},
          listener : {"check", "poll"}]

TypeOK ==
  /\ srvConfig \in Config /\ pending \subseteq Item
  /\ link \in BOOLEAN /\ line \in Seq(Message)
  /\ pc \in Label
  /\ msg \in [{"main", "ws", "sender"} -> Message]
  /\ wsStarted \in BOOLEAN /\ wsActive \in BOOLEAN /\ trigger \in BOOLEAN
  /\ results \in Seq(Message) /\ Len(results) <= Capacity
  /\ config \in Config
  /\ boxes \in [Announcement -> 0..MaxBoxes] /\ tracked \subseteq Announcement
  /\ asked \in BOOLEAN /\ arrived \subseteq Item /\ overtaken \in BOOLEAN
  /\ faults \in 0..MaxFaults

\* What the answers of heartbeats tell is applied in the order the server said
\* it: main's hand, the channel and the sender's hand hold rising versions, and
\* none that the server has not reached.
AnswersInOrder ==
  /\ \A i, j \in 1..Len(results) : i < j => results[i].config <= results[j].config
  /\ pc["main"] = "config" =>
       \A i \in 1..Len(results) : msg["main"].config <= results[i].config
  /\ pc["sender"] = "handover" =>
       /\ \A i \in 1..Len(results) : results[i].config <= msg["sender"].config
       /\ pc["main"] = "config" => msg["main"].config <= msg["sender"].config
  /\ \A i \in 1..Len(results) : results[i].config <= srvConfig
  /\ pc["main"] = "config" => msg["main"].config <= srvConfig
  /\ pc["sender"] = "handover" => msg["sender"].config <= srvConfig

\* Heartbeats and polls are muted from OnConnected to OnDisconnected and at no
\* other time: neither a failed attempt nor a lost connection leaves them off.
MutedWhileConnected ==
  /\ pc["ws"] \in {"down", "handshake", "connected"} => ~ wsActive
  /\ pc["ws"] = "loop" => wsActive

\* No call of TriggerNow is lost: until a heartbeat is built after it, the token
\* is in the channel.
TriggerKept == asked => trigger

\* An announcement is tracked only as long as a box is to close, also when its
\* acknowledgement cannot be sent.
TrackedWhileShown == \A a \in tracked : boxes[a] > 0

\* Whatever fails, is dropped, comes twice or late: only what the server asked
\* arrives, only what has arrived is answered, and the configuration in use is
\* one of the server's, which without the WebSocket only rises.
Mail == INSTANCE Mailbox WITH published <- srvConfig, used <- config, pushed <- wsStarted
ImplementsMailbox == Mail!MailSpec

\* Whatever the server asks reaches the agent, over connections that break,
\* heartbeats that fail and answers that are dropped: again and again nothing is
\* left that has not arrived.
ItemsArrive == []<>(pending \subseteq arrived)

\* A new configuration comes into use, unless the last thing applied was an
\* answer that a newer version had overtaken on the WebSocket.
ConfigSettles == []<>(config = srvConfig \/ overtaken)

\* Every announcement is acknowledged in the end where there is a WebSocket.
AnnouncementsAcked == []<>(wsStarted => pending \cap Announcement = {})
=============================================================================
