-------------------------- MODULE DeliveryProofs --------------------------
(***************************************************************************)
(* Proofs about Delivery, for any commands, announcements, configurations  *)
(* and any capacity of the channel of heartbeat answers.                   *)
(***************************************************************************)
EXTENDS Delivery, TLAPS

----------------------------------------------------------------------------
(* Type correctness *)

USE DEF server, network, screen

LEMMA TypeInit == Init => TypeOK
<1> SUFFICES ASSUME Init PROVE TypeOK
    OBVIOUS
<1>1. Nothing \in Message /\ 0 \in Config
    BY ConfigAssumption DEF Message, Nothing, NoConfig, Config
<1>2. msg \in [{"main", "ws", "sender"} -> Message]
    BY <1>1 DEF Init
<1>3. pc \in Label
    BY DEF Init, Label, Handling, Connected
<1>4. boxes \in [Announcement -> 0..MaxBoxes] /\ faults \in 0..MaxFaults
    BY BoundAssumption DEF Init
<1>5. Len(results) <= Capacity /\ results \in Seq(Message) /\ line \in Seq(Message)
    BY BoundAssumption DEF Init
<1>6. QED
    BY <1>1, <1>2, <1>3, <1>4, <1>5 DEF Init, TypeOK

LEMMA MessageTypes == TypeOK => Nothing \in Message /\ Snapshot \in Message
    BY ConfigAssumption DEF TypeOK, Message, Nothing, Snapshot, NoConfig, Config

\* A message that is pushed is appended to what is on the line.
LEMMA PushType ==
  ASSUME TypeOK, NEW m \in Message, Push(m)
  PROVE  line' \in Seq(Message)
    BY DEF TypeOK, Push

LEMMA FaultType ==
  ASSUME TypeOK, Fault
  PROVE  faults' \in 0..MaxFaults
    BY BoundAssumption DEF TypeOK, Fault

LEMMA TypeStep == TypeOK /\ [Next]_vars => TypeOK'
<1> SUFFICES ASSUME TypeOK, [Next]_vars PROVE TypeOK'
    OBVIOUS
<1> USE ConfigAssumption, BoundAssumption DEF TypeOK, Label, Handling, Connected
<1>0. Nothing \in Message /\ Snapshot \in Message
    BY MessageTypes
<1>1. CASE NewConfig
  <2>1. srvConfig' \in Config
    BY <1>1 DEF NewConfig, Config
  <2>2. [config |-> srvConfig', items |-> {}] \in Message
    BY <2>1 DEF Message
  <2>3. line' \in Seq(Message)
    BY <1>1, <2>2, PushType DEF NewConfig
  <2>4. QED
    BY <1>1, <2>1, <2>3 DEF NewConfig
<1>2. ASSUME NEW i \in Item, NewItem(i) PROVE TypeOK'
  <2>1. [config |-> NoConfig, items |-> {i}] \in Message
    BY ConfigAssumption DEF Message, NoConfig
  <2>2. line' \in Seq(Message)
    BY <1>2, <2>1, PushType DEF NewItem
  <2>3. QED
    BY <1>2, <2>2 DEF NewItem
<1>3. CASE LinkBreaks
  <2>1. faults' \in 0..MaxFaults
    <3>1. Fault
      BY <1>3 DEF LinkBreaks
    <3> HIDE DEF TypeOK
    <3>2. QED
      BY <3>1, FaultType
  <2>2. line' = <<>> /\ link' = FALSE
    BY <1>3 DEF LinkBreaks
  <2>3. line' \in Seq(Message) /\ link' \in BOOLEAN
    <3>1. line' \in Seq(Message)
      BY <2>2
    <3>2. link' \in BOOLEAN
      BY <2>2
    <3>3. QED
      BY <3>1, <3>2
  <2>4. UNCHANGED <<server, pc, msg, wsStarted, wsActive, trigger, results, config, screen, asked, arrived, overtaken>>
    BY <1>3 DEF LinkBreaks
  <2>5. QED
    BY <2>1, <2>3, <2>4
<1>4. ASSUME NEW g \in Handler, ApplyConfig(g) PROVE TypeOK'
  <2>1. pc' \in Label
    BY <1>4 DEF ApplyConfig, Move, Goto, Rest, Handler
  <2>2. msg' \in [{"main", "ws", "sender"} -> Message]
    BY <1>4, <1>0 DEF ApplyConfig, Hold, Handler
  <2>3. config' \in Config /\ wsStarted' \in BOOLEAN /\ overtaken' \in BOOLEAN
    <3>1. msg[g].config \in Config \cup {NoConfig}
      BY DEF Message, Handler
    <3>2. msg[g].config # NoConfig => msg[g].config \in Config /\ WsEnabled[msg[g].config] \in BOOLEAN
      BY <3>1
    <3>3. QED
      BY <1>4, <3>2 DEF ApplyConfig
  <2>4. QED
    BY <1>4, <2>1, <2>2, <2>3 DEF ApplyConfig
<1>5. ASSUME NEW g \in Handler, Announce(g) PROVE TypeOK'
  <2>1. pc' \in Label
    BY <1>5 DEF Announce, Move, Goto, Handler
  <2>2. msg[g].items \subseteq Item
    BY DEF Message, Handler
  <2>3. boxes' \in [Announcement -> 0..MaxBoxes]
    BY <1>5 DEF Announce
  <2>4. QED
    BY <1>5, <2>1, <2>2, <2>3 DEF Announce
<1>6. ASSUME NEW g \in Handler, ProcessCommands(g) PROVE TypeOK'
  <2>1. pc' \in Label
    BY <1>6 DEF ProcessCommands, Move, Goto, Rest, Handler
  <2>2. msg[g].items \subseteq Item
    BY DEF Message, Handler
  <2>3. msg' \in [{"main", "ws", "sender"} -> Message]
    BY <1>6, <1>0 DEF ProcessCommands, Hold
  <2>4. pending' \subseteq Item /\ faults' \in 0..MaxFaults /\ arrived' \subseteq Item
    BY <1>6, <2>2, FaultType DEF ProcessCommands
  <2>5. QED
    BY <1>6, <2>1, <2>3, <2>4 DEF ProcessCommands
<1>7. ASSUME NEW a \in Announcement, BoxCloses(a) PROVE TypeOK'
  <2>1. boxes' \in [Announcement -> 0..MaxBoxes]
    BY <1>7 DEF BoxCloses
  <2>2. pending' \subseteq Item /\ tracked' \subseteq Announcement
    BY <1>7 DEF BoxCloses
  <2>3. QED
    BY <1>7, <2>1, <2>2 DEF BoxCloses
<1>8. CASE Tick
    BY <1>8 DEF Tick, Move, Goto
<1>9. CASE Triggered
    BY <1>9 DEF Triggered, Move, Goto
<1>10. CASE Answered
    BY <1>10, <1>0 DEF Answered, Move, Goto, Hold
<1>11. CASE RequestFails
    BY <1>11, FaultType DEF RequestFails, Move, Goto
<1>12. CASE HandOver
  <2>1. results' \in Seq(Message) /\ Len(results') <= Capacity
    BY <1>12 DEF HandOver
  <2>2. msg' \in [{"main", "ws", "sender"} -> Message]
    BY <1>12, <1>0 DEF HandOver, Hold
  <2>3. QED
    BY <1>12, <2>1, <2>2 DEF HandOver, Move, Goto
<1>13. CASE OpenPoll
    BY <1>13 DEF OpenPoll, Move, Goto
<1>14. CASE PollEnds
    BY <1>14 DEF PollEnds, Move, Goto, TriggerNow
<1>15. CASE Take
  <2>1. results' \in Seq(Message) /\ Len(results') <= Capacity /\ Head(results) \in Message
    BY <1>15 DEF Take
  <2>2. QED
    BY <1>15, <2>1 DEF Take, Move, Goto, Hold
<1>16. CASE Dial
  <2>1. faults' \in 0..MaxFaults
    BY <1>16, FaultType DEF Dial
  <2>2. pc' \in Label /\ link' \in BOOLEAN
    BY <1>16 DEF Dial, Move, Goto
  <2>3. QED
    BY <1>16, <2>1, <2>2 DEF Dial
<1>17. CASE Hello
    BY <1>17, <1>0 DEF Hello, Move, Goto, Hold
<1>18. CASE OnConnected
    BY <1>18 DEF OnConnected, Move, Goto
<1>19. CASE Read
  <2>1. line' \in Seq(Message) /\ Head(line) \in Message
    BY <1>19 DEF Read
  <2>2. QED
    BY <1>19, <2>1 DEF Read, Move, Goto, Hold
<1>20. CASE ReadFails
    BY <1>20 DEF ReadFails, Goto
<1>21. CASE OnDisconnected
    BY <1>21 DEF OnDisconnected, Move, Goto, TriggerNow
<1>22. CASE ReadSignal
    BY <1>22 DEF ReadSignal, TriggerNow
<1>23. CASE UNCHANGED vars
    BY <1>23 DEF vars
<1>24. QED
    BY <1>1, <1>2, <1>3, <1>4, <1>5, <1>6, <1>7, <1>8, <1>9, <1>10, <1>11, <1>12, <1>13, <1>14, <1>15, <1>16,
       <1>17, <1>18, <1>19, <1>20, <1>21, <1>22, <1>23
    DEF Next, ServerStep, Handle, SenderStep, ListenerStep, ClientStep

\* Every variable keeps its type; the channel never holds more than Capacity.
THEOREM TypeCorrect == Spec => []TypeOK
<1>1. Init => TypeOK
    BY TypeInit
<1>2. TypeOK /\ [Next]_vars => TypeOK'
    BY TypeStep
<1>3. QED
    BY <1>1, <1>2, PTL DEF Spec

----------------------------------------------------------------------------
(* The flag, the token and the tracker *)

LEMMA FlagStep == TypeOK /\ MutedWhileConnected /\ [Next]_vars => MutedWhileConnected'
<1> SUFFICES ASSUME TypeOK, MutedWhileConnected, [Next]_vars PROVE MutedWhileConnected'
    OBVIOUS
<1> USE DEF MutedWhileConnected, Goto, Move
<1>0. pc \in Label
    BY DEF TypeOK
<1> USE <1>0 DEF Label
<1>1. CASE UNCHANGED vars
    BY <1>1 DEF vars
<1>2. CASE ServerStep
  <2>1. UNCHANGED <<pc, wsActive>>
    BY <1>2 DEF ServerStep, NewConfig, NewItem, LinkBreaks
  <2>2. QED
    BY <2>1
<1>3. ASSUME NEW g \in Handler, Handle(g) PROVE MutedWhileConnected'
  <2>1. CASE ApplyConfig(g)
    BY <1>3, <2>1 DEF ApplyConfig, Rest, Handler
  <2>2. CASE Announce(g)
    BY <1>3, <2>2 DEF Announce, Handler
  <2>3. CASE ProcessCommands(g)
    BY <1>3, <2>3 DEF ProcessCommands, Rest, Handler
  <2>4. QED
    BY <1>3, <2>1, <2>2, <2>3 DEF Handle
<1>4. ASSUME NEW a \in Announcement, BoxCloses(a) PROVE MutedWhileConnected'
    BY <1>4 DEF BoxCloses
<1>5. CASE SenderStep
    BY <1>5 DEF SenderStep, Tick, Triggered, Answered, RequestFails, HandOver
<1>6. CASE ListenerStep
    BY <1>6 DEF ListenerStep, OpenPoll, PollEnds
<1>7. CASE Take
    BY <1>7 DEF Take
<1>8. CASE ClientStep
    BY <1>8 DEF ClientStep, Dial, Hello, OnConnected, Read, ReadFails, OnDisconnected
<1>9. CASE ReadSignal
    BY <1>9 DEF ReadSignal
<1>10. QED
    BY <1>1, <1>2, <1>3, <1>4, <1>5, <1>6, <1>7, <1>8, <1>9 DEF Next

LEMMA TokenStep == TriggerKept /\ [Next]_vars => TriggerKept'
    BY DEF TriggerKept, Next, vars, ServerStep, Handle, SenderStep, ListenerStep, ClientStep, NewConfig, NewItem,
       LinkBreaks, ApplyConfig, Announce, ProcessCommands, BoxCloses, Tick, Triggered, Answered, RequestFails,
       HandOver, OpenPoll, PollEnds, TriggerNow, Take, Dial, Hello, OnConnected, Read, ReadFails, OnDisconnected,
       ReadSignal

LEMMA TrackerStep == TypeOK /\ TrackedWhileShown /\ [Next]_vars => TrackedWhileShown'
<1> SUFFICES ASSUME TypeOK, TrackedWhileShown, [Next]_vars PROVE TrackedWhileShown'
    OBVIOUS
<1>1. boxes \in [Announcement -> 0..MaxBoxes] /\ tracked \subseteq Announcement /\ MaxBoxes \in Nat \ {0}
    BY BoundAssumption DEF TypeOK
<1>2. CASE UNCHANGED screen
    BY <1>2 DEF TrackedWhileShown
<1>3. ASSUME NEW g \in Handler, Announce(g) PROVE TrackedWhileShown'
  <2> DEFINE new == msg[g].items \cap Announcement
  <2>1. /\ tracked' = tracked \cup new
        /\ boxes' = [a \in Announcement |-> IF a \in new /\ boxes[a] < MaxBoxes THEN boxes[a] + 1 ELSE boxes[a]]
    BY <1>3 DEF Announce
  <2>2. ASSUME NEW a \in tracked' PROVE boxes'[a] > 0
    <3>1. a \in Announcement
      BY <1>1, <2>1, <2>2
    <3>2. CASE a \in new
      BY <1>1, <2>1, <3>1, <3>2
    <3>3. CASE a \notin new
      BY <1>1, <2>1, <2>2, <3>1, <3>3 DEF TrackedWhileShown
    <3>4. QED
      BY <3>2, <3>3
  <2>3. QED
    BY <2>2 DEF TrackedWhileShown
<1>4. ASSUME NEW a \in Announcement, BoxCloses(a) PROVE TrackedWhileShown'
    BY <1>1, <1>4 DEF BoxCloses, TrackedWhileShown
<1>5. \/ UNCHANGED screen
      \/ \E g \in Handler : Announce(g)
      \/ \E a \in Announcement : BoxCloses(a)
    BY DEF Next, vars, ServerStep, Handle, SenderStep, ListenerStep, ClientStep, NewConfig, NewItem,
       LinkBreaks, ApplyConfig, ProcessCommands, Tick, Triggered, Answered, RequestFails,
       HandOver, OpenPoll, PollEnds, Take, Dial, Hello, OnConnected, Read, ReadFails, OnDisconnected, ReadSignal
<1>6. QED
    BY <1>2, <1>3, <1>4, <1>5

\* Heartbeats are muted from OnConnected to OnDisconnected and at no other time.
THEOREM Muted == Spec => []MutedWhileConnected
<1>1. Init => MutedWhileConnected
    BY DEF Init, MutedWhileConnected
<1>2. QED
    BY <1>1, TypeCorrect, FlagStep, PTL DEF Spec

\* No call of TriggerNow is lost.
THEOREM TokenKept == Spec => []TriggerKept
<1>1. Init => TriggerKept
    BY DEF Init, TriggerKept
<1>2. QED
    BY <1>1, TokenStep, PTL DEF Spec

\* The tracker holds no announcement whose boxes are all closed.
THEOREM TrackerExact == Spec => []TrackedWhileShown
<1>1. Init => TrackedWhileShown
    BY DEF Init, TrackedWhileShown
<1>2. QED
    BY <1>1, TypeCorrect, TrackerStep, PTL DEF Spec

----------------------------------------------------------------------------
(* The order of the answers *)

LEMMA VersionsNat == TypeOK => /\ srvConfig \in Nat
                               /\ \A g \in {"main", "ws", "sender"} : msg[g].config \in Nat
                               /\ \A i \in 1..Len(results) : results[i].config \in Nat
<1> SUFFICES ASSUME TypeOK PROVE /\ srvConfig \in Nat
                                 /\ \A g \in {"main", "ws", "sender"} : msg[g].config \in Nat
                                 /\ \A i \in 1..Len(results) : results[i].config \in Nat
    OBVIOUS
<1>1. \A m \in Message : m.config \in Nat
    BY ConfigAssumption DEF Message, Config, NoConfig
<1>2. \A i \in 1..Len(results) : results[i] \in Message
    BY DEF TypeOK
<1>3. QED
    BY <1>1, <1>2, ConfigAssumption DEF TypeOK, Config

\* What AnswersInOrder reads.
Answers == <<srvConfig, results, pc["main"], pc["sender"], msg["main"], msg["sender"]>>

LEMMA OrderStep == TypeOK /\ AnswersInOrder /\ [Next]_vars => AnswersInOrder'
<1> SUFFICES ASSUME TypeOK, AnswersInOrder, [Next]_vars PROVE AnswersInOrder'
    OBVIOUS
<1>1. /\ srvConfig \in Nat /\ results \in Seq(Message) /\ pc \in Label
      /\ msg \in [{"main", "ws", "sender"} -> Message]
      /\ \A g \in {"main", "ws", "sender"} : msg[g].config \in Nat
      /\ \A i \in 1..Len(results) : results[i].config \in Nat
    BY VersionsNat DEF TypeOK
<1>2. CASE UNCHANGED Answers
    BY <1>2 DEF Answers, AnswersInOrder
<1>3. CASE NewConfig
  <2>1. srvConfig' = srvConfig + 1 /\ UNCHANGED <<results, pc, msg>>
    BY <1>3 DEF NewConfig
  <2>2. QED
    BY <1>1, <2>1 DEF AnswersInOrder
<1>4. ASSUME pc'["main"] # "config", UNCHANGED <<srvConfig, results, pc["sender"], msg["sender"]>>
      PROVE  AnswersInOrder'
    BY <1>4 DEF AnswersInOrder
<1>5. ASSUME NEW g \in Handler, Handle(g) PROVE AnswersInOrder'
  <2>1. UNCHANGED <<srvConfig, results, pc["sender"], msg["sender"]>>
    BY <1>1, <1>5 DEF Handle, ApplyConfig, Announce, ProcessCommands, Move, Goto, Hold, Handler, Label
  <2>2. CASE g = "main"
    <3>1. pc'["main"] \in {"announce", "commands", "select"}
      BY <1>1, <1>5, <2>2 DEF Handle, ApplyConfig, Announce, ProcessCommands, Move, Goto, Rest, Label
    <3>2. QED
      BY <1>4, <2>1, <3>1
  <2>3. CASE g = "ws"
    <3>1. UNCHANGED <<pc["main"], msg["main"]>>
      BY <1>1, <1>5, <2>3 DEF Handle, ApplyConfig, Announce, ProcessCommands, Move, Goto, Hold, Label
    <3>2. QED
      BY <1>2, <2>1, <3>1 DEF Answers
  <2>4. QED
    BY <2>2, <2>3 DEF Handler
<1>6. CASE Tick \/ Triggered \/ RequestFails
  <2>1. pc'["sender"] # "handover" /\ UNCHANGED <<srvConfig, results, pc["main"], msg>>
    BY <1>1, <1>6 DEF Tick, Triggered, RequestFails, Move, Goto, Label
  <2>2. QED
    BY <2>1 DEF AnswersInOrder
<1>7. CASE Answered
  <2>1. /\ UNCHANGED <<srvConfig, results, pc["main"], msg["main"]>>
        /\ msg'["sender"].config = srvConfig
    BY <1>1, <1>7 DEF Answered, Move, Goto, Hold, Label, Snapshot
  <2>2. QED
    BY <1>1, <2>1 DEF AnswersInOrder
<1>8. CASE HandOver
  <2>1. /\ UNCHANGED <<srvConfig, pc["main"], msg["main"]>>
        /\ pc["sender"] = "handover" /\ pc'["sender"] # "handover"
    BY <1>1, <1>8 DEF HandOver, Move, Goto, Hold, Label
  <2>2. CASE results' = results
    BY <2>1, <2>2 DEF AnswersInOrder
  <2>3. CASE results' = Append(results, msg["sender"])
    <3>1. /\ Len(results') = Len(results) + 1
          /\ results'[Len(results) + 1] = msg["sender"]
          /\ \A i \in 1..Len(results) : results'[i] = results[i]
      BY <1>1, <2>3
    <3>2. \A i \in 1..Len(results') : i \in 1..Len(results) \/ i = Len(results) + 1
      BY <1>1, <3>1
    <3>3. \A i \in 1..Len(results') : results'[i].config <= msg["sender"].config
      BY <1>1, <2>1, <3>1, <3>2 DEF AnswersInOrder
    <3>4. \A i, j \in 1..Len(results') : i < j => results'[i].config <= results'[j].config
      <4> SUFFICES ASSUME NEW i \in 1..Len(results'), NEW j \in 1..Len(results'), i < j
                   PROVE  results'[i].config <= results'[j].config
          OBVIOUS
      <4>1. CASE j = Len(results) + 1
        BY <3>1, <3>3, <4>1
      <4>2. CASE j # Len(results) + 1
        <5>1. i \in 1..Len(results) /\ j \in 1..Len(results)
          BY <1>1, <3>1, <3>2, <4>2
        <5>2. QED
          BY <3>1, <5>1 DEF AnswersInOrder
      <4>3. QED
        BY <4>1, <4>2
    <3>5. \A i \in 1..Len(results') : /\ results'[i].config <= srvConfig
                                      /\ pc["main"] = "config" => msg["main"].config <= results'[i].config
      BY <1>1, <2>1, <3>1, <3>2 DEF AnswersInOrder
    <3>6. pc["main"] = "config" => msg["main"].config <= srvConfig
      BY DEF AnswersInOrder
    <3> HIDE DEF AnswersInOrder
    <3>7. QED
      BY <2>1, <3>4, <3>5, <3>6 DEF AnswersInOrder
  <2>4. QED
    BY <1>8, <2>2, <2>3 DEF HandOver
<1>9. CASE Take
  <2>1. /\ UNCHANGED <<srvConfig, pc["sender"], msg["sender"]>>
        /\ results # <<>> /\ results' = Tail(results)
        /\ msg'["main"] = Head(results)
    BY <1>1, <1>9 DEF Take, Move, Goto, Hold, Label
  <2>2. /\ Len(results) \in Nat \ {0} /\ Len(results') = Len(results) - 1
        /\ \A i \in 1..Len(results') : results'[i] = results[i + 1]
        /\ msg'["main"] = results[1]
    BY <1>1, <2>1
  <2>3. \A i \in 1..Len(results') : i + 1 \in 1..Len(results) /\ 1 < i + 1
    BY <2>2
  <2>4. 1 \in 1..Len(results)
    BY <2>2
  <2>5. \A i, j \in 1..Len(results') : i < j => results'[i].config <= results'[j].config
    <3> SUFFICES ASSUME NEW i \in 1..Len(results'), NEW j \in 1..Len(results'), i < j
                 PROVE  results'[i].config <= results'[j].config
        OBVIOUS
    <3>1. i + 1 \in 1..Len(results) /\ j + 1 \in 1..Len(results) /\ i + 1 < j + 1
      BY <2>2, <2>3
    <3>2. QED
      BY <2>2, <3>1 DEF AnswersInOrder
  <2>6. \A i \in 1..Len(results') : msg'["main"].config <= results'[i].config
    <3> SUFFICES ASSUME NEW i \in 1..Len(results') PROVE msg'["main"].config <= results'[i].config
        OBVIOUS
    <3>1. results[1].config <= results[i + 1].config
      BY <2>3, <2>4 DEF AnswersInOrder
    <3>2. QED
      BY <2>2, <3>1
  <2>7. pc["sender"] = "handover" =>
          /\ \A i \in 1..Len(results') : results'[i].config <= msg["sender"].config
          /\ msg'["main"].config <= msg["sender"].config
          /\ msg["sender"].config <= srvConfig
    BY <2>2, <2>3, <2>4 DEF AnswersInOrder
  <2>8. msg'["main"].config <= srvConfig /\ \A i \in 1..Len(results') : results'[i].config <= srvConfig
    BY <2>2, <2>3, <2>4 DEF AnswersInOrder
  <2> HIDE DEF AnswersInOrder
  <2>9. QED
    BY <2>1, <2>5, <2>6, <2>7, <2>8 DEF AnswersInOrder
<1>10. CASE \/ \E i \in Item : NewItem(i)
            \/ LinkBreaks
            \/ \E a \in Announcement : BoxCloses(a)
            \/ ListenerStep
            \/ ClientStep
            \/ ReadSignal
            \/ UNCHANGED vars
  <2>1. UNCHANGED Answers
    BY <1>1, <1>10 DEF Answers, NewItem, LinkBreaks, BoxCloses, ListenerStep, OpenPoll, PollEnds, ClientStep, Dial,
       Hello, OnConnected, Read, ReadFails, OnDisconnected, ReadSignal, vars, Move, Goto, Hold, Label
  <2>2. QED
    BY <1>2, <2>1
<1>11. QED
    BY <1>3, <1>5, <1>6, <1>7, <1>8, <1>9, <1>10 DEF Next, ServerStep, SenderStep

\* The answers of heartbeats reach the main loop in the order in which the server
\* gave them.
THEOREM Ordered == Spec => []AnswersInOrder
<1>1. Init => AnswersInOrder
    BY DEF Init, AnswersInOrder
<1>2. QED
    BY <1>1, TypeCorrect, OrderStep, PTL DEF Spec

----------------------------------------------------------------------------
(* What is on its way *)

\* The messages that are in a hand, on the connection or in the channel.
InFlight == {msg[g] : g \in {"main", "ws", "sender"}}
            \cup {line[i] : i \in 1..Len(line)}
            \cup {results[i] : i \in 1..Len(results)}

\* A message tells of nothing that the server did not ask or publish.
Founded(m) ==
  /\ m.items \subseteq pending \cup arrived
  /\ m.config # NoConfig => m.config <= srvConfig

AllFounded == \A m \in InFlight : Founded(m)

\* What a box shows has arrived, and only a client that was started connects.
BoxArrived == \A a \in Announcement : boxes[a] > 0 => a \in arrived
ClientStarted == pc["ws"] # "down" => wsStarted

\* The agent answers only what has arrived and the server takes nothing back.
NothingTakenBack ==
  /\ pending \cup arrived \subseteq pending' \cup arrived'
  /\ arrived \subseteq arrived'
  /\ srvConfig' \in {srvConfig, srvConfig + 1}

\* In a Handler's hand, what is to be shown or run is founded.
LEMMA InHandFounded ==
  ASSUME TypeOK, AllFounded, NEW g \in Handler
  PROVE  Founded(msg[g]) /\ msg[g] \in Message
    BY DEF AllFounded, InFlight, Handler, TypeOK

LEMMA TakenBackStep == TypeOK /\ AllFounded /\ BoxArrived /\ [Next]_vars => NothingTakenBack
<1> SUFFICES ASSUME TypeOK, AllFounded, BoxArrived, [Next]_vars PROVE NothingTakenBack
    OBVIOUS
<1>0. srvConfig \in Nat
    BY ConfigAssumption DEF TypeOK, Config
<1>1. CASE UNCHANGED <<server, arrived>>
    BY <1>0, <1>1 DEF NothingTakenBack
<1>2. CASE NewConfig
    BY <1>0, <1>2 DEF NewConfig, NothingTakenBack
<1>3. ASSUME NEW i \in Item, NewItem(i) PROVE NothingTakenBack
    BY <1>0, <1>3 DEF NewItem, NothingTakenBack
<1>4. ASSUME NEW g \in Handler, Announce(g) PROVE NothingTakenBack
    BY <1>0, <1>4 DEF Announce, NothingTakenBack
<1>5. ASSUME NEW g \in Handler, ProcessCommands(g) PROVE NothingTakenBack
    BY <1>0, <1>5 DEF ProcessCommands, NothingTakenBack
<1>6. ASSUME NEW a \in Announcement, BoxCloses(a) PROVE NothingTakenBack
    BY <1>0, <1>6 DEF BoxCloses, NothingTakenBack, BoxArrived
<1>7. ASSUME NEW g \in Handler, ApplyConfig(g) PROVE UNCHANGED <<server, arrived>>
    BY <1>7 DEF ApplyConfig
<1>8. LinkBreaks \/ SenderStep \/ ListenerStep \/ Take \/ ClientStep \/ ReadSignal \/ UNCHANGED vars
        => UNCHANGED <<server, arrived>>
    BY DEF LinkBreaks, SenderStep, Tick, Triggered, Answered, RequestFails, HandOver, ListenerStep, OpenPoll,
       PollEnds, Take, ClientStep, Dial, Hello, OnConnected, Read, ReadFails, OnDisconnected, ReadSignal, vars
<1>9. QED
    BY <1>1, <1>2, <1>3, <1>4, <1>5, <1>6, <1>7, <1>8 DEF Next, ServerStep, Handle

\* Founded messages stay founded, and the new ones of a step are.
LEMMA FlightStep ==
  ASSUME TypeOK, AllFounded, NothingTakenBack,
         \A m \in InFlight' : m \in InFlight \/ Founded(m)'
  PROVE  AllFounded'
<1> SUFFICES ASSUME NEW m \in InFlight, m \in InFlight' PROVE Founded(m)'
    BY DEF AllFounded
<1>1. Founded(m) /\ m \in Message
    BY DEF AllFounded, InFlight, TypeOK
<1>2. srvConfig \in Nat /\ (m.config # NoConfig => m.config \in Nat)
    BY <1>1, ConfigAssumption DEF TypeOK, Message, Config
<1>3. srvConfig' \in Nat /\ srvConfig <= srvConfig'
    BY <1>2 DEF NothingTakenBack
<1>4. QED
    BY <1>1, <1>2, <1>3 DEF Founded, NothingTakenBack

\* A step that only takes messages out, or moves them on.
LEMMA MovedOn ==
  ASSUME TypeOK, AllFounded, NothingTakenBack, InFlight' \subseteq InFlight \cup {Nothing}
  PROVE  AllFounded'
<1>1. Founded(Nothing)'
    BY DEF Founded, Nothing
<1>2. QED
    BY <1>1, FlightStep

LEMMA FoundedStep == TypeOK /\ AllFounded /\ BoxArrived /\ [Next]_vars => AllFounded'
<1> SUFFICES ASSUME TypeOK, AllFounded, BoxArrived, [Next]_vars PROVE AllFounded'
    OBVIOUS
<1>0. NothingTakenBack
    BY TakenBackStep
<1>T. /\ msg \in [{"main", "ws", "sender"} -> Message] /\ line \in Seq(Message) /\ results \in Seq(Message)
      /\ srvConfig \in Nat
    BY ConfigAssumption DEF TypeOK, Config
<1>1. CASE UNCHANGED <<msg, line, results>>
  <2>1. InFlight' = InFlight
    BY <1>1 DEF InFlight
  <2>2. QED
    BY <1>0, <2>1, MovedOn
<1>2. ASSUME NEW m, Push(m), UNCHANGED <<msg, results>>, Founded(m)' PROVE AllFounded'
  <2>1. InFlight' \subseteq InFlight \cup {m}
    BY <1>T, <1>2 DEF Push, InFlight
  <2>2. QED
    BY <1>0, <1>2, <2>1, FlightStep
<1>3. CASE NewConfig
  <2> PICK m : m = [config |-> srvConfig', items |-> {}]
    OBVIOUS
  <2>1. Founded(m)'
    BY <1>T, <1>3 DEF Founded, NewConfig
  <2>2. QED
    BY <1>2, <1>3, <2>1 DEF NewConfig
<1>4. ASSUME NEW i \in Item, NewItem(i) PROVE AllFounded'
  <2> PICK m : m = [config |-> NoConfig, items |-> {i}]
    OBVIOUS
  <2>1. Founded(m)'
    BY <1>4 DEF Founded, NewItem, NoConfig
  <2>2. QED
    BY <1>2, <1>4, <2>1 DEF NewItem
<1>5. CASE LinkBreaks
  <2>1. InFlight' \subseteq InFlight
    BY <1>5 DEF LinkBreaks, InFlight
  <2>2. QED
    BY <1>0, <2>1, MovedOn
<1>6. ASSUME NEW g \in {"main", "ws", "sender"}, UNCHANGED msg \/ Hold(g, Nothing), UNCHANGED <<line, results>>
      PROVE  AllFounded'
  <2>1. InFlight' \subseteq InFlight \cup {Nothing}
    BY <1>T, <1>6 DEF Hold, InFlight
  <2>2. QED
    BY <1>0, <2>1, MovedOn
<1>7. ASSUME NEW g \in Handler, Handle(g) PROVE AllFounded'
  <2>1. (UNCHANGED msg \/ Hold(g, Nothing)) /\ UNCHANGED <<line, results>>
    BY <1>7 DEF Handle, ApplyConfig, Announce, ProcessCommands
  <2>2. QED
    BY <1>6, <2>1 DEF Handler
<1>8. ASSUME NEW g \in {"main", "ws", "sender"}, Hold(g, Snapshot), UNCHANGED <<server, line, results, arrived>>
      PROVE  AllFounded'
  <2> PICK m : m = Snapshot
    OBVIOUS
  <2>1. InFlight' \subseteq InFlight \cup {m}
    BY <1>T, <1>8 DEF Hold, InFlight
  <2>2. Founded(m)'
    BY <1>T, <1>8 DEF Founded, Snapshot
  <2>3. QED
    BY <1>0, <2>1, <2>2, FlightStep
<1>9. CASE Answered \/ Hello
    BY <1>8, <1>9 DEF Answered, Hello
<1>10. CASE HandOver
  <2>1. InFlight' \subseteq InFlight \cup {Nothing}
    BY <1>T, <1>10 DEF HandOver, Hold, InFlight
  <2>2. QED
    BY <1>0, <2>1, MovedOn
<1>11. CASE Take
  <2>1. InFlight' \subseteq InFlight
    BY <1>T, <1>11 DEF Take, Hold, InFlight
  <2>2. QED
    BY <1>0, <2>1, MovedOn
<1>12. CASE Read
  <2>1. InFlight' \subseteq InFlight
    BY <1>T, <1>12 DEF Read, Hold, InFlight
  <2>2. QED
    BY <1>0, <2>1, MovedOn
<1>13. ASSUME NEW a \in Announcement, BoxCloses(a) PROVE AllFounded'
    BY <1>1, <1>13 DEF BoxCloses
<1>14. CASE \/ Tick \/ Triggered \/ RequestFails \/ ListenerStep \/ ReadSignal
            \/ Dial \/ OnConnected \/ ReadFails \/ OnDisconnected \/ UNCHANGED vars
    BY <1>1, <1>14 DEF Tick, Triggered, RequestFails, ListenerStep, OpenPoll, PollEnds, ReadSignal,
       Dial, OnConnected, ReadFails, OnDisconnected, vars
<1>15. QED
    BY <1>3, <1>4, <1>5, <1>7, <1>9, <1>10, <1>11, <1>12, <1>13, <1>14
       DEF Next, ServerStep, SenderStep, ClientStep

LEMMA BoxArrivedStep == TypeOK /\ AllFounded /\ BoxArrived /\ [Next]_vars => BoxArrived'
<1> SUFFICES ASSUME TypeOK, AllFounded, BoxArrived, [Next]_vars PROVE BoxArrived'
    OBVIOUS
<1>0. boxes \in [Announcement -> 0..MaxBoxes] /\ MaxBoxes \in Nat
    BY BoundAssumption DEF TypeOK
<1>1. CASE boxes' = boxes /\ arrived \subseteq arrived'
    BY <1>1 DEF BoxArrived
<1>2. ASSUME NEW g \in Handler, Announce(g) PROVE BoxArrived'
    BY <1>0, <1>2 DEF Announce, BoxArrived
<1>3. ASSUME NEW a \in Announcement, BoxCloses(a) PROVE BoxArrived'
    BY <1>0, <1>3 DEF BoxCloses, BoxArrived
<1>4. \/ boxes' = boxes
      \/ \E g \in Handler : Announce(g)
      \/ \E a \in Announcement : BoxCloses(a)
    BY DEF Next, vars, ServerStep, Handle, SenderStep, ListenerStep, ClientStep, NewConfig, NewItem,
       LinkBreaks, ApplyConfig, ProcessCommands, Tick, Triggered, Answered, RequestFails,
       HandOver, OpenPoll, PollEnds, Take, Dial, Hello, OnConnected, Read, ReadFails, OnDisconnected, ReadSignal
<1>5. QED
    BY <1>1, <1>2, <1>3, <1>4, TakenBackStep DEF NothingTakenBack

\* What reads the connection and the flag of the client.
LEMMA StartedStep == TypeOK /\ ClientStarted /\ [Next]_vars => ClientStarted'
<1> SUFFICES ASSUME TypeOK, ClientStarted, [Next]_vars PROVE ClientStarted'
    OBVIOUS
<1>0. pc \in Label
    BY DEF TypeOK
<1>1. CASE UNCHANGED <<pc, wsStarted>>
    BY <1>1 DEF ClientStarted
<1>2. ASSUME NEW g \in Handler, Handle(g) PROVE ClientStarted'
  <2>1. wsStarted => wsStarted'
    BY <1>2 DEF Handle, ApplyConfig, Announce, ProcessCommands
  <2>2. pc["ws"] = "down" => pc'["ws"] = "down"
    BY <1>0, <1>2 DEF Handle, ApplyConfig, Announce, ProcessCommands, Move, Goto, Handler, Label
  <2>3. QED
    BY <2>1, <2>2 DEF ClientStarted
<1>3. CASE SenderStep \/ ListenerStep \/ Take
    BY <1>0, <1>3 DEF SenderStep, Tick, Triggered, Answered, RequestFails, HandOver, ListenerStep, OpenPoll,
       PollEnds, Take, Move, Goto, Label, ClientStarted
<1>4. CASE ClientStep
    BY <1>0, <1>4 DEF ClientStep, Dial, Hello, OnConnected, Read, ReadFails, OnDisconnected, Move, Goto, Label,
       ClientStarted
<1>5. CASE ServerStep \/ ReadSignal \/ UNCHANGED vars
    BY <1>1, <1>5 DEF ServerStep, NewConfig, NewItem, LinkBreaks, ReadSignal, vars
<1>6. ASSUME NEW a \in Announcement, BoxCloses(a) PROVE ClientStarted'
    BY <1>1, <1>6 DEF BoxCloses
<1>7. QED
    BY <1>2, <1>3, <1>4, <1>5, <1>6 DEF Next

\* Without the WebSocket nothing on its way is older than what is in use.
NotBehind == ~ wsStarted =>
  /\ config <= srvConfig
  /\ \A i \in 1..Len(results) : config <= results[i].config
  /\ pc["main"] = "config" => config <= msg["main"].config
  /\ pc["sender"] = "handover" => config <= msg["sender"].config

LEMMA NotBehindStep ==
  TypeOK /\ AnswersInOrder /\ ClientStarted /\ NotBehind /\ [Next]_vars => NotBehind'
<1> SUFFICES ASSUME TypeOK, AnswersInOrder, ClientStarted, NotBehind, [Next]_vars, ~ wsStarted'
             PROVE  NotBehind'
    BY DEF NotBehind
<1>1. /\ srvConfig \in Nat /\ config \in Nat /\ results \in Seq(Message) /\ pc \in Label
      /\ msg \in [{"main", "ws", "sender"} -> Message]
      /\ \A g \in {"main", "ws", "sender"} : msg[g].config \in Nat
      /\ \A i \in 1..Len(results) : results[i].config \in Nat
    BY VersionsNat, ConfigAssumption DEF TypeOK, Config
<1>2. ~ wsStarted => pc["ws"] = "down"
    BY DEF ClientStarted
<1>3. CASE UNCHANGED <<config, wsStarted, Answers>>
    BY <1>3 DEF Answers, NotBehind
<1>4. CASE NewConfig
    BY <1>1, <1>4 DEF NewConfig, NotBehind
<1>5. CASE ApplyConfig("main")
  <2>1. /\ pc["main"] = "config" /\ pc'["main"] # "config" /\ ~ wsStarted
        /\ UNCHANGED <<srvConfig, results, pc["sender"], msg["sender"]>>
        /\ config' \in {config, msg["main"].config}
    BY <1>1, <1>5 DEF ApplyConfig, Move, Goto, Hold, Rest, Label
  <2>2. CASE config' = config
    BY <2>1, <2>2 DEF NotBehind
  <2>3. CASE config' = msg["main"].config
    BY <2>1, <2>3 DEF AnswersInOrder, NotBehind
  <2>4. QED
    BY <2>1, <2>2, <2>3
<1>6. CASE Announce("main") \/ ProcessCommands("main")
  <2>1. /\ pc'["main"] # "config"
        /\ UNCHANGED <<config, wsStarted, srvConfig, results, pc["sender"], msg["sender"]>>
    BY <1>1, <1>6 DEF Announce, ProcessCommands, Move, Goto, Hold, Rest, Label
  <2>2. QED
    BY <2>1 DEF NotBehind
<1>7. ASSUME Handle("ws") PROVE FALSE
  <2>1. pc["ws"] \in Handling
    BY <1>7 DEF Handle, ApplyConfig, Announce, ProcessCommands, Move, Handling
  <2>2. wsStarted
    BY <1>2, <2>1 DEF Handling
  <2>3. wsStarted'
    BY <1>7, <2>2 DEF Handle, ApplyConfig, Announce, ProcessCommands
  <2>4. QED
    BY <2>3
<1>8. CASE Tick \/ Triggered \/ RequestFails
  <2>1. pc'["sender"] # "handover" /\ UNCHANGED <<config, wsStarted, srvConfig, results, pc["main"], msg>>
    BY <1>1, <1>8 DEF Tick, Triggered, RequestFails, Move, Goto, Label
  <2>2. QED
    BY <2>1 DEF NotBehind
<1>9. CASE Answered
  <2>1. /\ UNCHANGED <<config, wsStarted, srvConfig, results, pc["main"], msg["main"]>>
        /\ msg'["sender"].config = srvConfig
    BY <1>1, <1>9 DEF Answered, Move, Goto, Hold, Label, Snapshot
  <2>2. QED
    BY <2>1 DEF NotBehind
<1>10. CASE HandOver
  <2>1. /\ UNCHANGED <<config, wsStarted, srvConfig, pc["main"], msg["main"]>>
        /\ pc["sender"] = "handover" /\ pc'["sender"] # "handover"
        /\ results' \in {results, Append(results, msg["sender"])}
    BY <1>1, <1>10 DEF HandOver, Move, Goto, Hold, Label
  <2>2. \A i \in 1..Len(results') : results'[i] = msg["sender"] \/ (i \in 1..Len(results) /\ results'[i] = results[i])
    BY <1>1, <2>1
  <2>3. QED
    BY <2>1, <2>2 DEF NotBehind
<1>11. CASE Take
  <2>1. /\ UNCHANGED <<config, wsStarted, srvConfig, pc["sender"], msg["sender"]>>
        /\ results # <<>> /\ results' = Tail(results)
        /\ msg'["main"] = Head(results)
    BY <1>1, <1>11 DEF Take, Move, Goto, Hold, Label
  <2>2. /\ Len(results) \in Nat \ {0} /\ 1 \in 1..Len(results)
        /\ \A i \in 1..Len(results') : i + 1 \in 1..Len(results) /\ results'[i] = results[i + 1]
        /\ msg'["main"] = results[1]
    BY <1>1, <2>1
  <2>3. QED
    BY <2>1, <2>2 DEF NotBehind
<1>12. CASE \/ \E i \in Item : NewItem(i)
            \/ LinkBreaks
            \/ \E a \in Announcement : BoxCloses(a)
            \/ ListenerStep
            \/ ClientStep
            \/ ReadSignal
            \/ UNCHANGED vars
  <2>1. UNCHANGED <<config, wsStarted, Answers>>
    BY <1>1, <1>12 DEF Answers, NewItem, LinkBreaks, BoxCloses, ListenerStep, OpenPoll, PollEnds, ClientStep, Dial,
       Hello, OnConnected, Read, ReadFails, OnDisconnected, ReadSignal, vars, Move, Goto, Hold, Label
  <2>2. QED
    BY <1>3, <2>1
<1>13. QED
    BY <1>4, <1>5, <1>6, <1>7, <1>8, <1>9, <1>10, <1>11, <1>12 DEF Next, ServerStep, SenderStep, Handler, Handle

----------------------------------------------------------------------------
(* The mailbox *)

\* What the refinement needs: types, the order of the answers, what is on its
\* way, and how far it may be behind.
MailInv == /\ TypeOK /\ AnswersInOrder
           /\ AllFounded /\ BoxArrived
           /\ ClientStarted /\ NotBehind

LEMMA MailInvariant == Spec => []MailInv
<1>1. Init => AnswersInOrder /\ AllFounded /\ BoxArrived /\ ClientStarted /\ NotBehind
  <2> SUFFICES ASSUME Init PROVE AnswersInOrder /\ AllFounded /\ BoxArrived /\ ClientStarted /\ NotBehind
      OBVIOUS
  <2>1. AnswersInOrder /\ BoxArrived /\ ClientStarted /\ NotBehind
      BY DEF Init, AnswersInOrder, BoxArrived, ClientStarted, NotBehind
  <2>2. InFlight \subseteq {Nothing}
      BY DEF Init, InFlight
  <2>3. Founded(Nothing)
      BY DEF Founded, Nothing
  <2>4. QED
      BY <2>1, <2>2, <2>3 DEF AllFounded
<1>2. MailInv /\ [Next]_vars => MailInv'
    BY TypeStep, OrderStep, FoundedStep, BoxArrivedStep, StartedStep, NotBehindStep DEF MailInv
<1>3. QED
    BY <1>1, <1>2, TypeInit, PTL DEF Spec, MailInv

\* What the mailbox shows.
Shown == <<srvConfig, pending, arrived, config, wsStarted>>

LEMMA MailStep == MailInv /\ [Next]_vars => [Mail!MailNext]_(Mail!mailVars)
<1> SUFFICES ASSUME MailInv, [Next]_vars PROVE Mail!MailNext \/ UNCHANGED Shown
    BY DEF Shown, Mail!mailVars
<1>0. /\ TypeOK /\ AllFounded /\ BoxArrived /\ ClientStarted /\ NotBehind
      /\ srvConfig \in 0..MaxConfig /\ config \in Nat /\ MaxConfig \in Nat
    BY ConfigAssumption DEF MailInv, TypeOK, Config
<1>1. CASE NewConfig
  <2>1. Mail!Publish
    BY <1>1 DEF NewConfig, Mail!Publish
  <2>2. QED
    BY <2>1 DEF Mail!MailNext
<1>2. ASSUME NEW i \in Item, NewItem(i) PROVE Mail!MailNext
  <2>1. Mail!Ask(i)
    BY <1>2 DEF NewItem, Mail!Ask
  <2>2. QED
    BY <2>1 DEF Mail!MailNext
<1>3. ASSUME NEW g \in Handler, ApplyConfig(g) PROVE Mail!MailNext \/ UNCHANGED Shown
  <2>1. pc[g] = "config" /\ UNCHANGED <<server, arrived>>
    BY <1>3 DEF ApplyConfig, Move
  <2>2. CASE UNCHANGED <<config, wsStarted>>
    BY <2>1, <2>2 DEF Shown
  <2>3. CASE msg[g].config # NoConfig
    <3> DEFINE v == msg[g].config
    <3>1. v \in Nat /\ v <= srvConfig /\ config' = v /\ wsStarted' = (wsStarted \/ WsEnabled[v])
      BY <1>0, <1>3, <2>3, InHandFounded, ConfigAssumption DEF ApplyConfig, Founded, Message, Config
    <3>2. ~ wsStarted => v >= config
      <4>1. CASE g = "ws"
        BY <1>0, <2>1, <4>1 DEF ClientStarted
      <4>2. CASE g = "main"
        BY <1>0, <2>1, <3>1, <4>2 DEF NotBehind
      <4>3. QED
        BY <4>1, <4>2 DEF Handler
    <3>3. v \in 0..srvConfig /\ v \in 0..MaxConfig
      BY <1>0, <3>1
    <3>4. wsStarted' \in {wsStarted, TRUE}
      <4>1. wsStarted \in BOOLEAN /\ WsEnabled[v] \in BOOLEAN
        BY <1>0, <3>3, ConfigAssumption DEF TypeOK, Config
      <4>2. QED
        BY <3>1, <4>1, Zenon
    <3>5. Mail!Use(v)
      BY <2>1, <3>1, <3>2, <3>3, <3>4 DEF Mail!Use
    <3>6. QED
      BY <3>3, <3>5 DEF Mail!MailNext
  <2>4. QED
    BY <1>3, <2>2, <2>3 DEF ApplyConfig
<1>4. ASSUME NEW g \in Handler, NEW S, S \subseteq msg[g].items, arrived' = arrived \cup S,
             pending' \in {pending, pending \ S}, UNCHANGED <<srvConfig, config, wsStarted>>
      PROVE  Mail!MailNext
  <2>1. S \subseteq pending \cup arrived /\ S \in SUBSET Item
    BY <1>0, <1>4, InHandFounded DEF Founded, Message
  <2>2. Mail!Receive(S)
    BY <1>4, <2>1 DEF Mail!Receive
  <2>3. QED
    BY <2>1, <2>2 DEF Mail!MailNext
<1>5. ASSUME NEW g \in Handler, Announce(g) PROVE Mail!MailNext
    BY <1>4, <1>5 DEF Announce
<1>6. ASSUME NEW g \in Handler, ProcessCommands(g) PROVE Mail!MailNext
    BY <1>4, <1>6 DEF ProcessCommands
<1>7. ASSUME NEW a \in Announcement, BoxCloses(a) PROVE Mail!MailNext \/ UNCHANGED Shown
  <2>1. a \in arrived /\ a \in Item
    BY <1>0, <1>7 DEF BoxCloses, BoxArrived, Item
  <2>2. pending' \in {pending, pending \ {a}} /\ UNCHANGED <<srvConfig, config, wsStarted, arrived>>
    BY <1>7 DEF BoxCloses
  <2>3. Mail!Acknowledge(a) \/ UNCHANGED Shown
    BY <2>1, <2>2 DEF Mail!Acknowledge, Shown
  <2>4. QED
    BY <2>1, <2>3 DEF Mail!MailNext
<1>8. CASE LinkBreaks \/ SenderStep \/ ListenerStep \/ Take \/ ClientStep \/ ReadSignal \/ UNCHANGED vars
    BY <1>8 DEF Shown, LinkBreaks, SenderStep, Tick, Triggered, Answered, RequestFails, HandOver, ListenerStep,
       OpenPoll, PollEnds, Take, ClientStep, Dial, Hello, OnConnected, Read, ReadFails, OnDisconnected, ReadSignal,
       vars
<1>9. QED
    BY <1>1, <1>2, <1>3, <1>5, <1>6, <1>7, <1>8 DEF Next, ServerStep, Handle

\* However requests and connections fail, answers are dropped and messages come
\* twice or late: only what the server asked arrives, only what has arrived is
\* answered, so that nothing is lost, and without the WebSocket the
\* configuration in use only rises.
THEOREM Refinement == Spec => ImplementsMailbox
<1>1. Init => Mail!MailInit
    BY DEF Init, Mail!MailInit
<1>2. QED
    BY <1>1, MailInvariant, MailStep, PTL DEF Spec, ImplementsMailbox, Mail!MailSpec

----------------------------------------------------------------------------
(* The order of the pushes *)

\* A connection starts with nothing to read, and what is on one that broke is
\* gone.
LineFresh ==
  /\ ~ link => line = <<>>
  /\ pc["ws"] \in {"down", "lost"} => ~ link
  /\ pc["ws"] = "handshake" => line = <<>>

\* What the client has in hand and what it is still to read tell of rising
\* versions: server.hello comes before every push, and pushes are not reordered.
PushesInOrder ==
  /\ \A i, j \in 1..Len(line) :
       i < j /\ line[i].config # NoConfig => line[i].config <= line[j].config
  /\ pc["ws"] = "config" /\ msg["ws"].config # NoConfig =>
       \A j \in 1..Len(line) : msg["ws"].config <= line[j].config

LEMMA LineFreshStep == TypeOK /\ LineFresh /\ [Next]_vars => LineFresh'
<1> SUFFICES ASSUME TypeOK, LineFresh, [Next]_vars PROVE LineFresh'
    OBVIOUS
<1>0. pc \in Label /\ link \in BOOLEAN
    BY DEF TypeOK
<1>1. CASE UNCHANGED <<pc["ws"], link, line>>
    BY <1>1 DEF LineFresh
<1>2. ASSUME NEW m, Push(m), UNCHANGED <<pc, link>> PROVE LineFresh'
    BY <1>2 DEF Push, LineFresh
<1>3. CASE NewConfig
    BY <1>2, <1>3 DEF NewConfig
<1>4. ASSUME NEW i \in Item, NewItem(i) PROVE LineFresh'
    BY <1>2, <1>4 DEF NewItem
<1>5. CASE LinkBreaks
    BY <1>5 DEF LinkBreaks, LineFresh
<1>6. ASSUME NEW g \in Handler, Handle(g) PROVE LineFresh'
    BY <1>0, <1>6 DEF Handle, ApplyConfig, Announce, ProcessCommands, Move, Goto, Rest, Handler, Label, LineFresh
<1>7. CASE ClientStep
    BY <1>0, <1>7 DEF ClientStep, Dial, Hello, OnConnected, Read, ReadFails, OnDisconnected, Move, Goto, Label, LineFresh
<1>8. CASE SenderStep \/ ListenerStep \/ Take \/ ReadSignal \/ UNCHANGED vars
  <2>1. UNCHANGED <<pc["ws"], link, line>>
    BY <1>0, <1>8 DEF SenderStep, Tick, Triggered, Answered, RequestFails, HandOver, ListenerStep, OpenPoll,
       PollEnds, Take, ReadSignal, vars, Move, Goto, Label
  <2>2. QED
    BY <1>1, <2>1
<1>9. ASSUME NEW a \in Announcement, BoxCloses(a) PROVE LineFresh'
    BY <1>1, <1>9 DEF BoxCloses
<1>10. QED
    BY <1>3, <1>4, <1>5, <1>6, <1>7, <1>8, <1>9 DEF Next, ServerStep

\* Every version is at most that of the server, or stands for none.
LEMMA LineVersions ==
  ASSUME TypeOK, AllFounded
  PROVE  /\ srvConfig \in Nat /\ NoConfig \in Nat /\ srvConfig < NoConfig
         /\ \A m \in InFlight : m.config \in Nat /\ (m.config = NoConfig \/ m.config <= srvConfig)
<1>1. srvConfig \in Nat /\ NoConfig \in Nat /\ srvConfig < NoConfig
    BY ConfigAssumption DEF TypeOK, NoConfig, Config
<1>2. ASSUME NEW m \in InFlight PROVE m.config \in Nat /\ (m.config = NoConfig \/ m.config <= srvConfig)
  <2>1. m \in Message
    BY DEF InFlight, TypeOK
  <2>2. m.config \in Nat
    BY <2>1, ConfigAssumption DEF Message, Config, NoConfig
  <2>3. QED
    BY <2>2 DEF AllFounded, Founded
<1>3. QED
    BY <1>1, <1>2

LEMMA PushesStep ==
  TypeOK /\ AllFounded /\ LineFresh /\ PushesInOrder /\ [Next]_vars => PushesInOrder'
<1> SUFFICES ASSUME TypeOK, AllFounded, LineFresh, PushesInOrder, [Next]_vars PROVE PushesInOrder'
    OBVIOUS
<1>0. /\ line \in Seq(Message) /\ pc \in Label
      /\ msg \in [{"main", "ws", "sender"} -> Message]
      /\ srvConfig \in Nat /\ NoConfig \in Nat /\ srvConfig < NoConfig
      /\ \A i \in 1..Len(line) : /\ line[i].config \in Nat
                                 /\ line[i].config = NoConfig \/ line[i].config <= srvConfig
      /\ msg["ws"].config \in Nat
      /\ msg["ws"].config = NoConfig \/ msg["ws"].config <= srvConfig
    BY LineVersions DEF TypeOK, InFlight
<1>1. CASE UNCHANGED <<line, pc["ws"], msg["ws"]>>
    BY <1>1 DEF PushesInOrder
<1>2. ASSUME line' = line, pc'["ws"] # "config" PROVE PushesInOrder'
    BY <1>2 DEF PushesInOrder
<1>3. ASSUME NEW m, Push(m), m.config \in Nat, srvConfig <= m.config, m.config <= NoConfig, UNCHANGED <<pc, msg>>
      PROVE  PushesInOrder'
  <2>1. CASE line' = line
    BY <1>1, <1>3, <2>1
  <2>2. CASE line' = Append(line, m)
    <3>1. /\ Len(line') = Len(line) + 1 /\ line'[Len(line) + 1] = m
          /\ \A i \in 1..Len(line) : line'[i] = line[i]
          /\ \A i \in 1..Len(line') : i \in 1..Len(line) \/ i = Len(line) + 1
      BY <1>0, <2>2
    <3>2. ASSUME NEW i \in 1..Len(line'), NEW j \in 1..Len(line'), i < j, line'[i].config # NoConfig
          PROVE  line'[i].config <= line'[j].config
      <4>1. i \in 1..Len(line)
        BY <1>0, <3>1, <3>2
      <4>2. CASE j = Len(line) + 1
        BY <1>0, <1>3, <3>1, <3>2, <4>1, <4>2
      <4>3. CASE j \in 1..Len(line)
        BY <3>1, <3>2, <4>1, <4>3 DEF PushesInOrder
      <4>4. QED
        BY <3>1, <4>2, <4>3
    <3>3. ASSUME pc["ws"] = "config", msg["ws"].config # NoConfig, NEW j \in 1..Len(line')
          PROVE  msg["ws"].config <= line'[j].config
      <4>1. CASE j = Len(line) + 1
        BY <1>0, <1>3, <3>1, <3>3, <4>1
      <4>2. CASE j \in 1..Len(line)
        BY <3>1, <3>3, <4>2 DEF PushesInOrder
      <4>3. QED
        BY <3>1, <4>1, <4>2
    <3> HIDE DEF PushesInOrder
    <3>4. QED
      BY <1>3, <3>2, <3>3 DEF PushesInOrder
  <2>3. QED
    BY <1>3, <2>1, <2>2 DEF Push
<1>4. CASE NewConfig
  <2> PICK m : m = [config |-> srvConfig', items |-> {}]
    OBVIOUS
  <2>1. srvConfig' = srvConfig + 1
    BY <1>4 DEF NewConfig
  <2>2. m.config \in Nat /\ srvConfig <= m.config /\ m.config <= NoConfig
    BY <1>0, <2>1
  <2>3. QED
    BY <1>3, <1>4, <2>2 DEF NewConfig
<1>5. ASSUME NEW i \in Item, NewItem(i) PROVE PushesInOrder'
  <2> PICK m : m = [config |-> NoConfig, items |-> {i}]
    OBVIOUS
  <2>1. QED
    BY <1>0, <1>3, <1>5 DEF NewItem
<1>6. CASE LinkBreaks
    BY <1>6 DEF LinkBreaks, PushesInOrder
<1>7. ASSUME NEW g \in Handler, Handle(g) PROVE PushesInOrder'
  <2>1. CASE g = "main"
    <3>1. UNCHANGED <<line, pc["ws"], msg["ws"]>>
      BY <1>0, <1>7, <2>1 DEF Handle, ApplyConfig, Announce, ProcessCommands, Move, Goto, Hold, Label
    <3>2. QED
      BY <1>1, <3>1
  <2>2. CASE g = "ws"
    <3>1. line' = line /\ pc'["ws"] \in {"announce", "commands", "loop", "connected"}
      BY <1>0, <1>7, <2>2 DEF Handle, ApplyConfig, Announce, ProcessCommands, Move, Goto, Rest, Label
    <3>2. QED
      BY <1>2, <3>1
  <2>3. QED
    BY <2>1, <2>2 DEF Handler
<1>8. CASE Hello
  <2>1. line' = <<>>
    BY <1>8 DEF Hello, Move, LineFresh
  <2>2. QED
    BY <2>1 DEF PushesInOrder
<1>9. CASE Read
  <2>1. /\ line # <<>> /\ line' = Tail(line) /\ msg'["ws"] = Head(line)
    BY <1>0, <1>9 DEF Read, Hold
  <2>2. /\ 1 \in 1..Len(line) /\ msg'["ws"] = line[1]
        /\ \A i \in 1..Len(line') : i + 1 \in 1..Len(line) /\ 1 < i + 1 /\ line'[i] = line[i + 1]
    BY <1>0, <2>1
  <2>3. \A j \in 1..Len(line') : msg'["ws"].config # NoConfig => msg'["ws"].config <= line'[j].config
    BY <2>2 DEF PushesInOrder
  <2>4. ASSUME NEW i \in 1..Len(line'), NEW j \in 1..Len(line'), i < j, line'[i].config # NoConfig
        PROVE  line'[i].config <= line'[j].config
    <3>1. i + 1 < j + 1
      BY <2>4
    <3>2. QED
      BY <2>2, <2>4, <3>1 DEF PushesInOrder
  <2> HIDE DEF PushesInOrder
  <2>5. QED
    BY <2>3, <2>4 DEF PushesInOrder
<1>10. CASE Dial \/ OnConnected \/ ReadFails \/ OnDisconnected
  <2>1. line' = line /\ pc'["ws"] # "config"
    BY <1>0, <1>10 DEF Dial, OnConnected, ReadFails, OnDisconnected, Move, Goto, Label
  <2>2. QED
    BY <1>2, <2>1
<1>11. CASE SenderStep \/ ListenerStep \/ Take \/ ReadSignal \/ UNCHANGED vars
  <2>1. UNCHANGED <<line, pc["ws"], msg["ws"]>>
    BY <1>0, <1>11 DEF SenderStep, Tick, Triggered, Answered, RequestFails, HandOver, ListenerStep, OpenPoll,
       PollEnds, Take, ReadSignal, vars, Move, Goto, Hold, Label
  <2>2. QED
    BY <1>1, <2>1
<1>12. ASSUME NEW a \in Announcement, BoxCloses(a) PROVE PushesInOrder'
    BY <1>1, <1>12 DEF BoxCloses
<1>13. QED
    BY <1>4, <1>5, <1>6, <1>7, <1>8, <1>9, <1>10, <1>11, <1>12 DEF Next, ServerStep, ClientStep

\* On the WebSocket, too, versions come in order, over every loss of the
\* connection: with Ordered, an old configuration can replace a newer one only
\* by coming over the other of the two ways.
THEOREM PushesOrdered == Spec => []PushesInOrder
<1>1. Init => LineFresh /\ PushesInOrder
    BY DEF Init, LineFresh, PushesInOrder
<1>2. MailInv => TypeOK /\ AllFounded
    BY DEF MailInv
<1>3. QED
    BY <1>1, <1>2, MailInvariant, LineFreshStep, PushesStep, PTL DEF Spec
=============================================================================
