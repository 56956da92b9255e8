------------------------------ MODULE Mailbox ------------------------------
(***************************************************************************)
(* What the agent promises about what the server has for it, without       *)
(* heartbeats, channels, connections or goroutines.  Only what the server  *)
(* asked arrives, only what has arrived is answered, so that nothing is    *)
(* lost; the configuration in use is one that the server has published,    *)
(* and without a connection for pushes it only rises.  Delivery is shown   *)
(* to implement this module.                                               *)
(***************************************************************************)
EXTENDS Naturals

CONSTANTS Item, MaxConfig

VARIABLES
  published,  \* the server's configuration
  pending,    \* items that wait for an answer of the agent
  arrived,    \* items that have reached the agent
  used,       \* the configuration in use
  pushed      \* the server may push, besides answering

mailVars == <<published, pending, arrived, used, pushed>>

MailInit ==
  /\ published = 0 /\ used = 0
  /\ pending = {} /\ arrived = {}
  /\ pushed \in BOOLEAN

Publish ==
  /\ published < MaxConfig
  /\ published' = published + 1
  /\ UNCHANGED <<pending, arrived, used, pushed>>

Ask(i) ==
  /\ i \notin pending \cup arrived
  /\ pending' = pending \cup {i}
  /\ UNCHANGED <<published, arrived, used, pushed>>

\* What was asked arrives, also again, and is answered at once or not.
Receive(S) ==
  /\ S \subseteq pending \cup arrived
  /\ arrived' = arrived \cup S
  /\ pending' \in {pending, pending \ S}
  /\ UNCHANGED <<published, used, pushed>>

\* What has arrived is answered later.
Acknowledge(i) ==
  /\ i \in arrived
  /\ pending' = pending \ {i}
  /\ UNCHANGED <<published, arrived, used, pushed>>

\* A configuration may be the one that first allows pushes.
Use(v) ==
  /\ v \in 0..published
  /\ ~ pushed => v >= used
  /\ used' = v
  /\ pushed' \in {pushed, TRUE}
  /\ UNCHANGED <<published, pending, arrived>>

MailNext ==
  \/ Publish
  \/ \E i \in Item : Ask(i) \/ Acknowledge(i)
  \/ \E S \in SUBSET Item : Receive(S)
  \/ \E v \in 0..MaxConfig : Use(v)

MailSpec == MailInit /\ [][MailNext]_mailVars
=============================================================================
