-------------------------- MODULE InventoryProofs --------------------------
(***************************************************************************)
(* Proofs about Inventory, for any number of changes of the host, of       *)
(* faults and any capacity of the channel of heartbeat answers.            *)
(***************************************************************************)
EXTENDS Inventory, TLAPS

----------------------------------------------------------------------------
(* Type correctness: a change of the host is counted, and an answer that the *)
(* main loop works on is still at the head of pollResults.                   *)

USE DEF appx, scans, sender

HostBound  == host.registry <= changes + 1 /\ host.appx <= changes + 1
AnswerKept == pc["main"] = "sync" \/ (pc["main"] \in {"query", "store"} /\ job["main"] = "result")
                => results # <<>>
Sane == TypeOK /\ HostBound /\ AnswerKept

Scanned == {"query", "store"}

LEMMA NoneType == None \in Software /\ NoBeat \in Software
    BY BoundAssumption DEF None, NoBeat, Software, Version

LEMMA TailType ==
  ASSUME NEW S, NEW s \in Seq(S), s # <<>>, Len(s) <= Capacity
  PROVE  Tail(s) \in Seq(S) /\ Len(Tail(s)) <= Capacity
    BY BoundAssumption

LEMMA AppendType ==
  ASSUME NEW S, NEW s \in Seq(S), NEW e \in S, Len(s) < Capacity
  PROVE  Append(s, e) \in Seq(S) /\ Len(Append(s, e)) <= Capacity /\ Append(s, e) # <<>>
    BY BoundAssumption

LEMMA SaneInit == Init => Sane
<1> SUFFICES ASSUME Init PROVE Sane
    OBVIOUS
<1>1. None \in Software /\ NoBeat \in Software
    BY NoneType
<1>2. host \in [registry : Version \ {0}, appx : Version \ {0}] /\ HostBound
    BY BoundAssumption DEF Init, Version, HostBound
<1>3. Registry \in Software
  <2>1. host.registry \in Version /\ 0 \in Version
    BY BoundAssumption, <1>2 DEF Version
  <2>2. QED
    BY <2>1 DEF Registry, Software
<1>4. pc \in [Goroutine -> Label] /\ job \in [Goroutine -> Job] /\ hand \in [Goroutine -> Software]
    BY <1>1, <1>3 DEF Init, Goroutine, AtStart, Label, Job
<1>5. cache \in Version /\ disk \in Version /\ installed \in Version
    BY BoundAssumption, FileAssumption DEF Init, Version
<1>6. fresh \in BOOLEAN /\ lapsed \in BOOLEAN
    BY DEF Init
<1>7. results \in Seq(BOOLEAN) /\ Len(results) <= Capacity
    BY BoundAssumption DEF Init
<1>8. changes \in 0..MaxChanges /\ faults \in 0..MaxFaults
    BY BoundAssumption DEF Init
<1>9. TypeOK
    BY <1>1, <1>2, <1>4, <1>5, <1>6, <1>7, <1>8 DEF Init, TypeOK
<1>10. AnswerKept
    BY DEF Init, AnswerKept, AtStart, Goroutine
<1>11. QED
    BY <1>2, <1>9, <1>10 DEF Sane

\* Where a scan, or a goroutine without one, may be sent.
LEMMA PlaceTypes ==
  ASSUME TypeOK, NEW g \in Goroutine, NEW to \in Label, Goto(g, to)
  PROVE  pc' \in [Goroutine -> Label]
    BY DEF TypeOK, Goto

LEMMA FaultType ==
  ASSUME TypeOK, Fault
  PROVE  faults' \in 0..MaxFaults
    BY BoundAssumption DEF TypeOK, Fault

LEMMA AfterType ==
  ASSUME TypeOK, NEW g \in Goroutine
  PROVE  After(g) \in {"hash", "sync", "idle"} /\ (After(g) = "sync" => job[g] = "result")
    BY DEF After

\* Scan(g, why) keeps the types.
LEMMA ScanType ==
  ASSUME TypeOK, NEW g \in Goroutine, NEW why \in Job, Scan(g, why)
  PROVE  /\ pc' \in [Goroutine -> Label]
         /\ job' \in [Goroutine -> Job]
         /\ hand' \in [Goroutine -> Software]
<1>1. Registry \in Software
    BY BoundAssumption DEF TypeOK, Registry, Software, Version
<1>2. QED
    BY <1>1 DEF TypeOK, Scan, Goto, Hold, Label

LEMMA SaneStep == Sane /\ [Next]_vars => Sane'
<1> SUFFICES ASSUME Sane, [Next]_vars PROVE Sane'
    OBVIOUS
<1>t. TypeOK /\ HostBound /\ AnswerKept
    BY DEF Sane
<1>n. None \in Software /\ NoBeat \in Software
    BY NoneType
<1> USE BoundAssumption
<1>1. CASE HostChanges
  <2>1. changes' \in 0..MaxChanges
    BY <1>1, <1>t DEF HostChanges, TypeOK
  <2>2. host' \in [registry : Version \ {0}, appx : Version \ {0}] /\ HostBound'
    BY <1>1, <1>t DEF HostChanges, TypeOK, HostBound, NewRegistry, NewAppx, Version
  <2>3. QED
    BY <1>1, <1>t, <2>1, <2>2 DEF HostChanges, TypeOK, Sane, AnswerKept
<1>2. CASE TimePasses
    BY <1>2, <1>t DEF TimePasses, TypeOK, Sane, HostBound, AnswerKept
<1>3. CASE CacheExpires
  <2>1. faults' \in 0..MaxFaults
    BY <1>3, <1>t, FaultType DEF CacheExpires
  <2>2. QED
    BY <1>3, <1>t, <2>1 DEF CacheExpires, TypeOK, Sane, HostBound, AnswerKept
<1>4. CASE Restart
  <2>1. faults' \in 0..MaxFaults
    BY <1>4, <1>t, FaultType DEF Restart
  <2>2. Registry \in Software
    BY <1>t DEF TypeOK, Registry, Software, Version
  <2>3. /\ pc' \in [Goroutine -> Label] /\ job' \in [Goroutine -> Job]
        /\ hand' \in [Goroutine -> Software]
    BY <1>4, <1>n, <2>2 DEF Restart, Goroutine, AtStart, Label, Job
  <2>4. disk' \in Version /\ cache' \in Version
    BY <1>4, <1>t DEF Restart, TypeOK, Version
  <2>5. fresh' \in BOOLEAN /\ lapsed' \in BOOLEAN
    BY <1>4 DEF Restart
  <2>6. results' \in Seq(BOOLEAN) /\ Len(results') <= Capacity
    BY <1>4 DEF Restart
  <2>7. TypeOK'
    BY <1>4, <1>t, <1>n, <2>1, <2>3, <2>4, <2>5, <2>6 DEF Restart, TypeOK
  <2>8. AnswerKept'
    BY <1>4 DEF Restart, AnswerKept, Goroutine, AtStart
  <2>9. QED
    BY <1>4, <1>t, <2>7, <2>8 DEF Restart, Sane, HostBound
<1>5. ASSUME NEW g \in Goroutine, QueryAppx(g) PROVE Sane'
  <2>1. pc' \in [Goroutine -> Label]
    BY <1>5, <1>t DEF QueryAppx, Move, Goto, TypeOK, Label
  <2>2. faults' \in 0..MaxFaults
    <3>1. Fault \/ UNCHANGED faults
      BY <1>5 DEF QueryAppx
    <3>2. QED
      BY <1>t, <3>1, FaultType DEF TypeOK
  <2>3. hand' \in [Goroutine -> Software] /\ cache' \in Version /\ disk' \in Version
    <3>1. hand[g].registry \in Version /\ host.appx \in Version /\ 0 \in Version
      BY <1>t DEF TypeOK, Software, Version
    <3>2. cache \in Version /\ disk \in Version /\ hand \in [Goroutine -> Software]
      BY <1>t DEF TypeOK
    <3>3. /\ cache' \in Version
          /\ disk' \in Version
          /\ \E a \in Version : Hold(g, [registry |-> hand[g].registry, appx |-> a])
      BY <1>5, <3>1, <3>2 DEF QueryAppx
    <3>4. hand' \in [Goroutine -> Software]
      BY <3>1, <3>2, <3>3 DEF Hold, Software
    <3>5. QED
      BY <3>3, <3>4
  <2>4. fresh' \in BOOLEAN
    BY <1>5, <1>t DEF QueryAppx, TypeOK
  <2>5. TypeOK'
    BY <1>5, <1>t, <2>1, <2>2, <2>3, <2>4 DEF QueryAppx, TypeOK
  <2>6. AnswerKept'
    BY <1>5, <1>t DEF QueryAppx, AnswerKept, Move, Goto, TypeOK
  <2>7. QED
    BY <1>5, <1>t, <2>5, <2>6 DEF QueryAppx, Sane, HostBound
<1>6. ASSUME NEW g \in Goroutine, StoreScan(g) PROVE Sane'
  <2>1. After(g) \in {"hash", "sync", "idle"} /\ (After(g) = "sync" => job[g] = "result")
    BY <1>t, AfterType
  <2>2. pc' \in [Goroutine -> Label] /\ pc' = [pc EXCEPT ![g] = After(g)]
    BY <1>6, <1>t, <2>1 DEF StoreScan, Move, Goto, TypeOK, Label
  <2>3. job' \in [Goroutine -> Job]
    BY <1>6, <1>t DEF StoreScan, TypeOK, Job
  <2>4. hand' \in [Goroutine -> Software] /\ last' \in Software
    BY <1>6, <1>t, <1>n DEF StoreScan, Hold, TypeOK
  <2>5. due' \in BOOLEAN /\ kick' \in BOOLEAN
    BY <1>6, <1>t DEF StoreScan, TypeOK
  <2>6. TypeOK'
    BY <1>6, <1>t, <2>2, <2>3, <2>4, <2>5 DEF StoreScan, TypeOK
  <2>7. AnswerKept'
    BY <1>6, <1>t, <2>1, <2>2 DEF StoreScan, AnswerKept, Move, TypeOK, Goroutine
  <2>8. QED
    BY <1>6, <1>t, <2>6, <2>7 DEF StoreScan, Sane, HostBound
<1>7. ASSUME NEW g \in Goroutine, Install(g) PROVE Sane'
  <2>1. changes' \in 0..MaxChanges
    BY <1>7, <1>t DEF Install, TypeOK
  <2>2. host' \in [registry : Version \ {0}, appx : Version \ {0}] /\ HostBound'
    BY <1>7, <1>t DEF Install, TypeOK, HostBound, NewRegistry, Version
  <2>3. installed' \in Version /\ hand' \in [Goroutine -> Software]
    BY <1>7, <1>t, <2>2 DEF Install, TypeOK, Hold, Software, Version
  <2>4. pc' \in [Goroutine -> Label] /\ job' \in [Goroutine -> Job]
    BY <1>7, <1>t DEF Install, TypeOK, Goto, Label, Job
  <2>5. TypeOK'
    BY <1>7, <1>t, <2>1, <2>2, <2>3, <2>4 DEF Install, TypeOK
  <2>6. AnswerKept'
    BY <1>7, <1>t DEF Install, AnswerKept, Goto, TypeOK, Goroutine
  <2>7. QED
    BY <2>2, <2>5, <2>6 DEF Sane
<1>8. CASE TakeKick
  <2>1. "kick" \in Job /\ "main" \in Goroutine
    BY DEF Job, Goroutine
  <2>2. /\ pc' \in [Goroutine -> Label] /\ job' \in [Goroutine -> Job]
        /\ hand' \in [Goroutine -> Software]
    BY <1>8, <1>t, <2>1, ScanType DEF TakeKick, TypeOK
  <2>3. TypeOK'
    BY <1>8, <1>t, <2>2 DEF TakeKick, TypeOK
  <2>4. AnswerKept'
    BY <1>8, <1>t DEF TakeKick, AnswerKept, Scan, Goto, TypeOK, Goroutine
  <2>5. QED
    BY <1>8, <1>t, <2>3, <2>4 DEF TakeKick, Sane, HostBound
<1>9. CASE Tick
  <2>1. "tick" \in Job /\ "poll" \in Job /\ "main" \in Goroutine /\ "hash" \in Label
    BY DEF Job, Goroutine, Label
  <2>2. CASE due
    <3>1. Scan("main", "tick")
      BY <1>9, <2>2 DEF Tick
    <3>2. /\ pc' \in [Goroutine -> Label] /\ job' \in [Goroutine -> Job]
          /\ hand' \in [Goroutine -> Software]
      BY <1>t, <2>1, <3>1, ScanType
    <3>3. AnswerKept'
      BY <1>9, <1>t, <2>1, <3>1 DEF AnswerKept, Scan, Goto, TypeOK, Tick
    <3>4. TypeOK'
      BY <1>9, <1>t, <3>2 DEF Tick, TypeOK
    <3>5. QED
      BY <1>9, <1>t, <3>3, <3>4 DEF Tick, Sane, HostBound
  <2>3. CASE ~ due
    <3>1. Goto("main", "hash") /\ UNCHANGED hand /\ job' = [job EXCEPT !["main"] = "poll"]
      BY <1>9, <2>3 DEF Tick
    <3>2. pc' \in [Goroutine -> Label] /\ job' \in [Goroutine -> Job]
      BY <1>t, <2>1, <3>1 DEF Goto, TypeOK
    <3>3. AnswerKept'
      BY <1>9, <1>t, <2>1, <3>1 DEF AnswerKept, Goto, TypeOK, Tick
    <3>4. TypeOK'
      BY <1>9, <1>t, <3>1, <3>2 DEF Tick, TypeOK
    <3>5. QED
      BY <1>9, <1>t, <3>3, <3>4 DEF Tick, Sane, HostBound
  <2>4. QED
    BY <2>2, <2>3
<1>10. CASE TakeResult
  <2>1. "result" \in Job /\ "main" \in Goroutine /\ "sync" \in Label
    BY DEF Job, Goroutine, Label
  <2>2. CASE due
    <3>1. Scan("main", "result")
      BY <1>10, <2>2 DEF TakeResult
    <3>2. /\ pc' \in [Goroutine -> Label] /\ job' \in [Goroutine -> Job]
          /\ hand' \in [Goroutine -> Software]
      BY <1>t, <2>1, <3>1, ScanType
    <3>3. AnswerKept'
      BY <1>10 DEF AnswerKept, TakeResult
    <3>4. TypeOK'
      BY <1>10, <1>t, <3>2 DEF TakeResult, TypeOK
    <3>5. QED
      BY <1>10, <1>t, <3>3, <3>4 DEF TakeResult, Sane, HostBound
  <2>3. CASE ~ due
    <3>1. Goto("main", "sync") /\ UNCHANGED hand /\ job' = [job EXCEPT !["main"] = "result"]
      BY <1>10, <2>3 DEF TakeResult
    <3>2. pc' \in [Goroutine -> Label] /\ job' \in [Goroutine -> Job]
      BY <1>t, <2>1, <3>1 DEF Goto, TypeOK
    <3>3. AnswerKept'
      BY <1>10 DEF AnswerKept, TakeResult
    <3>4. TypeOK'
      BY <1>10, <1>t, <3>1, <3>2 DEF TakeResult, TypeOK
    <3>5. QED
      BY <1>10, <1>t, <3>3, <3>4 DEF TakeResult, Sane, HostBound
  <2>4. QED
    BY <2>2, <2>3
<1>11. CASE SendHash
  <2>1. Fault \/ UNCHANGED faults
    BY <1>11 DEF SendHash
  <2>2. faults' \in 0..MaxFaults
    BY <1>t, <2>1, FaultType DEF TypeOK
  <2>3. pc' \in [Goroutine -> Label] /\ job' \in [Goroutine -> Job]
    BY <1>11, <1>t DEF SendHash, Move, Goto, TypeOK, Label, Job
  <2>4. sent' \in Software
    BY <1>11, <1>t DEF SendHash, TypeOK
  <2>5. lately' \in BOOLEAN /\ asks' \in BOOLEAN
    BY <1>11, <1>t DEF SendHash, TypeOK
  <2>6. TypeOK'
    BY <1>11, <1>t, <2>2, <2>3, <2>4, <2>5 DEF SendHash, TypeOK
  <2>7. AnswerKept'
    BY <1>11, <1>t DEF SendHash, AnswerKept, Move, Goto, TypeOK, Goroutine
  <2>8. QED
    BY <1>11, <1>t, <2>6, <2>7 DEF SendHash, Sane, HostBound
<1>12. CASE SyncIfRequested
  <2>1. pc' \in [Goroutine -> Label] /\ pc'["main"] \notin {"sync", "query", "store"}
    BY <1>12, <1>t DEF SyncIfRequested, Goto, TypeOK, Label, Goroutine
  <2>2. results # <<>>
    BY <1>12, <1>t DEF SyncIfRequested, AnswerKept
  <2>3. results' \in Seq(BOOLEAN) /\ Len(results') <= Capacity
    <3>1. results \in Seq(BOOLEAN) /\ Len(results) <= Capacity
      BY <1>t DEF TypeOK
    <3>2. results' = Tail(results)
      BY <1>12 DEF SyncIfRequested
    <3>3. QED
      BY <2>2, <3>1, <3>2, TailType
  <2>4. hand' \in [Goroutine -> Software]
    BY <1>12, <1>t DEF SyncIfRequested, Hold, TypeOK
  <2>5. TypeOK'
    BY <1>12, <1>t, <2>1, <2>3, <2>4 DEF SyncIfRequested, TypeOK
  <2>6. QED
    BY <1>12, <1>t, <2>1, <2>5 DEF SyncIfRequested, AnswerKept, Sane, HostBound
<1>13. CASE Submit
  <2>1. Fault \/ UNCHANGED faults
    BY <1>13 DEF Submit
  <2>2. faults' \in 0..MaxFaults
    BY <1>t, <2>1, FaultType DEF TypeOK
  <2>3. pc' \in [Goroutine -> Label] /\ hand' \in [Goroutine -> Software] /\ known' \in Software
    BY <1>13, <1>t, <1>n DEF Submit, Move, Goto, Hold, TypeOK, Label, Goroutine
  <2>4. AnswerKept'
    BY <1>13, <1>t DEF Submit, AnswerKept, Move, Goto, TypeOK, Goroutine
  <2>5. TypeOK'
    BY <1>13, <1>t, <2>2, <2>3 DEF Submit, TypeOK
  <2>6. QED
    BY <1>13, <1>t, <2>4, <2>5 DEF Submit, Sane, HostBound
<1>14. CASE NoInstall
  <2>1. pc' \in [Goroutine -> Label] /\ job' \in [Goroutine -> Job]
    BY <1>14, <1>t DEF NoInstall, Move, Goto, TypeOK, Label, Job
  <2>2. AnswerKept'
    BY <1>14, <1>t DEF NoInstall, AnswerKept, Move, Goto, TypeOK, Goroutine
  <2>3. TypeOK'
    BY <1>14, <1>t, <2>1 DEF NoInstall, TypeOK
  <2>4. QED
    BY <1>14, <1>t, <2>2, <2>3 DEF NoInstall, Sane, HostBound
<1>15. CASE Connected \/ Disconnected \/ SyncRequired
  <2>1. /\ wsActive' \in BOOLEAN /\ asks' \in BOOLEAN
        /\ trigger' \in BOOLEAN /\ kick' \in BOOLEAN
    BY <1>15, <1>t DEF Connected, Disconnected, SyncRequired, TypeOK
  <2>2. UNCHANGED <<host, known, installed, appx, last, due, pc, job, hand, sent, lately, beat, results, changes, faults>>
    BY <1>15 DEF Connected, Disconnected, SyncRequired
  <2>3. TypeOK'
    BY <1>t, <2>1, <2>2 DEF TypeOK
  <2>4. QED
    BY <1>t, <2>2, <2>3 DEF Sane, HostBound, AnswerKept
<1>16. CASE Build
  <2>1. trigger' = FALSE /\ beat' = last
    BY <1>16 DEF Build
  <2>2. TypeOK'
    BY <1>16, <1>t, <2>1 DEF Build, TypeOK
  <2>3. QED
    BY <1>16, <1>t, <2>2 DEF Build, Sane, HostBound, AnswerKept
<1>17. CASE Answered
  <2>1. /\ results' \in Seq(BOOLEAN) /\ Len(results') <= Capacity
        /\ results # <<>> => results' # <<>>
    <3>1. results \in Seq(BOOLEAN) /\ Len(results) <= Capacity
      BY <1>t DEF TypeOK
    <3>2. (beat # known) \in BOOLEAN
      OBVIOUS
    <3>3. CASE Len(results) < Capacity
      <4>1. results' = Append(results, beat # known)
        BY <1>17, <3>3 DEF Answered
      <4>2. QED
        BY <3>1, <3>2, <3>3, <4>1, AppendType
    <3>4. CASE ~ (Len(results) < Capacity)
      <4>1. results' = results
        BY <1>17, <3>4 DEF Answered
      <4>2. QED
        BY <3>1, <4>1
    <3>5. QED
      BY <3>3, <3>4
  <2>2. results # <<>> => results' # <<>>
    BY <2>1
  <2>3. TypeOK'
    BY <1>17, <1>t, <1>n, <2>1 DEF Answered, TypeOK
  <2>4. QED
    BY <1>17, <1>t, <2>2, <2>3 DEF Answered, Sane, HostBound, AnswerKept
<1>18. CASE HeartbeatFails
  <2>1. faults' \in 0..MaxFaults
    BY <1>18, <1>t, FaultType DEF HeartbeatFails
  <2>2. QED
    BY <1>18, <1>t, <1>n, <2>1 DEF HeartbeatFails, TypeOK, Sane, HostBound, AnswerKept
<1>19. CASE UNCHANGED vars
    BY <1>19, <1>t DEF vars, TypeOK, Sane, HostBound, AnswerKept
<1>20. QED
    BY <1>1, <1>2, <1>3, <1>4, <1>5, <1>6, <1>7, <1>8, <1>9, <1>10, <1>11, <1>12, <1>13, <1>14,
       <1>15, <1>16, <1>17, <1>18, <1>19 DEF Next, ScanStep, MainStep, SenderStep

\* Every variable of Inventory holds a value of its type in every state.
THEOREM TypeCorrect == Spec => []TypeOK
<1>1. Spec => []Sane
    BY SaneInit, SaneStep, PTL DEF Spec
<1>2. Sane => TypeOK
    BY DEF Sane
<1>3. QED
    BY <1>1, <1>2, PTL

----------------------------------------------------------------------------
(* Packages are never taken for removed *)

\* As long as nothing has lapsed there is a fresh list in the process or in the
\* file, and what is scanned or submitted has one.
Cached ==
  ~ lapsed =>
    /\ fresh
    /\ cache # 0 \/ disk # 0
    /\ \A g \in Goroutine : /\ pc[g] = "store" => hand[g].appx # 0
                            /\ pc[g] = "submit" /\ hand[g].registry # 0 => hand[g].appx # 0
    /\ last.registry # 0 => last.appx # 0
    /\ known.registry # 0 => known.appx # 0

LEMMA CachedInit == Init => Cached
<1> SUFFICES ASSUME Init, ~ lapsed PROVE Cached
    BY DEF Cached
<1>1. disk # 0
    BY DEF Init
<1>2. fresh
    BY <1>1 DEF Init
<1>3. pc["main"] = "query" /\ pc["ws"] = "idle" /\ last = None /\ known = None
    BY DEF Init, Goroutine, AtStart
<1>4. QED
    BY <1>1, <1>2, <1>3 DEF Cached, Goroutine, None

LEMMA CachedStep == TypeOK /\ Cached /\ [Next]_vars => Cached'
<1> SUFFICES ASSUME TypeOK, Cached, [Next]_vars, ~ lapsed' PROVE Cached'
    BY DEF Cached
<1>1. CASE HostChanges
    BY <1>1 DEF HostChanges, Cached
<1>2. CASE TimePasses
    BY <1>2 DEF TimePasses, Cached
<1>3. CASE CacheExpires
    BY <1>3 DEF CacheExpires
<1>4. CASE Restart
  <2>1. ~ lapsed /\ fresh' /\ disk' # 0
    BY <1>4 DEF Restart
  <2>2. pc'["main"] = "query" /\ pc'["ws"] = "idle"
    BY <1>4 DEF Restart, Goroutine, AtStart
  <2>3. last' = None /\ known' = known
    BY <1>4 DEF Restart
  <2>4. QED
    BY <2>1, <2>2, <2>3 DEF Cached, Goroutine, None
<1>5. ASSUME NEW g \in Goroutine, QueryAppx(g) PROVE Cached'
  <2>1. ~ lapsed /\ fresh /\ (cache # 0 \/ disk # 0) /\ host.appx # 0
    BY <1>5 DEF QueryAppx, Cached, TypeOK
  <2>2. fresh' /\ (cache' # 0 \/ disk' # 0)
    BY <1>5, <2>1 DEF QueryAppx
  <2>3. \E a : a # 0 /\ Hold(g, [registry |-> hand[g].registry, appx |-> a])
    BY <1>5, <2>1 DEF QueryAppx
  <2>4. ASSUME NEW o \in Goroutine
        PROVE  /\ pc'[o] = "store" => hand'[o].appx # 0
               /\ pc'[o] = "submit" /\ hand'[o].registry # 0 => hand'[o].appx # 0
    BY <1>5, <2>1, <2>3 DEF QueryAppx, Move, Goto, Hold, Cached, TypeOK
  <2>5. QED
    BY <1>5, <2>1, <2>2, <2>4 DEF QueryAppx, Cached
<1>6. ASSUME NEW g \in Goroutine, StoreScan(g) PROVE Cached'
  <2>1. ~ lapsed /\ hand[g].appx # 0 /\ After(g) \notin {"store", "submit"}
    BY <1>6 DEF StoreScan, Move, Cached, After
  <2>2. ASSUME NEW o \in Goroutine
        PROVE  /\ pc'[o] = "store" => hand'[o].appx # 0
               /\ pc'[o] = "submit" /\ hand'[o].registry # 0 => hand'[o].appx # 0
    BY <1>6, <2>1 DEF StoreScan, Move, Goto, Hold, Cached, TypeOK
  <2>3. QED
    BY <1>6, <2>1, <2>2 DEF StoreScan, Cached
<1>7. ASSUME NEW g \in Goroutine, Install(g) PROVE Cached'
  <2>1. ASSUME NEW o \in Goroutine
        PROVE  /\ pc'[o] = "store" => hand'[o].appx # 0
               /\ pc'[o] = "submit" /\ hand'[o].registry # 0 => hand'[o].appx # 0
    BY <1>7 DEF Install, Goto, Hold, Cached, TypeOK
  <2>2. QED
    BY <1>7, <2>1 DEF Install, Cached
<1>8. CASE TakeKick \/ Tick \/ TakeResult
  <2>1. \/ pc' = [pc EXCEPT !["main"] = "query"] /\ hand' = [hand EXCEPT !["main"] = Registry]
        \/ pc' = pc /\ hand' = hand
        \/ pc' = [pc EXCEPT !["main"] = "hash"] /\ hand' = hand
        \/ pc' = [pc EXCEPT !["main"] = "sync"] /\ hand' = hand
    BY <1>8 DEF TakeKick, Tick, TakeResult, Scan, Goto, Hold
  <2>2. ~ lapsed
    BY <1>8 DEF TakeKick, Tick, TakeResult
  <2>4. ASSUME NEW o \in Goroutine
        PROVE  /\ pc'[o] = "store" => hand'[o].appx # 0
               /\ pc'[o] = "submit" /\ hand'[o].registry # 0 => hand'[o].appx # 0
    BY <2>1, <2>2 DEF Cached, TypeOK
  <2>3. QED
    BY <1>8, <2>4 DEF TakeKick, Tick, TakeResult, Cached
<1>9. CASE SendHash \/ NoInstall
  <2>1. ASSUME NEW o \in Goroutine
        PROVE  /\ pc'[o] = "store" => hand'[o].appx # 0
               /\ pc'[o] = "submit" /\ hand'[o].registry # 0 => hand'[o].appx # 0
    BY <1>9 DEF SendHash, NoInstall, Move, Goto, Cached, TypeOK
  <2>2. QED
    BY <1>9, <2>1 DEF SendHash, NoInstall, Cached
<1>10. CASE SyncIfRequested
  <2>1. \/ hand' = hand /\ pc' = [pc EXCEPT !["main"] = "commands"]
        \/ hand' = [hand EXCEPT !["main"] = last] /\ pc' = [pc EXCEPT !["main"] = "submit"]
    <3>1. CASE Head(results)
      BY <1>10, <3>1 DEF SyncIfRequested, Goto, Hold
    <3>2. CASE ~ Head(results)
      <4>1. Goto("main", "commands") /\ UNCHANGED hand
        BY <1>10, <3>2 DEF SyncIfRequested
      <4>2. QED
        BY <4>1 DEF Goto
    <3>3. QED
      BY <3>1, <3>2
  <2>2. ASSUME NEW o \in Goroutine
        PROVE  /\ pc'[o] = "store" => hand'[o].appx # 0
               /\ pc'[o] = "submit" /\ hand'[o].registry # 0 => hand'[o].appx # 0
    BY <1>10, <2>1 DEF SyncIfRequested, Cached, TypeOK
  <2>3. QED
    BY <1>10, <2>2 DEF SyncIfRequested, Cached
<1>11. CASE Submit
  <2>1. ASSUME NEW o \in Goroutine
        PROVE  /\ pc'[o] = "store" => hand'[o].appx # 0
               /\ pc'[o] = "submit" /\ hand'[o].registry # 0 => hand'[o].appx # 0
    BY <1>11 DEF Submit, Move, Goto, Hold, Cached, TypeOK
  <2>2. known'.registry # 0 => known'.appx # 0
    BY <1>11 DEF Submit, Move, Cached, Goroutine
  <2>3. QED
    BY <1>11, <2>1, <2>2 DEF Submit, Cached
<1>12. CASE Connected \/ Disconnected \/ SyncRequired \/ SenderStep
    BY <1>12 DEF Connected, Disconnected, SyncRequired, SenderStep, Build, Answered, HeartbeatFails, Cached
<1>13. CASE UNCHANGED vars
    BY <1>13 DEF vars, Cached
<1>14. QED
    BY <1>1, <1>2, <1>3, <1>4, <1>5, <1>6, <1>7, <1>8, <1>9, <1>10, <1>11, <1>12, <1>13
       DEF Next, ScanStep, MainStep

\* While a fresh list of packages is at hand the server is never told that the
\* packages are gone, however often queries fail and the service restarts.
THEOREM NothingFalselyRemoved == Spec => []NoFalseRemoval
<1>1. Spec => []Sane
    BY SaneInit, SaneStep, PTL DEF Spec
<1>2. Sane => TypeOK
    BY DEF Sane
<1>3. Spec => []Cached
    BY <1>1, <1>2, CachedInit, CachedStep, PTL DEF Spec
<1>4. Cached => NoFalseRemoval
    BY DEF Cached, NoFalseRemoval
<1>5. QED
    BY <1>3, <1>4, PTL

----------------------------------------------------------------------------
(* An installation is scanned *)

Scanning(g) == pc[g] \in Scanned

\* When the WebSocket is connected and the inventory may lack an installation,
\* the main loop is kicked, or the scan that kicks it is under way, or every
\* scan under way has seen the installation.
Reflected ==
  /\ installed <= host.registry
  /\ Scanning("ws") => job["ws"] = "install"
  /\ wsActive => \/ kick
                 \/ \E g \in Goroutine : Scanning(g) /\ job[g] = "install"
                 \/ /\ \A g \in Goroutine : Scanning(g) => hand[g].registry >= installed
                    /\ last.registry >= installed \/ \E g \in Goroutine : Scanning(g)

LEMMA ReflectedInit == Init => Reflected
    BY DEF Init, Reflected, Scanning, Scanned, Goroutine, AtStart

\* A step in which nothing ends a scan, begins one or concerns the WebSocket.
LEMMA ReflectedKept ==
  ASSUME TypeOK, Reflected, installed' = installed, host'.registry >= host.registry,
         host'.registry \in Nat,
         wsActive' => wsActive, kick' = kick, last' = last,
         \A g \in Goroutine : /\ pc'[g] \in Scanned <=> pc[g] \in Scanned
                              /\ pc[g] \in Scanned => /\ job'[g] = job[g]
                                                      /\ hand'[g].registry = hand[g].registry
  PROVE  Reflected'
<1> USE DEF Scanning
<1>1. installed' <= host'.registry
  <2>1. installed \in Nat /\ host.registry \in Nat
    BY BoundAssumption DEF TypeOK, Version
  <2>2. QED
    BY <2>1 DEF Reflected
<1>2. Scanning("ws")' => job'["ws"] = "install"
    BY DEF Reflected, Goroutine
<1>3. ASSUME wsActive', ~ kick', ~ \E g \in Goroutine : Scanning(g)' /\ job'[g] = "install"
      PROVE  /\ \A g \in Goroutine : Scanning(g)' => hand'[g].registry >= installed'
             /\ last'.registry >= installed' \/ \E g \in Goroutine : Scanning(g)'
  <2>1. wsActive /\ ~ kick /\ ~ \E g \in Goroutine : Scanning(g) /\ job[g] = "install"
    BY <1>3
  <2>2. /\ \A g \in Goroutine : Scanning(g) => hand[g].registry >= installed
        /\ last.registry >= installed \/ \E g \in Goroutine : Scanning(g)
    BY <2>1 DEF Reflected
  <2>3. QED
    BY <2>2
<1>4. QED
    BY <1>1, <1>2, <1>3 DEF Reflected

LEMMA ReflectedStep == Sane /\ Sane' /\ Reflected /\ [Next]_vars => Reflected'
<1> SUFFICES ASSUME Sane, Sane', Reflected, [Next]_vars PROVE Reflected'
    OBVIOUS
<1>t. TypeOK /\ TypeOK'
    BY DEF Sane
<1>r. host.registry \in Nat /\ host'.registry \in Nat
    BY <1>t, BoundAssumption DEF TypeOK, Version
<1> USE DEF Scanning, Scanned
<1>1. CASE HostChanges \/ TimePasses \/ CacheExpires \/ UNCHANGED vars
  <2>1. host'.registry >= host.registry
    BY <1>1, <1>r DEF HostChanges, TimePasses, CacheExpires, vars, NewRegistry, NewAppx
  <2>2. QED
    BY <1>1, <1>t, <1>r, <2>1, ReflectedKept DEF HostChanges, TimePasses, CacheExpires, vars
<1>2. CASE Restart
    BY <1>2 DEF Restart, Reflected, Goroutine, AtStart
<1>3. ASSUME NEW g \in Goroutine, QueryAppx(g) PROVE Reflected'
  <2>1. \E a : hand' = [hand EXCEPT ![g] = [registry |-> hand[g].registry, appx |-> a]]
    BY <1>3 DEF QueryAppx, Hold
  <2>2. pc[g] = "query" /\ pc' = [pc EXCEPT ![g] = "store"] /\ job' = job
    BY <1>3 DEF QueryAppx, Move, Goto
  <2>3. ASSUME NEW o \in Goroutine
        PROVE  /\ pc'[o] \in Scanned <=> pc[o] \in Scanned
               /\ pc[o] \in Scanned => /\ job'[o] = job[o]
                                      /\ hand'[o].registry = hand[o].registry
    BY <1>t, <2>1, <2>2 DEF TypeOK
  <2>4. host'.registry >= host.registry
    BY <1>3, <1>r DEF QueryAppx
  <2>5. QED
    BY <1>3, <1>t, <1>r, <2>3, <2>4, ReflectedKept DEF QueryAppx
<1>4. ASSUME NEW g \in Goroutine, StoreScan(g) PROVE Reflected'
  <2>1. /\ pc[g] = "store" /\ pc' = [pc EXCEPT ![g] = After(g)] /\ last' = hand[g]
        /\ host' = host /\ installed' = installed /\ wsActive' = wsActive
    BY <1>4 DEF StoreScan, Move, Goto
  <2>2. After(g) \notin Scanned
    BY DEF After
  <2>3. \A o \in Goroutine : Scanning(o)' => o # g /\ Scanning(o) /\ job'[o] = job[o] /\ hand'[o] = hand[o]
    BY <1>4, <1>t, <2>1, <2>2 DEF StoreScan, Hold, TypeOK
  <2>4. Scanning("ws")' => job'["ws"] = "install"
    BY <2>3 DEF Reflected, Goroutine
  <2>5. CASE job[g] = "install"
    <3>1. wsActive => kick'
      BY <1>4, <2>5 DEF StoreScan
    <3>2. QED
      BY <2>1, <2>4, <3>1 DEF Reflected
  <2>6. CASE job[g] # "install" /\ wsActive /\ ~ kick
    <3>1. g = "main"
      BY <2>1, <2>6 DEF Reflected, Goroutine
    <3>2. CASE Scanning("ws")
      <4>1. Scanning("ws")' /\ job'["ws"] = "install"
        BY <1>4, <1>t, <2>1, <2>4, <3>1, <3>2 DEF TypeOK, Goroutine
      <4>2. QED
        BY <2>1, <2>4, <4>1 DEF Reflected, Goroutine
    <3>3. CASE ~ Scanning("ws")
      <4>1. hand[g].registry >= installed
        BY <2>1, <2>6, <3>1, <3>3 DEF Reflected, Goroutine
      <4>2. \A o \in Goroutine : ~ Scanning(o)'
        BY <2>3, <3>1, <3>3 DEF Goroutine
      <4>3. QED
        BY <2>1, <4>1, <4>2 DEF Reflected, Goroutine
    <3>4. QED
      BY <3>2, <3>3
  <2>7. CASE ~ wsActive \/ kick
    <3>1. wsActive' => kick'
      <4>1. kick' = (kick \/ (job[g] = "install" /\ wsActive))
        BY <1>4 DEF StoreScan
      <4>2. QED
        BY <2>1, <2>7, <4>1
    <3>2. QED
      BY <2>1, <2>4, <3>1 DEF Reflected
  <2>8. QED
    BY <2>5, <2>6, <2>7
<1>5. ASSUME NEW g \in Goroutine, Install(g) PROVE Reflected'
  <2>1. installed' = host'.registry /\ host'.registry \in Nat
    BY <1>5, <1>t DEF Install, TypeOK, Version
  <2>2. /\ pc' = [pc EXCEPT ![g] = "query"] /\ job' = [job EXCEPT ![g] = "install"]
    BY <1>5 DEF Install, Goto
  <2>3. Scanning(g)' /\ job'[g] = "install"
    BY <1>t, <2>2 DEF TypeOK
  <2>4. Scanning("ws")' => job'["ws"] = "install"
    BY <1>t, <2>2, <2>3 DEF TypeOK, Reflected, Goroutine
  <2>5. QED
    BY <2>1, <2>3, <2>4 DEF Reflected
<1>6. CASE TakeKick
  <2>1. CASE wsActive
    <3>1. /\ pc' = [pc EXCEPT !["main"] = "query"] /\ hand' = [hand EXCEPT !["main"] = Registry]
          /\ job' = [job EXCEPT !["main"] = "kick"]
          /\ host' = host /\ installed' = installed /\ pc["main"] = "idle"
      BY <1>6, <2>1 DEF TakeKick, Scan, Goto, Hold
    <3>2. Scanning("main")' /\ hand'["main"].registry >= installed'
      BY <1>t, <3>1 DEF TypeOK, Reflected, Registry, Goroutine, Version
    <3>3. Scanning("ws")' => job'["ws"] = "install"
      BY <1>t, <3>1 DEF TypeOK, Reflected, Goroutine
    <3>4. QED
      BY <3>1, <3>2, <3>3 DEF Reflected, Goroutine
  <2>2. CASE ~ wsActive
    <3>1. ~ wsActive' /\ host' = host /\ installed' = installed /\ pc' = pc /\ job' = job
      BY <1>6, <2>2 DEF TakeKick
    <3>2. QED
      BY <3>1 DEF Reflected
  <2>3. QED
    BY <2>1, <2>2
<1>7. CASE (Tick \/ TakeResult) /\ due
  <2>1. /\ pc' = [pc EXCEPT !["main"] = "query"] /\ hand' = [hand EXCEPT !["main"] = Registry]
        /\ \E why \in {"tick", "result"} : job' = [job EXCEPT !["main"] = why]
        /\ host' = host /\ installed' = installed /\ pc["main"] = "idle"
        /\ kick' = kick /\ wsActive' = wsActive
    BY <1>7 DEF Tick, TakeResult, Scan, Goto, Hold
  <2>2. Scanning("main")' /\ hand'["main"].registry >= installed' /\ ~ Scanning("main")
    BY <1>t, <2>1 DEF TypeOK, Reflected, Registry, Goroutine, Version
  <2>3. /\ Scanning("ws")' <=> Scanning("ws")
        /\ job'["ws"] = job["ws"] /\ hand'["ws"] = hand["ws"]
    BY <1>t, <2>1 DEF TypeOK, Goroutine
  <2>4. wsActive' => \/ kick'
                     \/ \E g \in Goroutine : Scanning(g)' /\ job'[g] = "install"
                     \/ /\ \A g \in Goroutine : Scanning(g)' => hand'[g].registry >= installed'
                        /\ \E g \in Goroutine : Scanning(g)'
    BY <2>1, <2>2, <2>3 DEF Reflected, Goroutine
  <2>5. QED
    BY <2>1, <2>3, <2>4 DEF Reflected
<1>8. CASE (Tick \/ TakeResult) /\ ~ due
  <2>1. /\ \E to \in {"hash", "sync"} : pc' = [pc EXCEPT !["main"] = to]
        /\ \E why \in Job : job' = [job EXCEPT !["main"] = why]
        /\ pc["main"] = "idle" /\ hand' = hand
    BY <1>8 DEF Tick, TakeResult, Goto, Job
  <2>2. ASSUME NEW o \in Goroutine
        PROVE  /\ pc'[o] \in Scanned <=> pc[o] \in Scanned
               /\ pc[o] \in Scanned => /\ job'[o] = job[o]
                                      /\ hand'[o].registry = hand[o].registry
    BY <1>t, <2>1 DEF TypeOK
  <2>3. host'.registry >= host.registry
    BY <1>8, <1>r DEF Tick, TakeResult
  <2>4. QED
    BY <1>8, <1>t, <1>r, <2>2, <2>3, ReflectedKept DEF Tick, TakeResult
<1>9. CASE SendHash \/ SyncIfRequested \/ Submit \/ NoInstall
  <2>1. /\ pc["main"] \in {"hash", "sync", "submit", "commands"}
        /\ \E to \in {"idle", "submit", "commands"} : pc' = [pc EXCEPT !["main"] = to]
    BY <1>9 DEF SendHash, SyncIfRequested, Submit, NoInstall, Move, Goto
  <2>2. \A o \in Goroutine : o # "main" => job'[o] = job[o] /\ hand'[o] = hand[o]
    BY <1>9, <1>t DEF SendHash, SyncIfRequested, Submit, NoInstall, Hold, TypeOK
  <2>3. ASSUME NEW o \in Goroutine
        PROVE  /\ pc'[o] \in Scanned <=> pc[o] \in Scanned
               /\ pc[o] \in Scanned => /\ job'[o] = job[o]
                                      /\ hand'[o].registry = hand[o].registry
    BY <1>t, <2>1, <2>2 DEF TypeOK
  <2>4. /\ host' = host /\ installed' = installed /\ wsActive' = wsActive
        /\ kick' = kick /\ last' = last
    <3>1. CASE SendHash
      BY <3>1 DEF SendHash
    <3>2. CASE SyncIfRequested
      BY <3>2 DEF SyncIfRequested
    <3>3. CASE Submit
      BY <3>3 DEF Submit
    <3>4. CASE NoInstall
      BY <3>4 DEF NoInstall
    <3>5. QED
      BY <1>9, <3>1, <3>2, <3>3, <3>4
  <2>5. host'.registry >= host.registry
    BY <1>r, <2>4
  <2>6. QED
    BY <1>t, <1>r, <2>3, <2>4, <2>5, ReflectedKept
<1>10. CASE Connected
  <2>1. kick' /\ pc' = pc /\ job' = job /\ host' = host /\ installed' = installed
    BY <1>10 DEF Connected
  <2>2. QED
    BY <2>1 DEF Reflected
<1>11. CASE Disconnected \/ SyncRequired \/ SenderStep
  <2>1. host'.registry >= host.registry
    BY <1>11, <1>r DEF Disconnected, SyncRequired, SenderStep, Build, Answered, HeartbeatFails
  <2>2. QED
    BY <1>11, <1>t, <1>r, <2>1, ReflectedKept
       DEF Disconnected, SyncRequired, SenderStep, Build, Answered, HeartbeatFails
<1>12. QED
    BY <1>1, <1>2, <1>3, <1>4, <1>5, <1>6, <1>7, <1>8, <1>9, <1>10, <1>11
       DEF Next, ScanStep, MainStep

\* Once no scan is under way and the main loop is not to be kicked, the inventory
\* has what an installation changed: no older scan hides it.
THEOREM InstallationSeen == Spec => []InstallationScanned
<1>1. Spec => []Sane
    BY SaneInit, SaneStep, PTL DEF Spec
<1>2. Spec => []Reflected
    BY <1>1, ReflectedInit, ReflectedStep, PTL DEF Spec
<1>3. Reflected => InstallationScanned
    BY DEF Reflected, InstallationScanned, Scanning, Scanned
<1>4. QED
    BY <1>2, <1>3, PTL
----------------------------------------------------------------------------
(* Nothing is made up *)

\* The host has, or has had, the software of a list.
Had(s) == s.registry <= host.registry /\ s.appx <= host.appx

\* What scans store and overwrite, the hashes that are sent and what the server is
\* sent in the end: each part of them comes from the host, also when the packages
\* come from the cache of the process, or from the file that outlives it
\* (ScanInstalledSoftware, setAppxCache, getAppxCache).
NothingInvented ==
  /\ Had(last) /\ Had(sent) /\ Had(beat) /\ Had(known)
  /\ \A g \in Goroutine : Had(hand[g])
  /\ cache <= host.appx /\ disk <= host.appx

\* Old lists stay old.
LEMMA HadStays ==
  ASSUME NEW s \in Software, Had(s), TypeOK, TypeOK',
         host'.registry >= host.registry, host'.appx >= host.appx
  PROVE  s.registry <= host'.registry /\ s.appx <= host'.appx
<1> DEFINE r == s.registry
           a == s.appx
           hr == host.registry
           ha == host.appx
           nr == host'.registry
           na == host'.appx
<1>1. /\ r \in Nat /\ a \in Nat /\ hr \in Nat /\ ha \in Nat /\ nr \in Nat /\ na \in Nat
      /\ r <= hr /\ a <= ha /\ nr >= hr /\ na >= ha
    BY BoundAssumption DEF TypeOK, Software, Version, Had
<1> HIDE DEF r, a, hr, ha, nr, na
<1>2. r <= nr /\ a <= na
    BY <1>1
<1>3. QED
    BY <1>2 DEF r, a, nr, na

LEMMA HostGrows == ASSUME TypeOK, [Next]_vars PROVE host'.registry >= host.registry /\ host'.appx >= host.appx
<1>0. host.registry \in Nat /\ host.appx \in Nat
    BY BoundAssumption DEF TypeOK, Version
<1>1. CASE HostChanges
    BY <1>0, <1>1 DEF HostChanges, NewRegistry, NewAppx
<1>2. ASSUME NEW g \in Goroutine, Install(g) PROVE host'.registry >= host.registry /\ host'.appx >= host.appx
    BY <1>0, <1>2 DEF Install, NewRegistry
<1>3. CASE ~ HostChanges /\ ~ \E g \in Goroutine : Install(g)
  <2>1. host' = host
    BY <1>3 DEF Next, TimePasses, CacheExpires, Restart, ScanStep, QueryAppx, StoreScan, TakeKick, Tick, TakeResult,
                MainStep, SendHash, SyncIfRequested, Submit, NoInstall, Connected, Disconnected, SyncRequired,
                SenderStep, Build, Answered, HeartbeatFails, vars
  <2>2. QED
    BY <1>0, <2>1
<1>4. QED
    BY <1>1, <1>2, <1>3

\* Where the lists of a step come from.
Kept == {last, sent, beat, known, None} \cup {hand[g] : g \in Goroutine}

\* A step that makes no list of its own only hands the lists on.
LEMMA OldLists ==
  ASSUME TypeOK, TypeOK', NothingInvented, [Next]_vars, NEW s \in Kept
  PROVE  Had(s) /\ s \in Software /\ s.registry <= host'.registry /\ s.appx <= host'.appx
<1>1. s \in Software /\ Had(s)
  <2>1. None \in Software /\ Had(None)
    BY NoneType, BoundAssumption DEF None, Had, TypeOK, Version
  <2>2. QED
    BY <2>1 DEF Kept, TypeOK, NothingInvented
<1>2. QED
    BY <1>1, HadStays, HostGrows

LEMMA NothingInventedStep == Sane /\ Sane' /\ NothingInvented /\ [Next]_vars => NothingInvented'
<1> SUFFICES ASSUME Sane, Sane', NothingInvented, [Next]_vars PROVE NothingInvented'
    OBVIOUS
<1>t. TypeOK /\ TypeOK'
    BY DEF Sane
<1>0. /\ host.registry \in Nat /\ host.appx \in Nat /\ host'.registry \in Nat /\ host'.appx \in Nat
      /\ cache \in Nat /\ disk \in Nat
    BY <1>t, BoundAssumption DEF TypeOK, Version
<1>h. host'.registry >= host.registry /\ host'.appx >= host.appx
    BY <1>t, HostGrows
<1>1. \A s \in Kept : s.registry <= host'.registry /\ s.appx <= host'.appx
    BY <1>t, OldLists
<1>2. cache <= host'.appx /\ disk <= host'.appx
    BY <1>0, <1>h DEF NothingInvented
<1>3. CASE \/ UNCHANGED vars \/ HostChanges \/ TimePasses \/ CacheExpires \/ Connected \/ Disconnected
           \/ SyncRequired \/ SenderStep \/ MainStep \/ \E g \in Goroutine : StoreScan(g)
  <2>1. cache' = cache /\ disk' = disk
    BY <1>3 DEF vars, HostChanges, TimePasses, CacheExpires, Connected, Disconnected, SyncRequired, SenderStep,
                Build, Answered, HeartbeatFails, MainStep, SendHash, SyncIfRequested, Submit, NoInstall, StoreScan
  <2>2. last' \in Kept /\ sent' \in Kept /\ beat' \in Kept /\ known' \in Kept
    BY <1>3 DEF vars, HostChanges, TimePasses, CacheExpires, Connected, Disconnected, SyncRequired, SenderStep,
                Build, Answered, HeartbeatFails, MainStep, SendHash, SyncIfRequested, Submit, NoInstall, StoreScan,
                Kept, Goroutine, NoBeat
  <2>3. \A g \in Goroutine : hand'[g] \in Kept
    BY <1>3, <1>t DEF vars, HostChanges, TimePasses, CacheExpires, Connected, Disconnected, SyncRequired, SenderStep,
                Build, Answered, HeartbeatFails, MainStep, SendHash, SyncIfRequested, Submit, NoInstall, StoreScan,
                Kept, Hold, TypeOK
  <2>4. QED
    BY <1>1, <1>2, <2>1, <2>2, <2>3 DEF NothingInvented, Had
<1>4. CASE Restart
  <2>1. /\ last' = None /\ sent' = None /\ beat' = None /\ known' = known /\ host' = host
        /\ cache' = 0 /\ disk' \in {0, disk}
    BY <1>4 DEF Restart, NoBeat
  <2>2. \A g \in Goroutine : hand'[g] \in {None, Registry}
    BY <1>4 DEF Restart, AtStart
  <2>3. QED
    BY <1>0, <1>1, <1>2, <2>1, <2>2 DEF NothingInvented, Had, Kept, None, Registry
<1>5. ASSUME NEW g \in Goroutine, QueryAppx(g) PROVE NothingInvented'
  <2>1. /\ last' = last /\ sent' = sent /\ beat' = beat /\ known' = known /\ host' = host
        /\ cache' <= host'.appx /\ disk' <= host'.appx
    BY <1>5, <1>0, <1>2 DEF QueryAppx
  <2>2. PICK a : a <= host'.appx /\ Hold(g, [registry |-> hand[g].registry, appx |-> a])
    BY <1>5, <1>0, <1>2, <2>1 DEF QueryAppx
  <2>3. \A o \in Goroutine : hand'[o].registry = hand[o].registry /\ hand'[o].appx \in {a, hand[o].appx}
    BY <1>t, <2>2 DEF Hold, TypeOK
  <2>4. \A o \in Goroutine : hand[o] \in Kept
    BY DEF Kept
  <2>5. QED
    BY <1>1, <2>1, <2>2, <2>3, <2>4 DEF NothingInvented, Had, Kept
<1>6. ASSUME NEW g \in Goroutine, Install(g) PROVE NothingInvented'
  <2>1. /\ last' = last /\ sent' = sent /\ beat' = beat /\ known' = known
        /\ cache' = cache /\ disk' = disk
    BY <1>6 DEF Install
  <2>2. \A o \in Goroutine : \/ hand'[o].registry = host'.registry /\ hand'[o].appx = 0
                             \/ hand'[o] \in Kept
    BY <1>6, <1>t DEF Install, Hold, TypeOK, Kept
  <2>3. QED
    BY <1>0, <1>1, <1>2, <2>1, <2>2 DEF NothingInvented, Had, Kept
<1>7. CASE TakeKick \/ Tick \/ TakeResult
  <2>1. /\ last' = last /\ sent' = sent /\ beat' = beat /\ known' = known
        /\ cache' = cache /\ disk' = disk /\ host' = host
    BY <1>7 DEF TakeKick, Tick, TakeResult
  <2>2. hand' = hand \/ Hold("main", Registry)
    BY <1>7 DEF TakeKick, Tick, TakeResult, Scan
  <2>3. \A o \in Goroutine : hand'[o] = Registry \/ hand'[o] \in Kept
    BY <1>t, <2>2 DEF Hold, TypeOK, Kept
  <2>4. QED
    BY <1>0, <1>1, <1>2, <2>1, <2>3 DEF NothingInvented, Had, Kept, Registry
<1>8. QED
    BY <1>3, <1>4, <1>5, <1>6, <1>7 DEF Next, ScanStep

\* The agent reports no software that the host has not had, whatever queries fail,
\* lists overwrite one another, and restarts tear the file of the cache.
THEOREM OnlyRealSoftware == Spec => []NothingInvented
<1>1. Spec => []Sane
    BY SaneInit, SaneStep, PTL DEF Spec
<1>2. Init => NothingInvented
    BY FileAssumption DEF Init, NothingInvented, Had, None, NoBeat, Registry, AtStart, Goroutine
<1>3. QED
    BY <1>1, <1>2, NothingInventedStep, PTL DEF Spec

=============================================================================
