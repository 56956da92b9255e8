----------------------------- MODULE Inventory -----------------------------
(***************************************************************************)
(* The software inventory: internal/inventory with its scanner and its    *)
(* Appx cache, the hash that the main loop of cmd/service/core.go sends    *)
(* over the WebSocket, the hash that the heartbeat carries, and the        *)
(* submission that the server asks for when it does not have the hash.     *)
(*                                                                         *)
(* Scans run outside the lock of the manager, on the main loop and, after  *)
(* an installation, on the WebSocket goroutine.  A version stands for a    *)
(* list of software, never an empty one in the registry, and a pair of     *)
(* versions for the hash of both lists.                                    *)
(***************************************************************************)
EXTENDS Naturals, Sequences

CONSTANTS
  AppxFile,     \* what is in the file of the Appx cache at first; 0 for none
  MaxChanges,   \* bound: changes of the host
  MaxFaults,    \* bound: failing queries and calls, cuts and restarts
  Capacity      \* of pollResults; 8 in the code

ASSUME FileAssumption == AppxFile \in {0, 1}
ASSUME BoundAssumption == MaxChanges \in Nat /\ MaxFaults \in Nat /\ Capacity \in Nat \ {0}

VARIABLES
  host,      \* the software in the registry and the Appx packages
  known      \* what the server has of them

VARIABLES           \* the Appx cache
  cache,     \* appxCache; 0 is an empty list
  disk,      \* appcenter_appx_cache.json; 0 when it is missing or torn
  fresh,     \* their last update is at most appxCacheMaxAge ago
  lapsed     \* history: there was no fresh snapshot at some time

VARIABLES           \* inventory.Manager, and the main loop and WebSocket goroutine in it
  last,      \* lastItems and lastHash
  due,       \* scanIntervalMin has passed since lastScanTime
  pc,        \* where "main" and "ws" are
  job,       \* what they scan for
  hand,      \* what they have scanned, or are to submit
  kick,      \* wsInventoryKickCh holds a token
  sent,      \* lastWSInventoryHashSent
  lately     \* it was sent less than wsInventoryHashInterval ago

VARIABLES           \* heartbeat.Sender
  wsActive,  \* the WebSocket is connected: no heartbeat without a trigger
  asks,      \* server.inventory.sync_required is on its way
  trigger,   \* triggerCh holds a token
  beat,      \* the heartbeat under way, or NoBeat
  results    \* inventory_sync_required of the answers in pollResults

VARIABLES
  installed, \* history: the registry as the last installation left it
  changes, faults

appx   == <<cache, disk, fresh, lapsed>>
scans  == <<last, due, pc, job, hand, kick, sent, lately>>
sender == <<wsActive, asks, trigger, beat, results>>
vars   == <<host, known, appx, scans, sender, installed, changes, faults>>

Goroutine == {"main", "ws"}
Version   == 0..(MaxChanges + 1)
Software  == [registry : Version, appx : Version]
None      == [registry |-> 0, appx |-> 0]
NoBeat    == None

\* runAgent has come past its first scan.
Started == job["main"] # "start"

Goto(g, to) == pc' = [pc EXCEPT ![g] = to]
Move(g, from, to) == pc[g] = from /\ Goto(g, to)
Hold(g, s) == hand' = [hand EXCEPT ![g] = s]

\* A scan begins with the registry; the Appx packages come after it.
Registry == [registry |-> host.registry, appx |-> 0]
NewRegistry == [registry |-> host.registry + 1, appx |-> host.appx]
NewAppx     == [registry |-> host.registry, appx |-> host.appx + 1]
Scan(g, why) == Goto(g, "query") /\ Hold(g, Registry) /\ job' = [job EXCEPT ![g] = why]
AtStart(g, what, other) == IF g = "main" THEN what ELSE other
Fault == faults < MaxFaults /\ faults' = faults + 1

Init ==
  /\ host = [registry |-> 1, appx |-> 1] /\ known = None
  /\ cache = 0 /\ disk = AppxFile /\ fresh = (disk # 0) /\ lapsed = (disk = 0)
  /\ last = None /\ due = TRUE
  /\ pc = [g \in Goroutine |-> AtStart(g, "query", "idle")]
  /\ job = [g \in Goroutine |-> AtStart(g, "start", "none")]
  /\ hand = [g \in Goroutine |-> AtStart(g, Registry, None)]
  /\ kick = FALSE /\ sent = None /\ lately = FALSE
  /\ wsActive = FALSE /\ asks = FALSE /\ trigger = FALSE /\ beat = NoBeat /\ results = <<>>
  /\ installed = 0 /\ changes = 0 /\ faults = 0

-----------------------------------------------------------------------------
(* The host and the clock *)

HostChanges ==
  /\ changes < MaxChanges
  /\ changes' = changes + 1
  /\ host' \in {NewRegistry, NewAppx}
  /\ UNCHANGED <<known, installed, appx, scans, sender, faults>>

\* The intervals of the scans and of the hash.
TimePasses ==
  /\ due' = TRUE /\ lately' = FALSE
  /\ UNCHANGED <<host, known, installed, appx, last, pc, job, hand, kick, sent, wsActive, asks, trigger, beat, results, changes, faults>>

\* Twelve hours in which no query has succeeded.
CacheExpires ==
  /\ fresh /\ Fault
  /\ fresh' = FALSE /\ lapsed' = TRUE
  /\ UNCHANGED <<host, known, installed, cache, disk, scans, sender, changes>>

\* The service starts again.  What it was writing to the file of the cache is
\* torn; what it scanned and sent is forgotten.
Restart ==
  /\ Fault
  /\ disk' \in {disk} \cup (IF \E g \in Goroutine : pc[g] = "query" THEN {0} ELSE {})
  /\ fresh' = (fresh /\ disk' # 0) /\ lapsed' = (lapsed \/ ~ fresh')
  /\ cache' = 0
  /\ last' = None /\ due' = TRUE
  /\ pc' = [g \in Goroutine |-> AtStart(g, "query", "idle")]
  /\ job' = [g \in Goroutine |-> AtStart(g, "start", "none")]
  /\ hand' = [g \in Goroutine |-> AtStart(g, Registry, None)]
  /\ kick' = FALSE /\ sent' = None /\ lately' = FALSE
  /\ wsActive' = FALSE /\ asks' = FALSE /\ trigger' = FALSE /\ beat' = NoBeat /\ results' = <<>>
  /\ UNCHANGED <<host, known, installed, changes>>

-----------------------------------------------------------------------------
(* A scan: ScanInstalledSoftware, then the result is stored under the lock *)

\* (mutant) Only what this process has queried is used.
QueryAppxUncached(g) ==
  /\ Move(g, "query", "store")
  /\ \/ /\ Hold(g, [registry |-> hand[g].registry, appx |-> host.appx])
        /\ cache' = host.appx /\ fresh' = TRUE
        /\ \/ disk' = host.appx /\ UNCHANGED faults
           \/ Fault /\ disk' = 0
     \/ /\ Fault
        /\ Hold(g, [registry |-> hand[g].registry, appx |-> IF fresh THEN cache ELSE 0])
        /\ UNCHANGED <<cache, disk, fresh>>
  /\ UNCHANGED <<host, known, installed, lapsed, last, due, job, kick, sent, lately, sender, changes>>

\* Get-AppxPackage answers: setAppxCache, which writes the file in place and
\* ignores an error.  Or it fails, times out, prints what is no list or an empty
\* one: getAppxCache, the cache of the process, else the file, if it is fresh.
QueryAppx(g) ==
  /\ Move(g, "query", "store")
  /\ \/ /\ Hold(g, [registry |-> hand[g].registry, appx |-> host.appx])
        /\ cache' = host.appx /\ fresh' = TRUE
        /\ \/ disk' = host.appx /\ UNCHANGED faults
           \/ Fault /\ disk' = 0
     \/ LET found == IF ~ fresh THEN 0 ELSE IF cache # 0 THEN cache ELSE disk
        IN /\ Fault
           /\ Hold(g, [registry |-> hand[g].registry, appx |-> found])
           /\ cache' = IF found # 0 THEN found ELSE cache
           /\ UNCHANGED <<disk, fresh>>
  /\ UNCHANGED <<host, known, installed, lapsed, last, due, job, kick, sent, lately, sender, changes>>

\* Where a goroutine goes when its scan is stored.
After(g) == CASE job[g] \in {"kick", "tick"} -> "hash"
              [] job[g] = "result"           -> "sync"
              [] OTHER                       -> "idle"

\* (mutant) The main loop is not kicked.
StoreScanQuietly(g) ==
  /\ Move(g, "store", After(g))
  /\ last' = hand[g] /\ due' = FALSE
  /\ Hold(g, None)
  /\ job' = [job EXCEPT ![g] = IF @ \in {"start", "install"} THEN "none" ELSE @]
  /\ UNCHANGED <<host, known, installed, appx, kick, sent, lately, sender, changes, faults>>

\* The scan is stored; after an installation the main loop is kicked, if there
\* is a WebSocket to tell the new hash on.
StoreScan(g) ==
  /\ Move(g, "store", After(g))
  /\ last' = hand[g] /\ due' = FALSE
  /\ Hold(g, None)
  /\ job' = [job EXCEPT ![g] = IF @ \in {"start", "install"} THEN "none" ELSE @]
  /\ kick' = (kick \/ (job[g] = "install" /\ wsActive))
  /\ UNCHANGED <<host, known, installed, appx, sent, lately, sender, changes, faults>>

\* executeFn after an installation that succeeded, on the main loop as the last
\* part of an answer, on the WebSocket goroutine at any time, under stateMu.
Install(g) ==
  /\ Started /\ pc[g] = (IF g = "main" THEN "commands" ELSE "idle")
  /\ \A o \in Goroutine : job[o] # "install"
  /\ changes < MaxChanges /\ changes' = changes + 1
  /\ host' = NewRegistry /\ installed' = host'.registry
  /\ Goto(g, "query") /\ job' = [job EXCEPT ![g] = "install"]
  /\ Hold(g, [registry |-> host'.registry, appx |-> 0])
  /\ UNCHANGED <<known, appx, last, due, kick, sent, lately, sender, faults>>

-----------------------------------------------------------------------------
(* The main loop *)

\* <-wsInventoryKickCh
TakeKick ==
  /\ pc["main"] = "idle" /\ kick
  /\ kick' = FALSE
  /\ IF wsActive THEN Scan("main", "kick") ELSE UNCHANGED <<pc, job, hand>>
  /\ UNCHANGED <<host, known, installed, appx, last, due, sent, lately, sender, changes, faults>>

\* <-wsInventoryTicker.C with ScanIfNeeded
Tick ==
  /\ pc["main"] = "idle" /\ wsActive
  /\ IF due THEN Scan("main", "tick")
            ELSE Goto("main", "hash") /\ UNCHANGED hand /\ job' = [job EXCEPT !["main"] = "poll"]
  /\ UNCHANGED <<host, known, installed, appx, last, due, kick, sent, lately, sender, changes, faults>>

\* (mutant) The hash is sent when it has changed only, and remembered also when
\* it could not be sent.
SendHashOnce ==
  /\ Move("main", "hash", "idle")
  /\ job' = [job EXCEPT !["main"] = "none"]
  /\ IF ~ wsActive \/ sent = last
       THEN UNCHANGED <<sent, lately, asks, faults>>
       ELSE /\ sent' = last /\ lately' = TRUE
            /\ \/ asks' = (asks \/ last # known) /\ UNCHANGED faults
               \/ Fault /\ UNCHANGED asks
  /\ UNCHANGED <<host, known, installed, appx, last, due, hand, kick, wsActive, trigger, beat, results, changes>>

\* sendWSInventoryHash, forced but for a tick without a scan; the server asks
\* for an inventory whose hash it does not have.
SendHash ==
  /\ Move("main", "hash", "idle")
  /\ job' = [job EXCEPT !["main"] = "none"]
  /\ IF ~ wsActive \/ (job["main"] = "poll" /\ sent = last /\ lately)
       THEN UNCHANGED <<sent, lately, asks, faults>>
       ELSE \/ /\ sent' = last /\ lately' = TRUE
               /\ asks' = (asks \/ last # known) /\ UNCHANGED faults
            \/ Fault /\ UNCHANGED <<sent, lately, asks>>
  /\ UNCHANGED <<host, known, installed, appx, last, due, hand, kick, wsActive, trigger, beat, results, changes>>

\* <-pollResults with ScanIfNeeded
TakeResult ==
  /\ pc["main"] = "idle" /\ results # <<>>
  /\ IF due THEN Scan("main", "result")
            ELSE Goto("main", "sync") /\ UNCHANGED hand /\ job' = [job EXCEPT !["main"] = "result"]
  /\ UNCHANGED <<host, known, installed, appx, last, due, kick, sent, lately, sender, changes, faults>>

\* SyncIfRequested copies the inventory, if the answer asked for it.
SyncIfRequested ==
  /\ pc["main"] = "sync"
  /\ results' = Tail(results)
  /\ IF Head(results) THEN Goto("main", "submit") /\ Hold("main", last)
                      ELSE Goto("main", "commands") /\ UNCHANGED hand
  /\ UNCHANGED <<host, known, installed, appx, last, due, job, kick, sent, lately, wsActive, asks, trigger, beat, changes, faults>>

\* submitFn
Submit ==
  /\ Move("main", "submit", "commands")
  /\ Hold("main", None)
  /\ \/ /\ known' = hand["main"]
        /\ UNCHANGED faults
     \/ Fault /\ UNCHANGED known
  /\ UNCHANGED <<host, installed, appx, last, due, job, kick, sent, lately, sender, changes>>

\* No command, or none that installs.
NoInstall ==
  /\ Move("main", "commands", "idle")
  /\ job' = [job EXCEPT !["main"] = "none"]
  /\ UNCHANGED <<host, known, installed, appx, last, due, hand, kick, sent, lately, sender, changes, faults>>

-----------------------------------------------------------------------------
(* The WebSocket goroutine *)

Connected ==
  /\ Started /\ pc["ws"] = "idle" /\ ~ wsActive
  /\ wsActive' = TRUE /\ kick' = TRUE
  /\ UNCHANGED <<host, known, installed, appx, last, due, pc, job, hand, sent, lately, asks, trigger, beat, results, changes, faults>>

Disconnected ==
  /\ pc["ws"] = "idle" /\ wsActive
  /\ wsActive' = FALSE /\ asks' = FALSE /\ trigger' = TRUE
  /\ UNCHANGED <<host, known, installed, appx, scans, beat, results, changes, faults>>

\* OnInventorySyncRequired
SyncRequired ==
  /\ pc["ws"] = "idle" /\ asks
  /\ asks' = FALSE /\ trigger' = TRUE
  /\ UNCHANGED <<host, known, installed, appx, scans, wsActive, beat, results, changes, faults>>

-----------------------------------------------------------------------------
(* The heartbeat sender *)

\* A heartbeat with the hash of the inventory is built, on a tick that is not
\* muted or for a trigger.
Build ==
  /\ Started /\ beat = NoBeat
  /\ trigger \/ ~ wsActive
  /\ trigger' = FALSE
  /\ beat' = last
  /\ UNCHANGED <<host, known, installed, appx, scans, wsActive, asks, results, changes, faults>>

\* (mutant) The channel grows.
AnsweredAll ==
  /\ beat # NoBeat /\ beat' = NoBeat
  /\ results' = Append(results, beat # known)
  /\ UNCHANGED <<host, known, installed, appx, scans, wsActive, asks, trigger, changes, faults>>

\* The server answers whether it lacks the inventory of that hash; an answer
\* that pollResults has no room for is dropped.
Answered ==
  /\ beat # NoBeat /\ beat' = NoBeat
  /\ results' = IF Len(results) < Capacity THEN Append(results, beat # known) ELSE results
  /\ UNCHANGED <<host, known, installed, appx, scans, wsActive, asks, trigger, changes, faults>>

HeartbeatFails ==
  /\ beat # NoBeat /\ beat' = NoBeat
  /\ Fault
  /\ UNCHANGED <<host, known, installed, appx, scans, wsActive, asks, trigger, results, changes>>

-----------------------------------------------------------------------------

ScanStep(g) == QueryAppx(g) \/ StoreScan(g)
MainStep    == SendHash \/ SyncIfRequested \/ Submit \/ NoInstall
SenderStep  == Build \/ Answered \/ HeartbeatFails

Next ==
  \/ HostChanges \/ TimePasses \/ CacheExpires \/ Restart
  \/ \E g \in Goroutine : ScanStep(g) \/ Install(g)
  \/ TakeKick \/ Tick \/ TakeResult \/ MainStep
  \/ Connected \/ Disconnected \/ SyncRequired
  \/ SenderStep

Spec == Init /\ [][Next]_vars

\* The goroutines run and time passes; the select of the main loop picks at
\* random among the channels that are ready, so that it passes over none of
\* them for ever.
Fairness ==
  /\ WF_vars(ScanStep("main") \/ MainStep \/ Tick)
  /\ SF_vars(TakeResult) /\ SF_vars(TakeKick)
  /\ WF_vars(ScanStep("ws") \/ SyncRequired)
  /\ WF_vars(SenderStep)
  /\ WF_vars(TimePasses)

FairSpec == Spec /\ Fairness

-----------------------------------------------------------------------------

Label == {"idle", "query", "store", "hash", "sync", "submit", "commands"}
Job   == {"none", "start", "install", "kick", "tick", "poll", "result"}

TypeOK ==
  /\ host \in [registry : Version \ {0}, appx : Version \ {0}]
  /\ known \in Software
  /\ cache \in Version /\ disk \in Version /\ fresh \in BOOLEAN /\ lapsed \in BOOLEAN
  /\ last \in Software /\ due \in BOOLEAN
  /\ pc \in [Goroutine -> Label] /\ job \in [Goroutine -> Job] /\ hand \in [Goroutine -> Software]
  /\ kick \in BOOLEAN /\ sent \in Software /\ lately \in BOOLEAN
  /\ wsActive \in BOOLEAN /\ asks \in BOOLEAN /\ trigger \in BOOLEAN
  /\ beat \in Software
  /\ results \in Seq(BOOLEAN) /\ Len(results) <= Capacity
  /\ installed \in Version /\ changes \in 0..MaxChanges /\ faults \in 0..MaxFaults

\* No false removal: as long as a list of Appx packages not older than twelve
\* hours was at hand at all times, in the process or in its file, neither the
\* inventory nor what the server was sent is without them, however the queries
\* fail and the service restarts.
NoFalseRemoval ==
  ~ lapsed => /\ last.registry # 0 => last.appx # 0
              /\ known.registry # 0 => known.appx # 0

\* core.go:148: the inventory has what an installation changed, also when a scan
\* that began before it ended after the scan that follows it: then the main loop
\* is still to be kicked, or scans.
InstallationScanned ==
  wsActive /\ ~ kick /\ (\A g \in Goroutine : pc[g] \notin {"query", "store"})
    => last.registry >= installed

\* The server learns what is installed, over scans that overwrite a newer one,
\* hashes, answers and submissions that are lost, and restarts.
InventoryKnown == []<>(known = host)
=============================================================================
