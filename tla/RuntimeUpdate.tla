--------------------------- MODULE RuntimeUpdate ---------------------------
(***************************************************************************)
(* The programs that the service keeps up to date and running: the loop of *)
(* internal/runtimeupdate, which replaces appcenter-tray.exe and           *)
(* rshelper.exe while they may run, and the supervision of the tray        *)
(* program, which applyServerConfig does on the main loop (answers to      *)
(* heartbeats) and on the WebSocket goroutine (server.hello,               *)
(* config.patch).  The three goroutines share the tray process, the flag   *)
(* storeTrayEnabled and the files, and no lock.                            *)
(***************************************************************************)
EXTENDS Naturals

CONSTANTS
  MaxVersion,   \* bound: versions of a file that the server publishes
  MaxChanges,   \* bound: changes of store_tray_enabled
  MaxFaults     \* bound: failing calls, broken connections and ends of the service

ASSUME BoundAssumption == MaxVersion \in Nat \ {0} /\ MaxChanges \in Nat /\ MaxFaults \in Nat

File == {"tray", "helper"}
Applier == {"main", "ws"}
Goroutine == Applier \cup {"manager"}

VARIABLES           \* the server
  pub,      \* the version of each file in its directory
  policy,   \* store_tray_enabled
  changes

VARIABLES           \* the workstation
  dst, bak, tmp,  \* the files: what is in <name>, <name>.bak and <name>.download; 0 for no file
  image,    \* the file that the process of a program was started from; "none": it does not run
  session   \* a user is logged on

VARIABLES           \* the service
  enabled,  \* storeTrayEnabled
  base,     \* the manager has a BaseURL
  wsActive, \* the WebSocket is connected
  hello,    \* a configuration is on its way over it
  pc,       \* where the goroutines are
  hand,     \* the value of store_tray_enabled that is applied; FALSE between two configurations
  want,     \* the manifest that the manager goes by; 0: the file is not in it
  at,       \* the file it is at
  faults

server  == <<pub, policy, changes>>
files   == <<dst, bak, tmp>>
link    == <<wsActive, hello>>
manager == <<want, at>>
vars    == <<server, files, image, session, enabled, base, link, pc, hand, manager, faults>>

Version == 1..MaxVersion
Torn    == MaxVersion + 1      \* part of a file

Fault == faults < MaxFaults /\ faults' = faults + 1
Charge(c) == IF c THEN Fault ELSE UNCHANGED faults

Goto(g, to) == pc' = [pc EXCEPT ![g] = to]
Move(g, from, to) == pc[g] = from /\ Goto(g, to)

Set(f, x) == [f EXCEPT ![at] = x]

Init ==
  /\ pub = [f \in File |-> 1] /\ policy \in BOOLEAN /\ changes = 0
  /\ dst = [f \in File |-> 1] /\ bak = [f \in File |-> 0] /\ tmp = [f \in File |-> 0]
  /\ image = [f \in File |-> "none"] /\ session = FALSE
  /\ enabled = FALSE /\ base = FALSE /\ wsActive = FALSE /\ hello = FALSE
  /\ pc = [g \in Goroutine |-> "idle"] /\ hand = [g \in Applier |-> FALSE]
  /\ want = pub /\ at = "tray"
  /\ faults = 0

-----------------------------------------------------------------------------
(* The server and the user *)

Publish(f) ==
  /\ pub[f] < MaxVersion /\ pub' = [pub EXCEPT ![f] = @ + 1]
  /\ UNCHANGED <<policy, changes, files, image, session, enabled, base, link, pc, hand, manager, faults>>

\* A change is pushed to a connected agent.
SetPolicy ==
  /\ changes < MaxChanges /\ changes' = changes + 1
  /\ policy' = ~ policy /\ hello' = wsActive
  /\ UNCHANGED <<pub, files, image, session, enabled, base, wsActive, pc, hand, manager, faults>>

Runs(f) == dst[f] # 0 /\ image[f] = "none" /\ image' = [image EXCEPT ![f] = "dst"]

\* The installer has registered the tray program to start with every logon.
Logon ==
  /\ ~ session /\ session' = TRUE
  /\ Runs("tray") \/ UNCHANGED image
  /\ UNCHANGED <<server, files, enabled, base, link, pc, hand, manager, faults>>

Logoff ==
  /\ session /\ session' = FALSE
  /\ image' = [image EXCEPT !["tray"] = "none"]
  /\ UNCHANGED <<server, files, enabled, base, link, pc, hand, manager, faults>>

\* The user quits the tray program; a remote session starts and ends the helper.
Ends(f) == image[f] # "none" /\ image' = [image EXCEPT ![f] = "none"]

Programs ==
  /\ Ends("tray") \/ Ends("helper") \/ Runs("helper")
  /\ UNCHANGED <<server, files, session, enabled, base, link, pc, hand, manager, faults>>

Connect ==
  /\ ~ wsActive /\ wsActive' = TRUE /\ hello' = TRUE
  /\ UNCHANGED <<server, files, image, session, enabled, base, pc, hand, manager, faults>>

\* The read loop is done with what it has read.
Disconnect ==
  /\ wsActive /\ pc["ws"] = "idle" /\ Fault
  /\ wsActive' = FALSE /\ hello' = FALSE
  /\ UNCHANGED <<server, files, image, session, enabled, base, pc, hand, manager>>

\* The service ends and starts again; the programs of the user go on.
Restart ==
  /\ Fault
  /\ enabled' = FALSE /\ base' = FALSE /\ wsActive' = FALSE /\ hello' = FALSE
  /\ pc' = [g \in Goroutine |-> "idle"] /\ hand' = [g \in Applier |-> FALSE]
  /\ want' = pub /\ at' = "tray"
  /\ UNCHANGED <<server, files, image, session>>

-----------------------------------------------------------------------------
(* applyServerConfig and the tray supervisor *)

\* (mutant) The tray is started when the policy changes only.
ReceiveChange(g) ==
  /\ pc[g] = "idle"
  /\ \/ g = "main" /\ ~ wsActive /\ UNCHANGED hello
     \/ g = "ws" /\ hello /\ hello' = FALSE
  /\ hand' = [hand EXCEPT ![g] = policy]
  /\ Goto(g, IF policy = enabled THEN "store" ELSE IF policy THEN "ensure" ELSE "load")
  /\ UNCHANGED <<server, files, image, session, enabled, base, wsActive, manager, faults>>

\* An answer to a heartbeat, of which there are none while the WebSocket is
\* connected, or what came over the WebSocket.
Receive(g) ==
  /\ pc[g] = "idle"
  /\ \/ g = "main" /\ ~ wsActive /\ UNCHANGED hello
     \/ g = "ws" /\ hello /\ hello' = FALSE
  /\ hand' = [hand EXCEPT ![g] = policy]
  /\ Goto(g, IF policy THEN "ensure" ELSE "load")
  /\ UNCHANGED <<server, files, image, session, enabled, base, wsActive, manager, faults>>

\* storeTrayEnabled was set by an earlier configuration of this process.
LoadEnabled(g) ==
  /\ Move(g, "load", IF enabled THEN "stop" ELSE "store")
  /\ UNCHANGED <<server, files, image, session, enabled, base, link, hand, manager, faults>>

\* taskkill ends the tray or fails.
KillTray ==
  \/ image' = [image EXCEPT !["tray"] = "none"] /\ UNCHANGED faults
  \/ image["tray"] # "none" /\ Fault /\ UNCHANGED image

StopAll(g) ==
  /\ Move(g, "stop", "store") /\ g \in Applier /\ KillTray
  /\ UNCHANGED <<server, files, session, enabled, base, link, hand, manager>>

StoreEnabled(g) ==
  /\ Move(g, "store", "idle")
  /\ enabled' = hand[g] /\ base' = TRUE /\ hand' = [hand EXCEPT ![g] = FALSE]
  /\ UNCHANGED <<server, files, image, session, link, manager, faults>>

\* Where a goroutine is after ensureRunning.
AfterEnsure(g) == IF g = "manager" THEN "next" ELSE "store"

EnsureRunning(g) ==
  /\ Move(g, "ensure", IF dst["tray"] = 0 \/ image["tray"] # "none" THEN AfterEnsure(g) ELSE "start")
  /\ UNCHANGED <<server, files, image, session, enabled, base, link, hand, manager, faults>>

\* A second instance ends at once (ensureSingleInstance).
StartTray(g) ==
  /\ Move(g, "start", AfterEnsure(g))
  /\ \/ session /\ Runs("tray") /\ UNCHANGED faults
     \/ /\ Charge(session /\ dst["tray"] # 0 /\ image["tray"] = "none")
        /\ UNCHANGED image
  /\ UNCHANGED <<server, files, session, enabled, base, link, hand, manager>>

-----------------------------------------------------------------------------
(* The manager: syncOnce, and ensureFile for the one file and the other *)

Update(from, to) == Move("manager", from, to) /\ UNCHANGED <<server, session, enabled, base, link, hand>>

\* The interval is over or UpdateConfig wakes the loop.
SyncOnce ==
  /\ base /\ Update("idle", "check")
  /\ at' = "tray"
  /\ \E m \in {pub} \cup {[pub EXCEPT ![f] = 0] : f \in File} : want' = m /\ Charge(m # pub)
  /\ UNCHANGED <<files, image>>

NextFile ==
  /\ IF at = "tray" THEN Update("next", "check") /\ at' = "helper"
                    ELSE Update("next", "idle") /\ at' = "tray"
  /\ UNCHANGED <<files, image, want, faults>>

\* (mutant) A file that is there is taken for the right one.
CheckHashMissing ==
  /\ Update("check", IF want[at] = 0 \/ dst[at] # 0 THEN "next" ELSE "download")
  /\ UNCHANGED <<files, image, manager, faults>>

CheckHash ==
  /\ Update("check", IF want[at] \in {0, dst[at]} THEN "next" ELSE "download")
  /\ UNCHANGED <<files, image, manager, faults>>

\* Any failing call ends the round: it is made again after the interval.
SyncFails ==
  /\ Fault
  /\ \E from \in {"download", "copy", "verify"} :
       Update(from, "idle") /\ tmp' = IF from = "verify" THEN Set(tmp, 0) ELSE tmp
  /\ UNCHANGED <<dst, bak, image, manager>>

\* (mutant) The file is downloaded to its place.
DownloadInPlace ==
  /\ Update("download", "copy") /\ dst' = Set(dst, Torn)
  /\ UNCHANGED <<tmp, bak, image, manager, faults>>

Download ==
  /\ Update("download", "copy") /\ tmp' = Set(tmp, Torn)
  /\ UNCHANGED <<dst, bak, image, manager, faults>>

\* The file is that of the moment, which the manifest may not be any more.
Copy ==
  /\ Update("copy", "verify") /\ tmp' = Set(tmp, pub[at])
  /\ UNCHANGED <<dst, bak, image, manager, faults>>

Verified == tmp[at] = want[at]

VerifyHash ==
  /\ IF Verified THEN Update("verify", IF at = "tray" THEN "kill" ELSE "look") /\ UNCHANGED tmp
                 ELSE Update("verify", "idle") /\ tmp' = Set(tmp, 0)
  /\ UNCHANGED <<dst, bak, image, manager, faults>>

StopTrayProcess ==
  /\ Update("kill", "backup") /\ KillTray
  /\ UNCHANGED <<files, manager>>

\* isProcessRunningByImage: the helper of a session is left alone.
Defer ==
  /\ IF image["helper"] = "none" THEN Update("look", "backup") /\ UNCHANGED tmp
                                 ELSE Update("look", "next") /\ tmp' = Set(tmp, 0)
  /\ UNCHANGED <<dst, bak, image, manager, faults>>

\* A file that a process was started from can be renamed, not removed.
RemoveBackup ==
  /\ Update("backup", "away")
  /\ \/ image[at] # "bak" /\ bak' = Set(bak, 0) /\ UNCHANGED faults
     \/ Charge(image[at] # "bak") /\ UNCHANGED bak
  /\ UNCHANGED <<dst, tmp, image, manager>>

\* The process goes on from where its file is.
Follow(from, to) == image' = IF image[at] = from THEN Set(image, to) ELSE image

\* (mutant) The old file is removed, and not kept.
MoveAwayRemove ==
  /\ Update("away", "in")
  /\ dst' = Set(dst, IF image[at] = "dst" THEN dst[at] ELSE 0)
  /\ UNCHANGED <<bak, tmp, image, manager, faults>>

\* The old file is renamed; when that fails it is removed, if it can be.
MoveAway ==
  /\ Update("away", "in")
  /\ \/ dst[at] = 0 /\ UNCHANGED <<dst, bak, image, faults>>
     \/ /\ dst[at] # 0 /\ image[at] # "bak"
        /\ bak' = Set(bak, dst[at]) /\ dst' = Set(dst, 0) /\ Follow("dst", "bak") /\ UNCHANGED faults
     \/ /\ dst[at] # 0 /\ Charge(image[at] # "bak")
        /\ dst' = Set(dst, IF image[at] = "dst" THEN dst[at] ELSE 0) /\ UNCHANGED <<bak, image>>
  /\ UNCHANGED <<tmp, manager>>

\* The new file takes the place, or the backup comes back.
MoveIn ==
  /\ UNCHANGED manager
  /\ \/ /\ dst[at] = 0 \/ image[at] # "dst"
        /\ Update("in", IF at = "tray" THEN "updated" ELSE "next")
        /\ dst' = Set(dst, tmp[at]) /\ tmp' = Set(tmp, 0) /\ UNCHANGED <<bak, image, faults>>
     \/ /\ Update("in", "idle") /\ tmp' = Set(tmp, 0)
        /\ Charge(dst[at] = 0 \/ image[at] # "dst")
        /\ IF bak[at] # 0 /\ (dst[at] = 0 \/ image[at] # "dst")
             THEN dst' = Set(dst, bak[at]) /\ bak' = Set(bak, 0) /\ Follow("bak", "dst")
             ELSE UNCHANGED <<dst, bak, image>>

\* onTrayUp
TrayUpdated ==
  /\ Update("updated", IF enabled THEN "ensure" ELSE "next")
  /\ UNCHANGED <<files, image, manager, faults>>

-----------------------------------------------------------------------------
Apply(g) == Receive(g) \/ LoadEnabled(g) \/ StopAll(g) \/ StoreEnabled(g) \/ EnsureRunning(g) \/ StartTray(g)
Manage == \/ SyncOnce \/ NextFile \/ CheckHash \/ SyncFails \/ Download \/ Copy \/ VerifyHash
          \/ StopTrayProcess \/ Defer \/ RemoveBackup \/ MoveAway \/ MoveIn \/ TrayUpdated
          \/ EnsureRunning("manager") \/ StartTray("manager")
Environment == \/ SetPolicy \/ Logon \/ Logoff \/ Programs \/ Connect \/ Disconnect \/ Restart
               \/ \E f \in File : Publish(f)
Next == Environment \/ Manage \/ \E g \in Applier : Apply(g)

Spec == Init /\ [][Next]_vars
FairSpec == Spec /\ WF_vars(Manage) /\ \A g \in Applier : WF_vars(Apply(g))

-----------------------------------------------------------------------------
Whole == 0..MaxVersion

Label ==
  {"idle", "load", "stop", "store", "ensure", "start", "next", "check", "download", "copy", "verify",
   "kill", "look", "backup", "away", "in", "updated"}

\* No part of a file is ever installed or kept as a backup: dst and bak are whole.
TypeOK ==
  /\ pub \in [File -> Version] /\ policy \in BOOLEAN /\ changes \in 0..MaxChanges
  /\ dst \in [File -> Whole] /\ bak \in [File -> Whole] /\ tmp \in [File -> Whole \cup {Torn}]
  /\ image \in [File -> {"none", "dst", "bak"}] /\ session \in BOOLEAN
  /\ enabled \in BOOLEAN /\ base \in BOOLEAN /\ wsActive \in BOOLEAN /\ hello \in BOOLEAN
  /\ pc \in [Goroutine -> Label] /\ hand \in [Applier -> BOOLEAN]
  /\ want \in [File -> Whole] /\ at \in File
  /\ faults \in 0..MaxFaults

\* A program is never lost to a single failure: at every step, where the service
\* may end, it is installed, or there is its backup or its verified successor
\* (replaceFile).
NothingLost ==
  \A f \in File : faults < 2 /\ dst[f] = 0 => bak[f] # 0 \/ tmp[f] \in Version

\* What the server publishes is installed in the end, the helper between two
\* sessions (Start, ensureFile).
FilesUpdated == \A f \in File : []<>(dst[f] = pub[f] \/ (f = "helper" /\ image[f] # "none"))

\* README.md:140 and 142: without the WebSocket, a tray program that is wanted
\* comes back, however it was ended.
TrayKept == []<>(image["tray"] # "none" \/ ~ policy \/ ~ session \/ wsActive)

\* README.md:141: store_tray_enabled=false ends the tray program, again without
\* the WebSocket.
TrayEnded == []<>(image["tray"] = "none" \/ policy \/ wsActive)
=============================================================================
