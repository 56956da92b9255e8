------------------------ MODULE RuntimeUpdateProofs ------------------------
(***************************************************************************)
(* The types of RuntimeUpdate, which say that only whole files are         *)
(* installed, and that no single failure loses a program or brings back an *)
(* older version of it.                                                    *)
(***************************************************************************)
EXTENDS RuntimeUpdate, TLAPS

LEMMA InitTypeOK == Init => TypeOK
  <1> SUFFICES ASSUME Init PROVE TypeOK OBVIOUS
  <1>1. 1 \in Version /\ 0 \in Whole /\ 1 \in Whole BY BoundAssumption DEF Version, Whole
  <1>2. [f \in File |-> 1] \in [File -> Version] /\ [f \in File |-> 1] \in [File -> Whole]
        /\ [f \in File |-> 0] \in [File -> Whole]
        /\ [f \in File |-> 0] \in [File -> Whole \cup {Torn}]
    BY <1>1
  <1>3. [g \in Goroutine |-> "idle"] \in [Goroutine -> Label] BY DEF Label
  <1>4. 0 \in 0..MaxChanges /\ 0 \in 0..MaxFaults BY BoundAssumption
  <1> QED BY <1>2, <1>3, <1>4 DEF Init, TypeOK, File

\* The labels of pc are names of their own.
LEMMA GotoType ==
  ASSUME TypeOK, NEW g \in Goroutine, NEW l \in Label, Goto(g, l)
  PROVE  pc' \in [Goroutine -> Label]
  BY DEF TypeOK, Goto

LEMMA ChargeType ==
  ASSUME TypeOK, NEW c \in BOOLEAN, Charge(c)
  PROVE  faults' \in 0..MaxFaults
  BY BoundAssumption DEF TypeOK, Charge, Fault

LEMMA SetType ==
  ASSUME at \in File, NEW h \in [File -> Whole], NEW x \in Whole
  PROVE  Set(h, x) \in [File -> Whole]
  BY DEF Set

LEMMA TmpType ==
  ASSUME TypeOK, NEW x, x \in Whole \/ x = Torn
  PROVE  Set(tmp, x) \in [File -> Whole \cup {Torn}]
  BY DEF Set, TypeOK

LEMMA KillType ==
  ASSUME TypeOK, KillTray
  PROVE  image' \in [File -> {"none", "dst", "bak"}] /\ faults' \in 0..MaxFaults
  BY BoundAssumption DEF TypeOK, KillTray, Fault, File

LEMMA RunsType ==
  ASSUME TypeOK, NEW f \in File, Runs(f) \/ Ends(f)
  PROVE  image' \in [File -> {"none", "dst", "bak"}]
  BY DEF TypeOK, Runs, Ends

LEMMA FollowType ==
  ASSUME TypeOK, NEW from, NEW to \in {"dst", "bak"}, Follow(from, to)
  PROVE  image' \in [File -> {"none", "dst", "bak"}]
  BY DEF TypeOK, Follow, Set

\* What a step of the manager leaves alone.
LEMMA UpdateType ==
  ASSUME TypeOK, NEW from, NEW to \in Label, Update(from, to)
  PROVE  /\ pub' \in [File -> Version] /\ policy' \in BOOLEAN /\ changes' \in 0..MaxChanges
         /\ session' \in BOOLEAN /\ enabled' \in BOOLEAN /\ base' \in BOOLEAN
         /\ wsActive' \in BOOLEAN /\ hello' \in BOOLEAN
         /\ hand' \in [Applier -> BOOLEAN] /\ pc' \in [Goroutine -> Label]
         /\ pc["manager"] = from /\ pc'["manager"] = to
  BY GotoType DEF TypeOK, Update, Move, Goto, server, link, Goroutine

-----------------------------------------------------------------------------
(* The inductive invariant *)

\* The file that the manager replaces is the one of its manifest, and once it is
\* verified so is what was downloaded.
FileVerified ==
  /\ pc["manager"] \in {"download", "copy", "verify", "kill", "look", "backup", "away", "in"} => want[at] # 0
  /\ pc["manager"] \in {"kill", "look", "backup", "away", "in"} => tmp[at] = want[at]

\* A process that was started from a backup keeps it.
BackupInUse == \A f \in File : image[f] = "bak" => bak[f] # 0

\* Without a failure a file is only missing between the two renames; after one it
\* may also be missing without a backup just before the second one.
Missing ==
  \A f \in File : dst[f] = 0 =>
    /\ faults = 0 => bak[f] # 0 /\ at = f /\ pc["manager"] = "in"
    /\ faults = 1 => bak[f] # 0 \/ (at = f /\ pc["manager"] \in {"away", "in"})

Inv == TypeOK /\ FileVerified /\ BackupInUse /\ Missing

LEMMA EnvironmentTypeOK == TypeOK /\ Environment => TypeOK'
  <1> SUFFICES ASSUME TypeOK, Environment PROVE TypeOK' OBVIOUS
  <1>1. CASE SetPolicy
    BY <1>1, BoundAssumption DEF SetPolicy, TypeOK, files, manager
  <1>2. CASE Logon
    <2>1. image' \in [File -> {"none", "dst", "bak"}] BY <1>2, RunsType DEF Logon, TypeOK, File
    <2> QED BY <1>2, <2>1 DEF Logon, TypeOK, server, files, link, manager
  <1>3. CASE Logoff
    BY <1>3 DEF Logoff, TypeOK, server, files, link, manager
  <1>4. CASE Programs
    <2>1. Ends("tray") \/ Ends("helper") \/ Runs("helper") BY <1>4 DEF Programs
    <2>2. "tray" \in File /\ "helper" \in File BY DEF File
    <2>3. image' \in [File -> {"none", "dst", "bak"}]
      <3>1. CASE Ends("tray") BY <2>2, <3>1, RunsType
      <3>2. CASE Ends("helper") BY <2>2, <3>2, RunsType
      <3>3. CASE Runs("helper") BY <2>2, <3>3, RunsType
      <3> QED BY <2>1, <3>1, <3>2, <3>3
    <2> QED BY <1>4, <2>3 DEF Programs, TypeOK, server, files, link, manager
  <1>5. CASE Connect BY <1>5 DEF Connect, TypeOK, server, files, manager
  <1>6. CASE Disconnect
    <2>1. faults' \in 0..MaxFaults BY <1>6, BoundAssumption DEF Disconnect, Fault, TypeOK
    <2> QED BY <1>6, <2>1 DEF Disconnect, TypeOK, server, files, manager
  <1>7. CASE Restart
    <2>1. faults' \in 0..MaxFaults BY <1>7, BoundAssumption DEF Restart, Fault, TypeOK
    <2>2. want' \in [File -> Whole] BY <1>7, BoundAssumption DEF Restart, TypeOK, Version, Whole
    <2> QED BY <1>7, <2>1, <2>2 DEF Restart, TypeOK, server, files, File, Label
  <1>8. ASSUME NEW f \in File, Publish(f) PROVE TypeOK'
    <2>1. pub[f] + 1 \in Version BY <1>8, BoundAssumption DEF Publish, TypeOK, Version
    <2> QED BY <1>8, <2>1 DEF Publish, TypeOK, files, link, manager
  <1> QED BY <1>1, <1>2, <1>3, <1>4, <1>5, <1>6, <1>7, <1>8 DEF Environment

LEMMA ApplyTypeOK == ASSUME TypeOK, NEW g \in Applier, Apply(g) PROVE TypeOK'
  <1> g \in Goroutine BY DEF Goroutine
  <1>1. CASE Receive(g)
    <2>1. pc' \in [Goroutine -> Label] BY <1>1, GotoType DEF Receive, Label
    <2> QED BY <1>1, <2>1 DEF Receive, TypeOK, server, files, manager
  <1>2. CASE LoadEnabled(g)
    <2>1. pc' \in [Goroutine -> Label] BY <1>2, GotoType DEF LoadEnabled, Move, Label
    <2> QED BY <1>2, <2>1 DEF LoadEnabled, TypeOK, server, files, link, manager
  <1>3. CASE StopAll(g)
    <2>1. pc' \in [Goroutine -> Label] BY <1>3, GotoType DEF StopAll, Move, Label
    <2> QED BY <1>3, <2>1, KillType DEF StopAll, TypeOK, server, files, link, manager
  <1>4. CASE StoreEnabled(g)
    <2>1. pc' \in [Goroutine -> Label] BY <1>4, GotoType DEF StoreEnabled, Move, Label
    <2> QED BY <1>4, <2>1 DEF StoreEnabled, TypeOK, server, files, link, manager
  <1>5. CASE EnsureRunning(g)
    <2>1. pc' \in [Goroutine -> Label] BY <1>5, GotoType DEF EnsureRunning, AfterEnsure, Move, Label
    <2> QED BY <1>5, <2>1 DEF EnsureRunning, TypeOK, server, files, link, manager
  <1>6. CASE StartTray(g)
    <2>1. pc' \in [Goroutine -> Label] BY <1>6, GotoType DEF StartTray, AfterEnsure, Move, Label
    <2>2. image' \in [File -> {"none", "dst", "bak"}] BY <1>6, RunsType DEF StartTray, TypeOK, File
    <2>3. faults' \in 0..MaxFaults BY <1>6, ChargeType DEF StartTray, TypeOK
    <2> QED BY <1>6, <2>1, <2>2, <2>3 DEF StartTray, TypeOK, server, files, link, manager
  <1> QED BY <1>1, <1>2, <1>3, <1>4, <1>5, <1>6 DEF Apply

LEMMA ManageTypeOK == TypeOK /\ FileVerified /\ Manage => TypeOK'
  <1> SUFFICES ASSUME TypeOK, FileVerified, Manage PROVE TypeOK' OBVIOUS
  <1> "manager" \in Goroutine BY DEF Goroutine
  <1> at \in File BY DEF TypeOK
  <1> dst \in [File -> Whole] /\ bak \in [File -> Whole] BY DEF TypeOK
  <1>1. CASE SyncOnce
    <2>1. PICK m \in {pub} \cup {[pub EXCEPT ![f] = 0] : f \in File} : want' = m /\ Charge(m # pub)
      BY <1>1 DEF SyncOnce
    <2>2. pub \in [File -> Whole] /\ 0 \in Whole BY BoundAssumption DEF TypeOK, Version, Whole
    <2>4. want' \in [File -> Whole] BY <2>1, <2>2
    <2>3. faults' \in 0..MaxFaults BY <2>1, ChargeType
    <2> QED BY <1>1, <2>3, <2>4, UpdateType DEF SyncOnce, TypeOK, files, File, Label
  <1>2. CASE NextFile
    BY <1>2, UpdateType DEF NextFile, TypeOK, files, File, Label
  <1>3. CASE CheckHash
    BY <1>3, UpdateType DEF CheckHash, TypeOK, files, manager, Label
  <1>4. CASE SyncFails
    <2>3. 0 \in Whole BY BoundAssumption DEF Whole
    <2>1. tmp' \in [File -> Whole \cup {Torn}] BY <1>4, <2>3, TmpType DEF SyncFails, TypeOK
    <2>2. faults' \in 0..MaxFaults BY <1>4, BoundAssumption DEF SyncFails, Fault, TypeOK
    <2> QED BY <1>4, <2>1, <2>2, UpdateType DEF SyncFails, TypeOK, manager, Label
  <1>5. CASE Download
    <2>1. tmp' \in [File -> Whole \cup {Torn}] BY <1>5, TmpType DEF Download, TypeOK
    <2> QED BY <1>5, <2>1, UpdateType DEF Download, TypeOK, manager, Label
  <1>6. CASE Copy
    <2>1. pub[at] \in Whole BY BoundAssumption DEF TypeOK, Version, Whole
    <2>2. tmp' \in [File -> Whole \cup {Torn}] BY <1>6, <2>1, TmpType DEF Copy, TypeOK
    <2> QED BY <1>6, <2>2, UpdateType DEF Copy, TypeOK, manager, Label
  <1>7. CASE VerifyHash
    <2>1. 0 \in Whole BY BoundAssumption DEF Whole
    <2>2. tmp' \in [File -> Whole \cup {Torn}] BY <1>7, <2>1, TmpType DEF VerifyHash, TypeOK
    <2> QED BY <1>7, <2>2, UpdateType DEF VerifyHash, TypeOK, manager, Label
  <1>8. CASE StopTrayProcess
    BY <1>8, KillType, UpdateType DEF StopTrayProcess, TypeOK, files, manager, Label
  <1>9. CASE Defer
    <2>1. 0 \in Whole BY BoundAssumption DEF Whole
    <2>2. tmp' \in [File -> Whole \cup {Torn}] BY <1>9, <2>1, TmpType DEF Defer, TypeOK
    <2> QED BY <1>9, <2>2, UpdateType DEF Defer, TypeOK, manager, Label
  <1>10. CASE RemoveBackup
    <2>1. 0 \in Whole BY BoundAssumption DEF Whole
    <2>2. bak' \in [File -> Whole] BY <1>10, <2>1, SetType DEF RemoveBackup, TypeOK
    <2>3. faults' \in 0..MaxFaults BY <1>10, ChargeType DEF RemoveBackup, TypeOK
    <2> QED BY <1>10, <2>2, <2>3, UpdateType DEF RemoveBackup, TypeOK, manager, Label
  <1>11. CASE MoveAway
    <2>1. 0 \in Whole /\ dst[at] \in Whole BY BoundAssumption DEF TypeOK, Whole
    <2>6. dst' = dst \/ dst' = Set(dst, 0) \/ dst' = Set(dst, dst[at]) BY <1>11 DEF MoveAway
    <2>2. dst' \in [File -> Whole] BY <2>1, <2>6, SetType
    <2>9. bak' = bak \/ bak' = Set(bak, dst[at]) BY <1>11 DEF MoveAway
    <2>3. bak' \in [File -> Whole] BY <2>1, <2>9, SetType
    <2>7. image' = image \/ Follow("dst", "bak") BY <1>11 DEF MoveAway
    <2>4. image' \in [File -> {"none", "dst", "bak"}] BY <2>7, FollowType DEF TypeOK
    <2>8. faults' = faults \/ Charge(image[at] # "bak") BY <1>11 DEF MoveAway
    <2>5. faults' \in 0..MaxFaults BY <2>8, ChargeType DEF TypeOK
    <2> QED BY <1>11, <2>2, <2>3, <2>4, <2>5, UpdateType DEF MoveAway, TypeOK, manager, Label
  <1>12. CASE MoveIn
    <2>1. 0 \in Whole /\ tmp[at] \in Whole /\ bak[at] \in Whole
      BY <1>12, BoundAssumption DEF MoveIn, Update, Move, FileVerified, TypeOK, Whole
    <2>2. dst' = dst \/ dst' = Set(dst, tmp[at]) \/ dst' = Set(dst, bak[at]) BY <1>12 DEF MoveIn
    <2>3. dst' \in [File -> Whole] BY <2>1, <2>2, SetType
    <2>12. bak' = bak \/ bak' = Set(bak, 0) BY <1>12 DEF MoveIn
    <2>13. Set(bak, 0) \in [File -> Whole] BY <2>1, SetType
    <2>4. bak' \in [File -> Whole] BY <2>12, <2>13
    <2>5. tmp' \in [File -> Whole \cup {Torn}] BY <1>12, <2>1, TmpType DEF MoveIn
    <2>10. image' = image \/ Follow("bak", "dst") BY <1>12 DEF MoveIn
    <2>6. image' \in [File -> {"none", "dst", "bak"}] BY <2>10, FollowType DEF TypeOK
    <2>11. faults' = faults \/ Charge(dst[at] = 0 \/ image[at] # "dst") BY <1>12 DEF MoveIn
    <2>7. faults' \in 0..MaxFaults BY <2>11, ChargeType DEF TypeOK
    <2> QED BY <1>12, <2>3, <2>4, <2>5, <2>6, <2>7, UpdateType DEF MoveIn, TypeOK, manager, Label
  <1>13. CASE TrayUpdated
    BY <1>13, UpdateType DEF TrayUpdated, TypeOK, files, manager, Label
  <1>14. CASE EnsureRunning("manager")
    <2>1. pc' \in [Goroutine -> Label] BY <1>14, GotoType DEF EnsureRunning, AfterEnsure, Move, Label
    <2> QED BY <1>14, <2>1 DEF EnsureRunning, TypeOK, server, files, link, manager
  <1>15. CASE StartTray("manager")
    <2>1. pc' \in [Goroutine -> Label] BY <1>15, GotoType DEF StartTray, AfterEnsure, Move, Label
    <2>2. image' \in [File -> {"none", "dst", "bak"}] BY <1>15, RunsType DEF StartTray, TypeOK, File
    <2>3. faults' \in 0..MaxFaults BY <1>15, ChargeType DEF StartTray, TypeOK
    <2> QED BY <1>15, <2>1, <2>2, <2>3 DEF StartTray, TypeOK, server, files, link, manager
  <1> QED BY <1>1, <1>2, <1>3, <1>4, <1>5, <1>6, <1>7, <1>8, <1>9, <1>10, <1>11, <1>12, <1>13, <1>14, <1>15 DEF Manage

\* What is installed and kept as a backup is whole, whatever fails and wherever
\* the service ends (downloadToFile, ensureFile, replaceFile).
LEMMA NextTypeOK == TypeOK /\ FileVerified /\ [Next]_vars => TypeOK'
  <1> SUFFICES ASSUME TypeOK, FileVerified, [Next]_vars PROVE TypeOK' OBVIOUS
  <1>1. CASE UNCHANGED vars BY <1>1 DEF vars, server, files, link, manager, TypeOK
  <1> QED BY <1>1, EnvironmentTypeOK, ApplyTypeOK, ManageTypeOK DEF Next

-----------------------------------------------------------------------------
\* Every step is one of these: of the manager on its files, or one that leaves
\* the manager and the files alone but for the programs.
Elsewhere ==
  /\ UNCHANGED <<files, manager>> /\ pc'["manager"] = pc["manager"]
  /\ faults' \in {faults, faults + 1}
  /\ \A f \in File : image'[f] = "bak" => image[f] = "bak"

LEMMA ApplyElsewhere == ASSUME TypeOK, NEW g \in Applier, Apply(g) PROVE Elsewhere
  <1>1. g # "manager" /\ g \in Goroutine BY DEF Applier, Goroutine
  <1>2. UNCHANGED <<files, manager>>
    BY DEF Apply, Receive, LoadEnabled, StopAll, StoreEnabled, EnsureRunning, StartTray, files, manager
  <1>3. pc'["manager"] = pc["manager"]
    BY <1>1 DEF Apply, Receive, LoadEnabled, StopAll, StoreEnabled, EnsureRunning, StartTray, Move, Goto,
                TypeOK, Goroutine
  <1>4. faults' \in {faults, faults + 1}
    BY DEF Apply, Receive, LoadEnabled, StopAll, StoreEnabled, EnsureRunning, StartTray, KillTray, Charge, Fault
  <1>5. \A f \in File : image'[f] = "bak" => image[f] = "bak"
    BY DEF Apply, Receive, LoadEnabled, StopAll, StoreEnabled, EnsureRunning, StartTray, KillTray, Runs, TypeOK
  <1> QED BY <1>2, <1>3, <1>4, <1>5 DEF Elsewhere

LEMMA ElsewhereKeeps ==
  ASSUME TypeOK, FileVerified, BackupInUse, Missing, Elsewhere
  PROVE  FileVerified' /\ BackupInUse' /\ Missing'
  <1>1. FileVerified' BY DEF FileVerified, Elsewhere, files, manager
  <1>2. BackupInUse' BY DEF BackupInUse, Elsewhere, files, manager
  <1>3. Missing' BY BoundAssumption DEF Missing, Elsewhere, files, manager, TypeOK
  <1> QED BY <1>1, <1>2, <1>3

LEMMA EnvironmentKeeps ==
  ASSUME TypeOK, FileVerified, BackupInUse, Missing, Environment
  PROVE  FileVerified' /\ BackupInUse' /\ Missing'
  <1>1. CASE Restart
    <2>1. UNCHANGED files /\ UNCHANGED image /\ faults' = faults + 1 /\ pc'["manager"] = "idle"
      BY <1>1 DEF Restart, Fault, Goroutine
    <2>2. FileVerified' BY <2>1 DEF FileVerified
    <2>3. BackupInUse' BY <2>1 DEF BackupInUse, files
    <2>4. Missing' BY <2>1, BoundAssumption DEF Missing, files, TypeOK
    <2> QED BY <2>2, <2>3, <2>4
  <1>2. CASE ~ Restart
    <2>1. UNCHANGED <<files, manager>> /\ UNCHANGED pc
      BY <1>2 DEF Environment, SetPolicy, Logon, Logoff, Programs, Connect, Disconnect, Publish, files, manager
    <2>2. faults' \in {faults, faults + 1}
      BY <1>2 DEF Environment, SetPolicy, Logon, Logoff, Programs, Connect, Disconnect, Publish, Fault
    <2>3. \A f \in File : image'[f] = "bak" => image[f] = "bak"
      BY <1>2 DEF Environment, SetPolicy, Logon, Logoff, Programs, Connect, Disconnect, Publish, Runs, Ends, TypeOK
    <2> QED BY <2>1, <2>2, <2>3, ElsewhereKeeps DEF Elsewhere
  <1> QED BY <1>1, <1>2

\* Steps of the manager before and after the renames.
LEMMA QuietKeeps ==
  ASSUME TypeOK, BackupInUse, Missing, dst' = dst, bak' = bak,
         pc["manager"] \notin {"away", "in"}, faults' \in {faults, faults + 1},
         \A f \in File : image'[f] = "bak" => image[f] = "bak"
  PROVE  BackupInUse' /\ Missing'
  <1>1. BackupInUse' BY DEF BackupInUse
  <1>2. Missing' BY BoundAssumption DEF Missing, TypeOK
  <1> QED BY <1>1, <1>2

LEMMA ManageVerified == ASSUME TypeOK, FileVerified, Manage PROVE FileVerified'
  <1> "manager" \in Goroutine /\ at \in File BY DEF Goroutine, TypeOK
  <1>1. CASE SyncOnce BY <1>1 DEF SyncOnce, Update, Move, Goto, TypeOK, FileVerified
  <1>2. CASE NextFile BY <1>2 DEF NextFile, Update, Move, Goto, TypeOK, FileVerified
  <1>3. CASE CheckHash BY <1>3 DEF CheckHash, Update, Move, Goto, TypeOK, FileVerified, manager
  <1>4. CASE SyncFails BY <1>4 DEF SyncFails, Update, Move, Goto, TypeOK, FileVerified
  <1>5. CASE Download BY <1>5 DEF Download, Update, Move, Goto, TypeOK, FileVerified, manager
  <1>6. CASE Copy BY <1>6 DEF Copy, Update, Move, Goto, TypeOK, FileVerified, manager
  <1>7. CASE VerifyHash BY <1>7 DEF VerifyHash, Verified, Update, Move, Goto, TypeOK, FileVerified, manager
  <1>8. CASE StopTrayProcess
    BY <1>8 DEF StopTrayProcess, Update, Move, Goto, TypeOK, FileVerified, manager, files
  <1>9. CASE Defer BY <1>9 DEF Defer, Update, Move, Goto, TypeOK, FileVerified, manager
  <1>10. CASE RemoveBackup BY <1>10 DEF RemoveBackup, Update, Move, Goto, TypeOK, FileVerified, manager
  <1>11. CASE MoveAway BY <1>11 DEF MoveAway, Update, Move, Goto, TypeOK, FileVerified, manager
  <1>12. CASE MoveIn BY <1>12 DEF MoveIn, Update, Move, Goto, TypeOK, FileVerified, manager
  <1>13. CASE TrayUpdated
    BY <1>13 DEF TrayUpdated, Update, Move, Goto, TypeOK, FileVerified, manager, files
  <1>14. CASE EnsureRunning("manager")
    BY <1>14 DEF EnsureRunning, AfterEnsure, Move, Goto, TypeOK, FileVerified, manager, files
  <1>15. CASE StartTray("manager")
    BY <1>15 DEF StartTray, AfterEnsure, Move, Goto, TypeOK, FileVerified, manager, files
  <1> QED BY <1>1, <1>2, <1>3, <1>4, <1>5, <1>6, <1>7, <1>8, <1>9, <1>10, <1>11, <1>12, <1>13, <1>14, <1>15 DEF Manage

LEMMA ManageKeeps ==
  ASSUME TypeOK, FileVerified, BackupInUse, Missing, Manage
  PROVE  BackupInUse' /\ Missing'
  <1> "manager" \in Goroutine /\ at \in File BY DEF Goroutine, TypeOK
  <1> dst \in [File -> Whole] /\ bak \in [File -> Whole] BY DEF TypeOK
  <1>1. CASE RemoveBackup
    <2>1. /\ pc["manager"] = "backup" /\ pc'["manager"] = "away" /\ at' = at /\ dst' = dst /\ image' = image
          /\ faults' \in {faults, faults + 1}
      BY <1>1 DEF RemoveBackup, Update, Move, Goto, TypeOK, manager, Charge, Fault
    <2>2. \/ image[at] # "bak" /\ \A f \in File : f # at => bak'[f] = bak[f]
          \/ bak' = bak
      BY <1>1 DEF RemoveBackup, Set
    <2>3. BackupInUse' BY <2>1, <2>2 DEF BackupInUse
    <2>4. Missing' BY <2>1, <2>2, BoundAssumption DEF Missing, TypeOK
    <2> QED BY <2>3, <2>4
  <1>2. CASE MoveAway
    <2>1. /\ pc["manager"] = "away" /\ pc'["manager"] = "in" /\ at' = at
          /\ faults' \in {faults, faults + 1}
      BY <1>2 DEF MoveAway, Update, Move, Goto, TypeOK, manager, Charge, Fault
    <2>2. CASE dst[at] = 0 /\ UNCHANGED <<dst, bak, image, faults>>
      BY <2>1, <2>2, BoundAssumption DEF BackupInUse, Missing, TypeOK
    <2>3. CASE /\ dst[at] # 0 /\ image[at] # "bak"
               /\ bak' = Set(bak, dst[at]) /\ dst' = Set(dst, 0) /\ Follow("dst", "bak") /\ UNCHANGED faults
      <3>1. bak'[at] = dst[at] /\ \A f \in File : f # at => bak'[f] = bak[f] /\ dst'[f] = dst[f]
        BY <2>3 DEF Set
      <3>2. \A f \in File : f # at => image'[f] = image[f]
        BY <2>3 DEF Follow, Set, TypeOK
      <3>3. BackupInUse' BY <2>3, <3>1, <3>2 DEF BackupInUse
      <3>4. Missing' BY <2>1, <2>3, <3>1, BoundAssumption DEF Missing, TypeOK
      <3> QED BY <3>3, <3>4
    <2>4. CASE /\ dst[at] # 0 /\ Charge(image[at] # "bak")
               /\ dst' = Set(dst, IF image[at] = "dst" THEN dst[at] ELSE 0) /\ UNCHANGED <<bak, image>>
      <3>1. BackupInUse' BY <2>4 DEF BackupInUse
      <3>2. \A f \in File : f # at => dst'[f] = dst[f] BY <2>4 DEF Set
      <3>3. faults' = faults + 1 \/ (image[at] = "bak" /\ faults' = faults)
        BY <2>4 DEF Charge, Fault
      <3>4. Missing' BY <2>1, <2>4, <3>2, <3>3, BoundAssumption DEF Missing, BackupInUse, TypeOK
      <3> QED BY <3>1, <3>4
    <2> QED BY <1>2, <2>2, <2>3, <2>4 DEF MoveAway
  <1>3. CASE MoveIn
    <2>1. pc["manager"] = "in" /\ at' = at /\ tmp[at] = want[at] /\ want[at] # 0
      BY <1>3 DEF MoveIn, Update, Move, manager, FileVerified
    <2>2. CASE dst' = Set(dst, tmp[at]) /\ UNCHANGED <<bak, image, faults>>
      <3>1. dst'[at] # 0 /\ \A f \in File : f # at => dst'[f] = dst[f] BY <2>1, <2>2 DEF Set
      <3>2. BackupInUse' BY <2>2 DEF BackupInUse
      <3>3. Missing' BY <2>1, <2>2, <3>1, BoundAssumption DEF Missing, TypeOK
      <3> QED BY <3>2, <3>3
    <2>3. CASE /\ Charge(dst[at] = 0 \/ image[at] # "dst")
               /\ IF bak[at] # 0 /\ (dst[at] = 0 \/ image[at] # "dst")
                    THEN dst' = Set(dst, bak[at]) /\ bak' = Set(bak, 0) /\ Follow("bak", "dst")
                    ELSE UNCHANGED <<dst, bak, image>>
      <3>1. faults' = faults + 1 \/ (dst[at] # 0 /\ image[at] = "dst" /\ faults' = faults)
        BY <2>3 DEF Charge, Fault
      <3>2. CASE bak[at] # 0 /\ (dst[at] = 0 \/ image[at] # "dst")
        <4>1. dst'[at] # 0 /\ \A f \in File : f # at => dst'[f] = dst[f] /\ bak'[f] = bak[f]
          BY <2>3, <3>2 DEF Set
        <4>2. image'[at] # "bak" /\ \A f \in File : f # at => image'[f] = image[f]
          BY <2>3, <3>2 DEF Follow, Set, TypeOK
        <4>3. BackupInUse' BY <4>1, <4>2 DEF BackupInUse
        <4>4. Missing' BY <2>1, <3>1, <3>2, <4>1, BoundAssumption DEF Missing, TypeOK
        <4> QED BY <4>3, <4>4
      <3>3. CASE ~ (bak[at] # 0 /\ (dst[at] = 0 \/ image[at] # "dst"))
        <4>1. UNCHANGED <<dst, bak, image>> BY <2>3, <3>3
        <4>2. BackupInUse' BY <4>1 DEF BackupInUse
        <4>3. Missing' BY <2>1, <3>1, <4>1, BoundAssumption DEF Missing, TypeOK
        <4> QED BY <4>2, <4>3
      <3> QED BY <3>2, <3>3
    <2> QED BY <1>3, <2>2, <2>3 DEF MoveIn
  <1>4. CASE ~ (RemoveBackup \/ MoveAway \/ MoveIn)
    <2>1. dst' = dst /\ bak' = bak
      BY <1>4 DEF Manage, SyncOnce, NextFile, CheckHash, SyncFails, Download, Copy, VerifyHash, StopTrayProcess,
                  Defer, TrayUpdated, EnsureRunning, StartTray, files
    <2>2. pc["manager"] \notin {"away", "in"}
      BY <1>4 DEF Manage, SyncOnce, NextFile, CheckHash, SyncFails, Download, Copy, VerifyHash, StopTrayProcess,
                  Defer, TrayUpdated, EnsureRunning, StartTray, Update, Move
    <2>3. faults' \in {faults, faults + 1}
      BY <1>4 DEF Manage, SyncOnce, NextFile, CheckHash, SyncFails, Download, Copy, VerifyHash, StopTrayProcess,
                  Defer, TrayUpdated, EnsureRunning, StartTray, KillTray, Charge, Fault
    <2>4. \A f \in File : image'[f] = "bak" => image[f] = "bak"
      BY <1>4 DEF Manage, SyncOnce, NextFile, CheckHash, SyncFails, Download, Copy, VerifyHash, StopTrayProcess,
                  Defer, TrayUpdated, EnsureRunning, StartTray, KillTray, Runs, TypeOK
    <2> QED BY <2>1, <2>2, <2>3, <2>4, QuietKeeps
  <1> QED BY <1>1, <1>2, <1>3, <1>4

\* The inductive invariant of the programs that are kept up to date.
THEOREM Inductive == Spec => []Inv
  <1>1. Init => Inv
    <2> SUFFICES ASSUME Init PROVE Inv OBVIOUS
    <2>1. TypeOK BY InitTypeOK
    <2>2. FileVerified /\ BackupInUse /\ Missing BY DEF Init, FileVerified, BackupInUse, Missing, Goroutine
    <2> QED BY <2>1, <2>2 DEF Inv
  <1>2. Inv /\ [Next]_vars => Inv'
    <2> SUFFICES ASSUME Inv, [Next]_vars PROVE Inv' OBVIOUS
    <2>1. TypeOK /\ FileVerified /\ BackupInUse /\ Missing BY DEF Inv
    <2>2. TypeOK' BY <2>1, NextTypeOK
    <2>3. CASE Environment BY <2>1, <2>2, <2>3, EnvironmentKeeps DEF Inv
    <2>4. CASE Manage BY <2>1, <2>2, <2>4, ManageVerified, ManageKeeps DEF Inv
    <2>5. ASSUME NEW g \in Applier, Apply(g) PROVE Inv'
      BY <2>1, <2>2, <2>5, ApplyElsewhere, ElsewhereKeeps DEF Inv
    <2>6. CASE UNCHANGED vars
      BY <2>1, <2>2, <2>6, ElsewhereKeeps DEF Elsewhere, vars, Inv
    <2> QED BY <2>3, <2>4, <2>5, <2>6 DEF Next
  <1> QED BY <1>1, <1>2, PTL DEF Spec

\* What is installed and what is kept as a backup is always a whole file
\* (downloadToFile, ensureFile, replaceFile).
THEOREM TypeCorrect == Spec => []TypeOK
  <1>1. Inv => TypeOK BY DEF Inv
  <1> QED BY <1>1, Inductive, PTL

\* No single failure, wherever it comes, leaves the tray program or the helper
\* neither installed nor backed up nor verified to be installed: with any number
\* of versions, changes and connections (replaceFile).
THEOREM OneFailureLosesNothing == Spec => []NothingLost
  <1>1. Inv => NothingLost
    <2> SUFFICES ASSUME Inv, NEW f \in File, faults < 2, dst[f] = 0, bak[f] = 0
                 PROVE  tmp[f] \in Version
      BY DEF NothingLost
    <2>1. faults = 0 \/ faults = 1 BY BoundAssumption DEF Inv, TypeOK
    <2>2. at = f /\ pc["manager"] \in {"away", "in"} BY <2>1 DEF Inv, Missing
    <2>3. tmp[f] = want[f] /\ want[f] # 0 BY <2>2 DEF Inv, FileVerified
    <2>4. want[f] \in Whole BY DEF Inv, TypeOK
    <2> QED BY <2>3, <2>4, BoundAssumption DEF Whole, Version
  <1> QED BY <1>1, Inductive, PTL
-----------------------------------------------------------------------------
(* The versions only go up *)

\* What the workstation has of a file: what is installed, or what a start of the
\* service or the next step of the manager makes of it.
Floor(f) == IF dst[f] # 0 THEN dst[f]
            ELSE IF faults > 0 /\ at = f /\ pc["manager"] \in {"away", "in"} THEN tmp[f]
            ELSE bak[f]

\* With at most one failure a program is never replaced by an older version, and
\* what is at hand for it while it is missing is not older either (ensureFile,
\* replaceFile).
NeverOlder == [][\A f \in File : faults' < 2 => Floor(f)' >= Floor(f)]_vars

\* Only versions that the server has published are installed or kept, and what the
\* manager goes by is at least as new as both.
OnlyPublished ==
  \A f \in File : /\ dst[f] <= pub[f] /\ bak[f] <= pub[f] /\ want[f] <= pub[f]
                  /\ want[f] # 0 => dst[f] <= want[f] /\ bak[f] <= want[f]

\* Without a failure nothing runs from the backup that is about to be removed, and
\* the old file has moved away before the new one moves in; the tray is ended and
\* the helper looked for.
Free == /\ pc["manager"] = "kill" => at = "tray"
        /\ pc["manager"] = "look" => at = "helper"
        /\ pc["manager"] \in {"backup", "away"} /\ image[at] = "bak" => faults > 0
        /\ pc["manager"] = "in" /\ faults = 0 => dst[at] = 0

\* The whole of what a step of the environment or of applyServerConfig leaves alone.
LEMMA StepKinds ==
  ASSUME TypeOK, Next
  PROVE  Elsewhere \/ Restart \/ Manage
  <1>1. CASE Environment /\ ~ Restart
    <2>1. UNCHANGED <<files, manager>> /\ UNCHANGED pc
      BY <1>1 DEF Environment, SetPolicy, Logon, Logoff, Programs, Connect, Disconnect, Publish, files, manager
    <2>2. faults' \in {faults, faults + 1}
      BY <1>1 DEF Environment, SetPolicy, Logon, Logoff, Programs, Connect, Disconnect, Publish, Fault
    <2>3. \A f \in File : image'[f] = "bak" => image[f] = "bak"
      BY <1>1 DEF Environment, SetPolicy, Logon, Logoff, Programs, Connect, Disconnect, Publish, Runs, Ends, TypeOK
    <2> QED BY <2>1, <2>2, <2>3 DEF Elsewhere
  <1> QED BY <1>1, ApplyElsewhere DEF Next

\* The server only ever publishes newer versions.
LEMMA PubGrows == ASSUME TypeOK, [Next]_vars PROVE \A f \in File : pub'[f] >= pub[f]
  <1>0. pub \in [File -> Nat] BY BoundAssumption DEF TypeOK, Version
  <1>1. CASE UNCHANGED vars BY <1>0, <1>1 DEF vars, server
  <1>2. CASE Environment
    <2>1. ASSUME NEW f \in File, Publish(f) PROVE \A g \in File : pub'[g] >= pub[g]
      BY <1>0, <2>1 DEF Publish
    <2>2. CASE ~ \E f \in File : Publish(f)
      BY <1>0, <1>2, <2>2 DEF Environment, SetPolicy, Logon, Logoff, Programs, Connect, Disconnect, Restart, server
    <2> QED BY <2>1, <2>2
  <1>3. CASE Manage
    BY <1>0, <1>3 DEF Manage, SyncOnce, NextFile, CheckHash, SyncFails, Download, Copy, VerifyHash, StopTrayProcess,
                      Defer, RemoveBackup, MoveAway, MoveIn, TrayUpdated, EnsureRunning, StartTray, Update, server
  <1>4. ASSUME NEW g \in Applier, Apply(g) PROVE \A f \in File : pub'[f] >= pub[f]
    BY <1>0, <1>4 DEF Apply, Receive, LoadEnabled, StopAll, StoreEnabled, EnsureRunning, StartTray, server
  <1> QED BY <1>1, <1>2, <1>3, <1>4 DEF Next

\* What the renames do to the files: the manager's file gets what was downloaded,
\* what was installed or what was kept.
LEMMA FilesStep ==
  ASSUME TypeOK, FileVerified, Manage
  PROVE  \A f \in File :
           /\ dst'[f] \in {0, dst[f], bak[f]} \/ (want[f] # 0 /\ dst'[f] = want[f])
           /\ bak'[f] \in {0, dst[f], bak[f]}
  <1> at \in File /\ dst \in [File -> Whole] /\ bak \in [File -> Whole] BY DEF TypeOK
  <1>1. CASE RemoveBackup BY <1>1 DEF RemoveBackup, Set
  <1>2. CASE MoveAway BY <1>2 DEF MoveAway, Set
  <1>3. CASE MoveIn
    <2>1. tmp[at] = want[at] /\ want[at] # 0 BY <1>3 DEF MoveIn, Update, Move, FileVerified
    <2> QED BY <1>3, <2>1 DEF MoveIn, Set
  <1>4. CASE ~ (RemoveBackup \/ MoveAway \/ MoveIn)
    <2>1. dst' = dst /\ bak' = bak
      BY <1>4 DEF Manage, SyncOnce, NextFile, CheckHash, SyncFails, Download, Copy, VerifyHash, StopTrayProcess,
                  Defer, TrayUpdated, EnsureRunning, StartTray, files
    <2> QED BY <2>1
  <1> QED BY <1>1, <1>2, <1>3, <1>4

LEMMA WantStep ==
  ASSUME TypeOK, [Next]_vars
  PROVE  \/ want' = want
         \/ /\ pub' = pub /\ dst' = dst /\ bak' = bak
            /\ \A f \in File : want'[f] \in {0, pub[f]}
  <1>0. pub \in [File -> Version] BY DEF TypeOK
  <1>1. CASE SyncOnce BY <1>0, <1>1 DEF SyncOnce, Update, server, files
  <1>2. CASE Restart BY <1>2 DEF Restart, server, files
  <1>3. CASE Manage /\ ~ SyncOnce
    BY <1>3 DEF Manage, NextFile, CheckHash, SyncFails, Download, Copy, VerifyHash, StopTrayProcess,
                Defer, RemoveBackup, MoveAway, MoveIn, TrayUpdated, EnsureRunning, StartTray, manager
  <1>4. CASE Elsewhere BY <1>4 DEF Elsewhere, manager
  <1>5. CASE UNCHANGED vars BY <1>5 DEF vars, manager
  <1> QED BY <1>1, <1>2, <1>3, <1>4, <1>5, StepKinds

LEMMA PublishedKept ==
  ASSUME TypeOK, FileVerified, OnlyPublished, [Next]_vars
  PROVE  OnlyPublished'
  <1>0. pub \in [File -> Nat] /\ pub' \in [File -> Nat] /\ dst \in [File -> Nat] /\ bak \in [File -> Nat]
        /\ want \in [File -> Nat]
    BY NextTypeOK, BoundAssumption DEF TypeOK, Version, Whole
  <1>1. \A f \in File : pub'[f] >= pub[f] BY PubGrows
  <1>2. \A f \in File :
           /\ dst'[f] \in {0, dst[f], bak[f]} \/ (want[f] # 0 /\ dst'[f] = want[f])
           /\ bak'[f] \in {0, dst[f], bak[f]}
    <2>1. CASE Manage BY <2>1, FilesStep
    <2>2. CASE Elsewhere \/ Restart \/ UNCHANGED vars BY <2>2 DEF Elsewhere, Restart, vars, files
    <2> QED BY <2>1, <2>2, StepKinds
  <1>3. CASE want' = want BY <1>0, <1>1, <1>2, <1>3 DEF OnlyPublished
  <1>4. CASE /\ pub' = pub /\ dst' = dst /\ bak' = bak
             /\ \A f \in File : want'[f] \in {0, pub[f]}
    BY <1>0, <1>4 DEF OnlyPublished
  <1> QED BY <1>3, <1>4, WantStep

LEMMA FreeKept ==
  ASSUME TypeOK, FileVerified, Free, [Next]_vars
  PROVE  Free'
  <1> "manager" \in Goroutine /\ at \in File /\ faults \in Nat BY BoundAssumption DEF Goroutine, TypeOK
  <1>1. CASE Elsewhere BY <1>1 DEF Elsewhere, Free, manager, files
  <1>2. CASE Restart BY <1>2 DEF Restart, Free, Goroutine
  <1>3. CASE UNCHANGED vars BY <1>3 DEF vars, Free, manager, files
  <1>4. CASE Manage
    <2>1. CASE StopTrayProcess
      BY <2>1 DEF StopTrayProcess, Update, Move, Goto, KillTray, Fault, Free, TypeOK, manager
    <2>7. CASE VerifyHash BY <2>7 DEF VerifyHash, Update, Move, Goto, Free, TypeOK, manager, File
    <2>2. CASE Defer BY <2>2 DEF Defer, Update, Move, Goto, Free, TypeOK, manager
    <2>3. CASE RemoveBackup BY <2>3 DEF RemoveBackup, Update, Move, Goto, Charge, Fault, Free, TypeOK, manager
    <2>4. CASE MoveAway BY <2>4 DEF MoveAway, Update, Move, Goto, Charge, Fault, Free, TypeOK, manager, Set
    <2>5. CASE MoveIn BY <2>5 DEF MoveIn, Update, Move, Goto, Free, TypeOK, manager
    <2>6. CASE ~ (StopTrayProcess \/ VerifyHash \/ Defer \/ RemoveBackup \/ MoveAway \/ MoveIn)
      <3>1. pc'["manager"] \notin {"kill", "look", "backup", "away", "in"}
        BY <1>4, <2>6 DEF Manage, SyncOnce, NextFile, CheckHash, SyncFails, Download, Copy,
                          TrayUpdated, EnsureRunning, StartTray, AfterEnsure, Update, Move, Goto, TypeOK
      <3> QED BY <3>1 DEF Free
    <2> QED BY <2>1, <2>2, <2>3, <2>4, <2>5, <2>6, <2>7
  <1> QED BY <1>1, <1>2, <1>3, <1>4, StepKinds

\* A rename leaves the other file alone.
LEMMA OtherFile ==
  ASSUME TypeOK, NEW f \in File, f # at, RemoveBackup \/ MoveAway \/ MoveIn
  PROVE  Floor(f)' = Floor(f)
  <1>1. at' = at BY DEF RemoveBackup, MoveAway, MoveIn, manager
  <1>2. dst'[f] = dst[f] /\ bak'[f] = bak[f] BY DEF RemoveBackup, MoveAway, MoveIn, Set, TypeOK
  <1> QED BY <1>1, <1>2 DEF Floor

\* Where the files stay as they are, the manager neither begins the renames nor,
\* after a failure, gives them up.
LEMMA FloorStays ==
  ASSUME TypeOK, FileVerified, OnlyPublished, Missing, NEW f \in File,
         dst' = dst, bak' = bak, faults' \in {faults, faults + 1}, faults' < 2,
         \/ pc'["manager"] = pc["manager"] /\ at' = at /\ tmp' = tmp
         \/ /\ pc'["manager"] \notin {"away", "in"}
            /\ pc["manager"] \notin {"away", "in"} \/ faults' = faults + 1
  PROVE  Floor(f)' >= Floor(f)
  <1>1. /\ dst[f] \in Nat /\ bak[f] \in Nat /\ want[f] \in Nat /\ faults \in Nat
    BY BoundAssumption DEF TypeOK, Whole
  <1>2. CASE dst[f] # 0 BY <1>1, <1>2 DEF Floor
  <1>3. CASE dst[f] = 0 /\ pc'["manager"] = pc["manager"] /\ at' = at /\ tmp' = tmp
    <2>1. CASE at = f /\ pc["manager"] \in {"away", "in"}
      <3>1. tmp[f] = want[f] /\ bak[f] <= want[f] BY <2>1 DEF FileVerified, OnlyPublished
      <3> QED BY <1>1, <1>3, <2>1, <3>1 DEF Floor
    <2>2. CASE ~ (at = f /\ pc["manager"] \in {"away", "in"}) BY <1>1, <1>3, <2>2 DEF Floor
    <2> QED BY <2>1, <2>2
  <1>4. CASE /\ dst[f] = 0 /\ pc'["manager"] \notin {"away", "in"}
             /\ pc["manager"] \notin {"away", "in"} \/ faults' = faults + 1
    BY <1>1, <1>4 DEF Floor
  <1> QED BY <1>2, <1>3, <1>4

LEMMA FloorRename ==
  ASSUME Inv, OnlyPublished, Free, faults' < 2, RemoveBackup \/ MoveAway \/ MoveIn
  PROVE  Floor(at)' >= Floor(at)
  <1> "manager" \in Goroutine /\ at \in File BY DEF Goroutine, Inv, TypeOK
  <1> dst \in [File -> Nat] /\ bak \in [File -> Nat] /\ want \in [File -> Nat] /\ faults \in Nat
    BY BoundAssumption DEF Inv, TypeOK, Whole
  <1>1. at' = at /\ tmp[at] = want[at] /\ want[at] # 0
    BY DEF RemoveBackup, MoveAway, MoveIn, Update, Move, manager, Inv, FileVerified
  <1>2. dst[at] <= want[at] /\ bak[at] <= want[at] BY <1>1 DEF OnlyPublished
  <1>3. dst[at] = 0 /\ faults = 0 => bak[at] # 0 /\ pc["manager"] = "in" BY DEF Inv, Missing
  <1>4. CASE RemoveBackup
    <2>1. /\ pc["manager"] = "backup" /\ pc'["manager"] = "away" /\ dst' = dst /\ tmp' = tmp
          /\ faults' \in {faults, faults + 1}
      BY <1>4 DEF RemoveBackup, Update, Move, Goto, Inv, TypeOK, Charge, Fault
    <2> QED BY <1>1, <1>2, <1>3, <2>1 DEF Floor
  <1>5. CASE MoveAway
    <2>1. pc["manager"] = "away" /\ pc'["manager"] = "in" /\ tmp' = tmp
      BY <1>5 DEF MoveAway, Update, Move, Goto, Inv, TypeOK
    <2>2. CASE dst[at] = 0 /\ UNCHANGED <<dst, bak, image, faults>>
      BY <1>1, <1>2, <1>3, <2>1, <2>2 DEF Floor
    <2>3. CASE dst[at] # 0 /\ bak' = Set(bak, dst[at]) /\ dst' = Set(dst, 0) /\ UNCHANGED faults
      <3>1. bak'[at] = dst[at] /\ dst'[at] = 0 BY <2>3 DEF Set
      <3>2. Floor(at) = dst[at] BY <2>3 DEF Floor
      <3>3. Floor(at)' \in {want[at], dst[at]} BY <1>1, <2>1, <3>1 DEF Floor
      <3> QED BY <1>2, <3>2, <3>3
    <2>4. CASE /\ dst[at] # 0 /\ Charge(image[at] # "bak")
               /\ dst' = Set(dst, IF image[at] = "dst" THEN dst[at] ELSE 0) /\ UNCHANGED <<bak, image>>
      <3>1. faults' > 0 BY <2>1, <2>4 DEF Charge, Fault, Free
      <3>2. dst'[at] \in {0, dst[at]} BY <2>4 DEF Set
      <3>3. Floor(at) = dst[at] BY <2>4 DEF Floor
      <3>4. Floor(at)' \in {want[at], dst[at]} BY <1>1, <2>1, <3>1, <3>2 DEF Floor
      <3> QED BY <1>2, <3>3, <3>4
    <2> QED BY <1>5, <2>2, <2>3, <2>4 DEF MoveAway
  <1>6. CASE MoveIn
    <2>1. pc["manager"] = "in" /\ pc'["manager"] \notin {"away", "in"}
      BY <1>6 DEF MoveIn, Update, Move, Goto, Inv, TypeOK
    <2>2. CASE dst' = Set(dst, tmp[at]) /\ UNCHANGED <<bak, image, faults>>
      <3>1. dst'[at] = want[at] BY <1>1, <2>2 DEF Set
      <3> QED BY <1>1, <1>2, <2>1, <3>1 DEF Floor
    <2>3. CASE /\ Charge(dst[at] = 0 \/ image[at] # "dst")
               /\ IF bak[at] # 0 /\ (dst[at] = 0 \/ image[at] # "dst")
                    THEN dst' = Set(dst, bak[at]) /\ bak' = Set(bak, 0) /\ Follow("bak", "dst")
                    ELSE UNCHANGED <<dst, bak, image>>
      <3>1. CASE dst[at] # 0 /\ image[at] = "dst"
        <4>1. dst'[at] = dst[at] BY <2>3, <3>1
        <4>2. Floor(at) = dst[at] BY <3>1 DEF Floor
        <4>3. Floor(at)' = dst[at] BY <1>1, <3>1, <4>1 DEF Floor
        <4> QED BY <4>2, <4>3
      <3>2. CASE dst[at] = 0 \/ image[at] # "dst"
        <4>1. faults = 0 BY <2>3, <3>2 DEF Charge, Fault
        <4>2. dst[at] = 0 /\ bak[at] # 0 BY <1>3, <2>1, <4>1 DEF Free
        <4>3. dst'[at] = bak[at] BY <2>3, <4>2 DEF Set
        <4>4. Floor(at) = bak[at] BY <4>1, <4>2 DEF Floor
        <4>5. Floor(at)' = bak[at] BY <1>1, <4>2, <4>3 DEF Floor
        <4> QED BY <4>4, <4>5
      <3> QED BY <3>1, <3>2
    <2> QED BY <1>6, <2>2, <2>3 DEF MoveIn
  <1> QED BY <1>4, <1>5, <1>6

LEMMA FloorStep ==
  ASSUME Inv, OnlyPublished, Free, [Next]_vars, NEW f \in File, faults' < 2
  PROVE  Floor(f)' >= Floor(f)
  <1>0. TypeOK /\ FileVerified /\ Missing /\ faults \in Nat BY BoundAssumption DEF Inv, TypeOK
  <1> "manager" \in Goroutine BY DEF Goroutine
  <1>1. CASE Elsewhere BY <1>0, <1>1, FloorStays DEF Elsewhere, files, manager
  <1>2. CASE Restart
    <2>1. dst' = dst /\ bak' = bak /\ faults' = faults + 1 /\ pc'["manager"] = "idle"
      BY <1>2 DEF Restart, Fault, files
    <2> QED BY <1>0, <2>1, FloorStays
  <1>3. CASE UNCHANGED vars BY <1>0, <1>3, FloorStays DEF vars, files, manager
  <1>4. CASE RemoveBackup \/ MoveAway \/ MoveIn
    <2>1. CASE f = at
      <3>1. at' = at BY <1>4 DEF RemoveBackup, MoveAway, MoveIn, manager
      <3>2. Floor(at)' >= Floor(at) BY <1>4, FloorRename
      <3>3. Floor(f)' = Floor(at)' BY <2>1, <3>1 DEF Floor
      <3> QED BY <2>1, <3>2, <3>3
    <2>2. CASE f # at
      <3>1. Floor(f)' = Floor(f) BY <1>0, <1>4, <2>2, OtherFile
      <3>2. Floor(f) \in Nat
        <4>1. dst[f] \in Nat /\ bak[f] \in Nat /\ tmp[f] \in Nat
          BY <1>0, BoundAssumption DEF TypeOK, Whole, Torn
        <4> QED BY <4>1 DEF Floor
      <3> QED BY <3>1, <3>2
    <2> QED BY <2>1, <2>2
  <1>5. CASE Manage /\ ~ (RemoveBackup \/ MoveAway \/ MoveIn)
    <2>1. dst' = dst /\ bak' = bak
      BY <1>5 DEF Manage, SyncOnce, NextFile, CheckHash, SyncFails, Download, Copy, VerifyHash, StopTrayProcess,
                  Defer, TrayUpdated, EnsureRunning, StartTray, files
    <2>2. pc["manager"] \notin {"away", "in"}
      BY <1>5 DEF Manage, SyncOnce, NextFile, CheckHash, SyncFails, Download, Copy, VerifyHash, StopTrayProcess,
                  Defer, TrayUpdated, EnsureRunning, StartTray, Update, Move
    <2>3. pc'["manager"] \notin {"away", "in"}
      BY <1>0, <1>5 DEF Manage, SyncOnce, NextFile, CheckHash, SyncFails, Download, Copy, VerifyHash, StopTrayProcess,
                  Defer, TrayUpdated, EnsureRunning, StartTray, AfterEnsure, Update, Move, Goto, TypeOK
    <2>4. faults' \in {faults, faults + 1}
      BY <1>5 DEF Manage, SyncOnce, NextFile, CheckHash, SyncFails, Download, Copy, VerifyHash, StopTrayProcess,
                  Defer, TrayUpdated, EnsureRunning, StartTray, KillTray, Charge, Fault
    <2> QED BY <1>0, <2>1, <2>2, <2>3, <2>4, FloorStays
  <1> QED BY <1>0, <1>1, <1>2, <1>3, <1>4, <1>5, StepKinds

\* Only what the server has published is ever installed or kept as a backup
\* (ensureFile).
THEOREM InstalledPublished == Spec => []OnlyPublished
  <1>1. Init => OnlyPublished BY DEF Init, OnlyPublished
  <1>2. Inv /\ OnlyPublished /\ [Next]_vars => OnlyPublished' BY PublishedKept DEF Inv
  <1> QED BY <1>1, <1>2, Inductive, PTL DEF Spec

\* No single failure, wherever it comes, brings back an older version of a
\* program than the workstation had (ensureFile, replaceFile).
THEOREM VersionsGrow == Spec => NeverOlder
  <1>1. Init => Free BY DEF Init, Free, Goroutine
  <1>2. Inv /\ Free /\ [Next]_vars => Free' BY FreeKept DEF Inv
  <1>3. Inv /\ OnlyPublished /\ Free /\ [Next]_vars => [\A f \in File : faults' < 2 => Floor(f)' >= Floor(f)]_vars
    BY FloorStep
  <1> QED BY <1>1, <1>2, <1>3, Inductive, InstalledPublished, PTL DEF Spec, NeverOlder
=============================================================================
