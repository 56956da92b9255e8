------------------------ MODULE RemoteSupportProofs ------------------------
(***************************************************************************)
(* Proofs about RemoteSupport for every set of sessions and any number of  *)
(* goroutines.                                                             *)
(***************************************************************************)
EXTENDS RemoteSupport, TLAPS

\* What a label says of the locals of a goroutine: which session it works for,
\* that the user is to be asked or agreed, and what the server has been told.
LabelAt(g) ==
  /\ pc[g] \in {"begin"} \cup Flow \cup {"endReport"} => sid[g] \in Session
  /\ pc[g] \in Flow \cup {"endReport"} => sid[g] \in begun
  /\ popup[g] # "none" => pc[g] \in {"registerDialog", "waitDialog"}
  /\ popup[g] = "yes" => sid[g] \in consented
  /\ pc[g] \in InDialog \ {"recheck"} => sid[g] \in NeedsApproval
  /\ pc[g] \in {"recheck", "approve"} /\ ~approved[g] => sid[g] \in NeedsApproval
  /\ pc[g] \in {"recheck"} \cup AfterDialog /\ approved[g] =>
       (sid[g] \in NeedsApproval => sid[g] \in consented)
  /\ pc[g] \in AfterDialog \ {"approve"} => "approved" \in reports[sid[g]] /\ approved[g]
  /\ pc[g] = "setActive" => "ready" \in reports[sid[g]]

LabelInv == \A g \in Goroutine : LabelAt(g)

\* The session under way has passed the gate.
SessionBegun == session # 0 => session \in begun

\* The initial states have the invariants.
LEMMA BaseInit == Init => TypeOK /\ LabelInv /\ SessionBegun
<1> SUFFICES ASSUME Init PROVE TypeOK /\ LabelInv /\ SessionBegun
    OBVIOUS
<1>1. TypeOK
    BY DEF Init, TypeOK, States, Label
<1>2. LabelInv
    BY DEF Init, LabelInv, LabelAt, Flow, InDialog, BeforeDialog, AfterDialog
<1>3. SessionBegun
    BY DEF Init, SessionBegun
<1>4. QED
    BY <1>1, <1>2, <1>3

\* The types of the helper's variables, which every start and Stop keeps.
RunningOK ==
  /\ helpers \subseteq {"primary", "secondary"} /\ strays \subseteq helpers
  /\ lost \in BOOLEAN

LEMMA HelperTypes ==
  ASSUME TypeOK, StartHelper \/ StopHelpers \/ StartFails PROVE RunningOK'
<1> USE UnkillableAssumption DEF TypeOK, RunningOK, Survivors
<1>1. CASE StartHelper
  BY <1>1 DEF StartHelper
<1>2. CASE StopHelpers
  BY <1>2 DEF StopHelpers
<1>3. CASE UNCHANGED running
  BY <1>3 DEF running
<1>4. QED
  BY <1>1, <1>2, <1>3 DEF StartFails

\* Every action keeps the types.
LEMMA TypeStep == TypeOK /\ LabelInv /\ [Next]_vars => TypeOK'
<1> SUFFICES ASSUME TypeOK, LabelInv, [Next]_vars PROVE TypeOK'
    OBVIOUS
<1> USE SessionAssumption, NoOneAssumption, UnkillableAssumption DEF TypeOK, LabelInv, LabelAt, States, Report, Label, Flow, BeforeDialog, InDialog, AfterDialog, EndPath, Reset, manager, locals, popups, running, history
<1>1. ASSUME NEW g \in Goroutine, NEW s \in Session, Request(g, s) PROVE TypeOK'
    BY <1>1 DEF Request, Move, Goto
<1>2. ASSUME NEW g \in Goroutine, NEW s \in Session, EndSignal(g, s) PROVE TypeOK'
    BY <1>2 DEF EndSignal, Move, Goto
<1>3. ASSUME NEW g \in Goroutine, UserEnd(g) PROVE TypeOK'
    BY <1>3 DEF UserEnd, Move, Goto
<1>4. ASSUME NEW g \in Goroutine, Busy(g) PROVE TypeOK'
    BY <1>4 DEF Busy, Return, Goto
<1>5. ASSUME NEW g \in Goroutine, Begin(g) PROVE TypeOK'
  <2>1. sid[g] \in Session
    BY <1>5 DEF Begin, Move
  <2>2. raced' \subseteq {"end", "again"}
    BY <1>5 DEF Begin
  <2>3. pc' \in [Goroutine -> Label] /\ begun' \subseteq Session
    BY <1>5, <2>1 DEF Begin, Move, Goto
  <2>4. state' \in States /\ session' \in Session
    BY <1>5, <2>1 DEF Begin
  <2>5. UNCHANGED <<locals, popups, running, reports, consented>>
    BY <1>5 DEF Begin
  <2>6. QED
    <3> HIDE DEF LabelInv, LabelAt, Label, Flow, States, Report
    <3>1. QED
      BY <2>2, <2>3, <2>4, <2>5
<1>6. ASSUME NEW g \in Goroutine, PreStart(g) PROVE TypeOK'
  <2>1. pc' \in [Goroutine -> Label]
    BY <1>6 DEF PreStart, Goto
  <2>2. RunningOK'
    BY <1>6, HelperTypes DEF PreStart
  <2>3. QED
    BY <1>6, <2>1, <2>2 DEF PreStart, RunningOK
<1>7. ASSUME NEW g \in Goroutine, PreWait(g) PROVE TypeOK'
  <2>1. pc' \in [Goroutine -> Label]
    BY <1>7 DEF PreWait, Goto
  <2>2. CASE approved' = approved
    BY <1>7, <2>1, <2>2 DEF PreWait
  <2>3. CASE approved' = [approved EXCEPT ![g] = TRUE]
    <3>1. approved' \in [Goroutine -> BOOLEAN]
      BY <2>3
    <3>2. QED
      BY <1>7, <2>1, <3>1 DEF PreWait
  <2>4. QED
    BY <1>7, <2>2, <2>3 DEF PreWait
<1>8. ASSUME NEW g \in Goroutine, OpenDialog(g) PROVE TypeOK'
  <2>1. pc' \in [Goroutine -> Label]
    BY <1>8 DEF OpenDialog, Goto
  <2>2. popup' \in [Goroutine -> {"none", "open", "yes", "no"}]
    <3> DEFINE closed == [h \in Goroutine |-> IF h = dialog THEN "none" ELSE popup[h]]
    <3>1. closed \in [Goroutine -> {"none", "open", "yes", "no"}]
      OBVIOUS
    <3>2. popup' = [closed EXCEPT ![g] = "open"] \/ popup' = closed
      BY <1>8 DEF OpenDialog
    <3> HIDE DEF closed
    <3>3. QED
      BY <3>1, <3>2
  <2>3. dialog' = NoOne /\ UNCHANGED <<manager, locals, running, reports, history>>
    BY <1>8 DEF OpenDialog
  <2>4. QED
    <3> HIDE DEF LabelInv, LabelAt, Label, Flow, States, Report
    <3>1. QED
      BY <2>1, <2>2, <2>3
<1>9. ASSUME NEW g \in Goroutine, RegisterDialog(g) PROVE TypeOK'
    BY <1>9 DEF RegisterDialog, Move, Goto
<1>10. ASSUME NEW g \in Goroutine, Answer(g) PROVE TypeOK'
  <2>1. sid[g] \in Session
    BY <1>10 DEF Answer
  <2>2. popup' \in [Goroutine -> {"none", "open", "yes", "no"}] /\ consented' \subseteq Session
    <3>1. popup' = [popup EXCEPT ![g] = "yes"] \/ popup' = [popup EXCEPT ![g] = "no"]
      BY <1>10 DEF Answer
    <3>2. consented' = consented \cup {sid[g]} \/ consented' = consented
      BY <1>10 DEF Answer
    <3>3. QED
      BY <2>1, <3>1, <3>2
  <2>3. UNCHANGED <<manager, pc, locals, dialog, running, reports, begun, raced>>
    BY <1>10 DEF Answer
  <2>4. QED
    <3> HIDE DEF LabelInv, LabelAt, Label, Flow, States, Report
    <3>1. QED
      BY <2>2, <2>3
<1>11. ASSUME NEW g \in Goroutine, DialogDone(g) PROVE TypeOK'
    BY <1>11 DEF DialogDone, Move, Goto
<1>12. ASSUME NEW g \in Goroutine, Recheck(g) PROVE TypeOK'
  <2>1. raced' \subseteq {"end", "again"}
    <3>1. raced' = raced \/ raced' = raced \cup {"end"}
      <4> HIDE DEF LabelInv, LabelAt, TypeOK
      <4>1. CASE MarkRace(g)
        BY <4>1 DEF MarkRace
      <4>2. QED
        BY <1>12, <4>1 DEF Recheck
    <3>2. QED
      BY <3>1
  <2>2. pc' \in [Goroutine -> Label]
    BY <1>12 DEF Recheck, Return, Goto
  <2>3. /\ sid' \in [Goroutine -> Session \cup {0}]
        /\ approved' \in [Goroutine -> BOOLEAN]
        /\ dual' \in [Goroutine -> BOOLEAN]
    <3>1. CASE UNCHANGED locals
      BY <3>1
    <3>2. CASE Return(g)
      BY <3>2 DEF Return
    <3>3. QED
      BY <1>12, <3>1, <3>2 DEF Recheck
  <2>4. UNCHANGED <<manager, popups, running, reports, consented, begun>>
    BY <1>12 DEF Recheck
  <2>5. QED
    <3> HIDE DEF LabelInv, LabelAt, Label, Flow, States, Report
    <3>1. QED
      BY <2>1, <2>2, <2>3, <2>4
<1>13. ASSUME NEW g \in Goroutine, Approve(g) PROVE TypeOK'
    BY <1>13 DEF Approve, Tell, Goto
<1>14. ASSUME NEW g \in Goroutine, SetApproved(g) PROVE TypeOK'
    BY <1>14 DEF SetApproved, Assign, Move, Goto
<1>15. ASSUME NEW g \in Goroutine, Restart(g) PROVE TypeOK'
  <2>1. pc' \in [Goroutine -> Label]
    BY <1>15 DEF Restart, Goto
  <2>2. RunningOK'
    BY <1>15, HelperTypes DEF Restart
  <2>3. QED
    BY <1>15, <2>1, <2>2 DEF Restart, RunningOK
<1>16. ASSUME NEW g \in Goroutine, ReWait(g) PROVE TypeOK'
    BY <1>16 DEF ReWait, Goto
<1>17. ASSUME NEW g \in Goroutine, StartSecondary(g) PROVE TypeOK'
    BY <1>17 DEF StartSecondary, Move, Goto
<1>18. ASSUME NEW g \in Goroutine, SetConnecting(g) PROVE TypeOK'
    BY <1>18 DEF SetConnecting, Assign, Move, Goto
<1>19. ASSUME NEW g \in Goroutine, Ready(g) PROVE TypeOK'
    BY <1>19 DEF Ready, Tell, Goto
<1>20. ASSUME NEW g \in Goroutine, SetActive(g) PROVE TypeOK'
    BY <1>20 DEF SetActive, Return, Goto
<1>21. ASSUME NEW g \in Goroutine, EndCheck(g) PROVE TypeOK'
  <2>1. pc' \in [Goroutine -> Label]
    BY <1>21 DEF EndCheck, Return, Goto
  <2>2. /\ sid' \in [Goroutine -> Session \cup {0}]
        /\ approved' \in [Goroutine -> BOOLEAN]
        /\ dual' \in [Goroutine -> BOOLEAN]
    <3>1. CASE UNCHANGED locals
      BY <3>1
    <3>2. CASE Return(g)
      BY <3>2 DEF Return
    <3>3. QED
      BY <1>21, <3>1, <3>2 DEF EndCheck
  <2>3. QED
    BY <1>21, <2>1, <2>2 DEF EndCheck
<1>22. ASSUME NEW g \in Goroutine, EndDialog(g) PROVE TypeOK'
    BY <1>22 DEF EndDialog, CloseDialog, Move, Goto
<1>23. ASSUME NEW g \in Goroutine, EndRead(g) PROVE TypeOK'
  <2>1. pc' \in [Goroutine -> Label]
    BY <1>23 DEF EndRead, Return, Goto
  <2>2. /\ sid' \in [Goroutine -> Session \cup {0}]
        /\ approved' \in [Goroutine -> BOOLEAN]
        /\ dual' \in [Goroutine -> BOOLEAN]
    <3>1. CASE Return(g)
      BY <3>1 DEF Return
    <3>2. CASE sid' = [sid EXCEPT ![g] = session] /\ UNCHANGED <<approved, dual>>
      BY <3>2
    <3>3. QED
      BY <1>23, <3>1, <3>2 DEF EndRead
  <2>3. QED
    BY <1>23, <2>1, <2>2 DEF EndRead
<1>24. ASSUME NEW g \in Goroutine, EndReport(g) PROVE TypeOK'
    BY <1>24 DEF EndReport, Tell, Move, Goto
<1>25. ASSUME NEW g \in Goroutine, ResetDialog(g) PROVE TypeOK'
    BY <1>25 DEF ResetDialog, CloseDialog, Move, Goto
<1>26. ASSUME NEW g \in Goroutine, ResetHelper(g) PROVE TypeOK'
  <2>1. pc' \in [Goroutine -> Label] /\ raced' \subseteq {"end", "again"}
    BY <1>26 DEF ResetHelper, Move, Goto, MarkRace
  <2>2. RunningOK'
    BY <1>26, HelperTypes DEF ResetHelper
  <2>3. QED
    BY <1>26, <2>1, <2>2 DEF ResetHelper, RunningOK
<1>27. ASSUME NEW g \in Goroutine, ResetState(g) PROVE TypeOK'
    BY <1>27 DEF ResetState, Return, Goto, MarkRace
<1>28. CASE Crash
    BY <1>28 DEF Crash
<1>29. CASE UNCHANGED vars
    BY <1>29 DEF vars
<1>30. ASSUME NEW h \in helpers, HelperEnds(h) PROVE TypeOK'
    BY <1>30 DEF HelperEnds
<1>31. QED
    BY <1>1, <1>2, <1>3, <1>4, <1>5, <1>6, <1>7, <1>8, <1>9, <1>10,
       <1>11, <1>12, <1>13, <1>14, <1>15, <1>16, <1>17, <1>18, <1>19, <1>20,
       <1>21, <1>22, <1>23, <1>24, <1>25, <1>26, <1>27, <1>28, <1>29, <1>30
       DEF Next, RequestStep, EndStep

\* A goroutine that a step does not move keeps its promise: what was begun,
\* agreed and told stays so, and its popup can only be closed.
LEMMA LabelFrame ==
  ASSUME LabelInv, NEW h \in Goroutine,
         pc'[h] = pc[h], sid'[h] = sid[h], approved'[h] = approved[h],
         popup'[h] \in {popup[h], "none"},
         begun \subseteq begun', consented \subseteq consented',
         \A s \in Session : reports[s] \subseteq reports'[s]
  PROVE  LabelAt(h)'
<1>1. LabelAt(h)
    BY DEF LabelInv
<1>2. pc[h] \in AfterDialog => sid[h] \in Session
    BY <1>1 DEF LabelAt, Flow
<1>3. pc[h] = "setActive" => pc[h] \in AfterDialog
    BY DEF AfterDialog
<1>4. QED
    BY <1>1, <1>2, <1>3 DEF LabelAt

\* Each label keeps its promise.
LEMMA LabelStep == TypeOK /\ LabelInv /\ SessionBegun /\ [Next]_vars => LabelInv'
<1> SUFFICES ASSUME TypeOK, LabelInv, SessionBegun, [Next]_vars PROVE LabelInv'
    OBVIOUS
<1> USE SessionAssumption, ApprovalAssumption, NoOneAssumption DEF TypeOK, LabelInv, LabelAt, SessionBegun, Label, Flow, BeforeDialog, InDialog, AfterDialog, EndPath, Reset, manager, locals, popups, running, history
<1>1. ASSUME NEW g \in Goroutine, NEW s \in Session, Request(g, s) PROVE LabelInv'
    BY <1>1 DEF Request, Move, Goto
<1>2. ASSUME NEW g \in Goroutine, NEW s \in Session, EndSignal(g, s) PROVE LabelInv'
    BY <1>2 DEF EndSignal, Move, Goto
<1>3. ASSUME NEW g \in Goroutine, UserEnd(g) PROVE LabelInv'
    BY <1>3 DEF UserEnd, Move, Goto
<1>4. ASSUME NEW g \in Goroutine, Busy(g) PROVE LabelInv'
    BY <1>4 DEF Busy, Return, Goto
<1>5. ASSUME NEW g \in Goroutine, Begin(g) PROVE LabelInv'
    BY <1>5 DEF Begin, Move, Goto
<1>6. ASSUME NEW g \in Goroutine, PreStart(g) PROVE LabelInv'
    BY <1>6 DEF PreStart, StartHelper, Goto
<1>7. ASSUME NEW g \in Goroutine, PreWait(g) PROVE LabelInv'
    BY <1>7 DEF PreWait, Goto
<1>8. ASSUME NEW g \in Goroutine, OpenDialog(g) PROVE LabelInv'
  <2>1. /\ pc[g] = "openDialog"
        /\ UNCHANGED <<sid, approved, consented, begun, reports>>
    BY <1>8 DEF OpenDialog
  <2>2. /\ pc' \in {[pc EXCEPT ![g] = "registerDialog"], [pc EXCEPT ![g] = "resetDialog"]}
        /\ \A h \in Goroutine \ {g} : popup'[h] \in {popup[h], "none"}
    <3> DEFINE closed == [h \in Goroutine |-> IF h = dialog THEN "none" ELSE popup[h]]
    <3>1. \/ pc' = [pc EXCEPT ![g] = "registerDialog"] /\ popup' = [closed EXCEPT ![g] = "open"]
          \/ pc' = [pc EXCEPT ![g] = "resetDialog"] /\ popup' = closed
      BY <1>8 DEF OpenDialog, Goto
    <3>2. \A h \in Goroutine : closed[h] \in {popup[h], "none"}
      OBVIOUS
    <3> HIDE DEF LabelInv, LabelAt, TypeOK
    <3>3. QED
      BY <3>1, <3>2
  <2>3. \/ pc'[g] = "registerDialog" /\ popup'[g] = "open"
        \/ pc'[g] = "resetDialog" /\ popup'[g] = "none"
    <3>1. popup[g] = "none"
      BY <2>1
    <3>2. QED
      BY <1>8, <3>1 DEF OpenDialog, Goto
  <2>4. ASSUME NEW h \in Goroutine \ {g} PROVE LabelAt(h)'
    <3>1. pc'[h] = pc[h]
      BY <2>2
    <3>2. popup'[h] \in {popup[h], "none"}
      BY <2>2
    <3> HIDE DEF LabelAt, LabelInv, TypeOK
    <3>3. QED
      BY <2>1, <3>1, <3>2, LabelFrame
  <2>5. LabelAt(g)'
    BY <2>1, <2>3
  <2>6. QED
    BY <2>4, <2>5
<1>9. ASSUME NEW g \in Goroutine, RegisterDialog(g) PROVE LabelInv'
    BY <1>9 DEF RegisterDialog, Move, Goto
<1>10. ASSUME NEW g \in Goroutine, Answer(g) PROVE LabelInv'
    BY <1>10 DEF Answer
<1>11. ASSUME NEW g \in Goroutine, DialogDone(g) PROVE LabelInv'
    BY <1>11 DEF DialogDone, Move, Goto
<1>12. ASSUME NEW g \in Goroutine, Recheck(g) PROVE LabelInv'
  <2>1. popup' = popup /\ consented' = consented /\ begun' = begun /\ reports' = reports
    BY <1>12 DEF Recheck
  <2>2. CASE Goto(g, "approve") /\ UNCHANGED locals
    <3>1. pc[g] = "recheck" /\ pc' = [pc EXCEPT ![g] = "approve"]
      BY <1>12, <2>2 DEF Recheck, Goto
    <3>2. sid' = sid /\ approved' = approved
      BY <2>2
    <3>3. QED
      BY <2>1, <3>1, <3>2
  <2>3. CASE Return(g)
    <3>1. pc[g] = "recheck" /\ pc' = [pc EXCEPT ![g] = "free"]
      BY <1>12, <2>3 DEF Recheck, Return, Goto
    <3>2. \A h \in Goroutine \ {g} : sid'[h] = sid[h] /\ approved'[h] = approved[h]
      BY <2>3 DEF Return
    <3>3. QED
      BY <2>1, <3>1, <3>2
  <2>4. QED
    BY <1>12, <2>2, <2>3 DEF Recheck
<1>13. ASSUME NEW g \in Goroutine, Approve(g) PROVE LabelInv'
  <2>1. /\ pc[g] = "approve" /\ sid[g] \in Session
        /\ UNCHANGED <<sid, approved, popup, consented, begun>>
    BY <1>13 DEF Approve
  <2>2. \A s \in Session : reports[s] \subseteq reports'[s]
    BY <1>13, <2>1 DEF Approve, Tell
  <2>3. /\ pc' \in {[pc EXCEPT ![g] = "setApproved"], [pc EXCEPT ![g] = "resetDialog"]}
        /\ pc'[g] = "setApproved" => approved[g] /\ "approved" \in reports'[sid[g]]
    BY <1>13, <2>1 DEF Approve, Tell, Goto
  <2>4. ASSUME NEW h \in Goroutine \ {g} PROVE LabelAt(h)'
    BY <2>1, <2>2, <2>3, LabelFrame
  <2>5. LabelAt(g)'
    BY <2>1, <2>3
  <2>6. QED
    BY <2>4, <2>5
<1>14. ASSUME NEW g \in Goroutine, SetApproved(g) PROVE LabelInv'
    BY <1>14 DEF SetApproved, Assign, Move, Goto
<1>15. ASSUME NEW g \in Goroutine, Restart(g) PROVE LabelInv'
    BY <1>15 DEF Restart, StartHelper, Goto
<1>16. ASSUME NEW g \in Goroutine, ReWait(g) PROVE LabelInv'
    BY <1>16 DEF ReWait, Goto
<1>17. ASSUME NEW g \in Goroutine, StartSecondary(g) PROVE LabelInv'
    BY <1>17 DEF StartSecondary, Move, Goto
<1>18. ASSUME NEW g \in Goroutine, SetConnecting(g) PROVE LabelInv'
    BY <1>18 DEF SetConnecting, Assign, Move, Goto
<1>19. ASSUME NEW g \in Goroutine, Ready(g) PROVE LabelInv'
  <2>1. /\ pc[g] = "ready" /\ sid[g] \in Session
        /\ UNCHANGED <<sid, approved, popup, consented, begun>>
    BY <1>19 DEF Ready
  <2>2. \A s \in Session : reports[s] \subseteq reports'[s]
    BY <1>19, <2>1 DEF Ready, Tell
  <2>3. /\ pc' \in {[pc EXCEPT ![g] = "setActive"], [pc EXCEPT ![g] = "resetDialog"]}
        /\ pc'[g] = "setActive" => "ready" \in reports'[sid[g]]
    BY <1>19, <2>1 DEF Ready, Tell, Goto
  <2>4. ASSUME NEW h \in Goroutine \ {g} PROVE LabelAt(h)'
    BY <2>1, <2>2, <2>3, LabelFrame
  <2>5. LabelAt(g)'
    BY <2>1, <2>2, <2>3
  <2>6. QED
    BY <2>4, <2>5
<1>20. ASSUME NEW g \in Goroutine, SetActive(g) PROVE LabelInv'
    BY <1>20 DEF SetActive, Return, Goto
<1>21. ASSUME NEW g \in Goroutine, EndCheck(g) PROVE LabelInv'
    BY <1>21 DEF EndCheck, Return, Goto
<1>22. ASSUME NEW g \in Goroutine, EndDialog(g) PROVE LabelInv'
    BY <1>22 DEF EndDialog, CloseDialog, Move, Goto
<1>23. ASSUME NEW g \in Goroutine, EndRead(g) PROVE LabelInv'
    BY <1>23 DEF EndRead, Return, Goto
<1>24. ASSUME NEW g \in Goroutine, EndReport(g) PROVE LabelInv'
  <2>1. /\ pc[g] = "endReport" /\ sid[g] \in Session
        /\ UNCHANGED <<sid, approved, popup, consented, begun>>
    BY <1>24 DEF EndReport, Move
  <2>2. \A s \in Session : reports[s] \subseteq reports'[s]
    BY <1>24, <2>1 DEF EndReport, Tell
  <2>3. pc' = [pc EXCEPT ![g] = "resetDialog"]
    BY <1>24 DEF EndReport, Move, Goto
  <2>4. ASSUME NEW h \in Goroutine \ {g} PROVE LabelAt(h)'
    BY <2>1, <2>2, <2>3, LabelFrame
  <2>5. LabelAt(g)'
    BY <2>1, <2>3
  <2>6. QED
    BY <2>4, <2>5
<1>25. ASSUME NEW g \in Goroutine, ResetDialog(g) PROVE LabelInv'
    BY <1>25 DEF ResetDialog, CloseDialog, Move, Goto
<1>26. ASSUME NEW g \in Goroutine, ResetHelper(g) PROVE LabelInv'
    BY <1>26 DEF ResetHelper, Move, Goto
<1>27. ASSUME NEW g \in Goroutine, ResetState(g) PROVE LabelInv'
    BY <1>27 DEF ResetState, Return, Goto
<1>28. CASE Crash
    BY <1>28 DEF Crash
<1>29. CASE UNCHANGED vars
    BY <1>29 DEF vars
<1>30. ASSUME NEW h \in helpers, HelperEnds(h) PROVE LabelInv'
    BY <1>30 DEF HelperEnds
<1>31. QED
    BY <1>1, <1>2, <1>3, <1>4, <1>5, <1>6, <1>7, <1>8, <1>9, <1>10,
       <1>11, <1>12, <1>13, <1>14, <1>15, <1>16, <1>17, <1>18, <1>19, <1>20,
       <1>21, <1>22, <1>23, <1>24, <1>25, <1>26, <1>27, <1>28, <1>29, <1>30
       DEF Next, RequestStep, EndStep

\* The session changes only at the gate and in a reset.
LEMMA SessionBegunStep == TypeOK /\ LabelInv /\ SessionBegun /\ [Next]_vars => SessionBegun'
<1> SUFFICES ASSUME TypeOK, LabelInv, SessionBegun, [Next]_vars PROVE SessionBegun'
    OBVIOUS
<1> USE DEF TypeOK, LabelInv, LabelAt, SessionBegun, Label, Flow, BeforeDialog, InDialog, AfterDialog, EndPath, Reset, manager, locals, popups, running, history
<1>1. ASSUME NEW g \in Goroutine, NEW s \in Session, Request(g, s) PROVE SessionBegun'
    BY <1>1 DEF Request, Move, Goto
<1>2. ASSUME NEW g \in Goroutine, NEW s \in Session, EndSignal(g, s) PROVE SessionBegun'
    BY <1>2 DEF EndSignal, Move, Goto
<1>3. ASSUME NEW g \in Goroutine, UserEnd(g) PROVE SessionBegun'
    BY <1>3 DEF UserEnd, Move, Goto
<1>4. ASSUME NEW g \in Goroutine, Busy(g) PROVE SessionBegun'
    BY <1>4 DEF Busy, Return, Goto
<1>5. ASSUME NEW g \in Goroutine, Begin(g) PROVE SessionBegun'
    BY <1>5 DEF Begin, Move, Goto
<1>6. ASSUME NEW g \in Goroutine, PreStart(g) PROVE SessionBegun'
    BY <1>6 DEF PreStart, StartHelper, Goto
<1>7. ASSUME NEW g \in Goroutine, PreWait(g) PROVE SessionBegun'
    BY <1>7 DEF PreWait, Goto
<1>8. ASSUME NEW g \in Goroutine, OpenDialog(g) PROVE SessionBegun'
    BY <1>8 DEF OpenDialog, Goto
<1>9. ASSUME NEW g \in Goroutine, RegisterDialog(g) PROVE SessionBegun'
    BY <1>9 DEF RegisterDialog, Move, Goto
<1>10. ASSUME NEW g \in Goroutine, Answer(g) PROVE SessionBegun'
    BY <1>10 DEF Answer
<1>11. ASSUME NEW g \in Goroutine, DialogDone(g) PROVE SessionBegun'
    BY <1>11 DEF DialogDone, Move, Goto
<1>12. ASSUME NEW g \in Goroutine, Recheck(g) PROVE SessionBegun'
    BY <1>12 DEF Recheck, Return, Goto
<1>13. ASSUME NEW g \in Goroutine, Approve(g) PROVE SessionBegun'
    BY <1>13 DEF Approve, Tell, Goto
<1>14. ASSUME NEW g \in Goroutine, SetApproved(g) PROVE SessionBegun'
    BY <1>14 DEF SetApproved, Assign, Move, Goto
<1>15. ASSUME NEW g \in Goroutine, Restart(g) PROVE SessionBegun'
    BY <1>15 DEF Restart, StartHelper, Goto
<1>16. ASSUME NEW g \in Goroutine, ReWait(g) PROVE SessionBegun'
    BY <1>16 DEF ReWait, Goto
<1>17. ASSUME NEW g \in Goroutine, StartSecondary(g) PROVE SessionBegun'
    BY <1>17 DEF StartSecondary, Move, Goto
<1>18. ASSUME NEW g \in Goroutine, SetConnecting(g) PROVE SessionBegun'
    BY <1>18 DEF SetConnecting, Assign, Move, Goto
<1>19. ASSUME NEW g \in Goroutine, Ready(g) PROVE SessionBegun'
    BY <1>19 DEF Ready, Tell, Goto
<1>20. ASSUME NEW g \in Goroutine, SetActive(g) PROVE SessionBegun'
    BY <1>20 DEF SetActive, Return, Goto
<1>21. ASSUME NEW g \in Goroutine, EndCheck(g) PROVE SessionBegun'
    BY <1>21 DEF EndCheck, Return, Goto
<1>22. ASSUME NEW g \in Goroutine, EndDialog(g) PROVE SessionBegun'
    BY <1>22 DEF EndDialog, CloseDialog, Move, Goto
<1>23. ASSUME NEW g \in Goroutine, EndRead(g) PROVE SessionBegun'
    BY <1>23 DEF EndRead, Return, Goto
<1>24. ASSUME NEW g \in Goroutine, EndReport(g) PROVE SessionBegun'
    BY <1>24 DEF EndReport, Tell, Move, Goto
<1>25. ASSUME NEW g \in Goroutine, ResetDialog(g) PROVE SessionBegun'
    BY <1>25 DEF ResetDialog, CloseDialog, Move, Goto
<1>26. ASSUME NEW g \in Goroutine, ResetHelper(g) PROVE SessionBegun'
    BY <1>26 DEF ResetHelper, Move, Goto
<1>27. ASSUME NEW g \in Goroutine, ResetState(g) PROVE SessionBegun'
    BY <1>27 DEF ResetState, Return, Goto
<1>28. CASE Crash
    BY <1>28 DEF Crash
<1>29. CASE UNCHANGED vars
    BY <1>29 DEF vars
<1>30. ASSUME NEW h \in helpers, HelperEnds(h) PROVE SessionBegun'
    BY <1>30 DEF HelperEnds
<1>31. QED
    BY <1>1, <1>2, <1>3, <1>4, <1>5, <1>6, <1>7, <1>8, <1>9, <1>10,
       <1>11, <1>12, <1>13, <1>14, <1>15, <1>16, <1>17, <1>18, <1>19, <1>20,
       <1>21, <1>22, <1>23, <1>24, <1>25, <1>26, <1>27, <1>28, <1>29, <1>30
       DEF Next, RequestStep, EndStep

\* The inductive invariant: types and what the labels promise.
IInv == TypeOK /\ LabelInv /\ SessionBegun

\* The inductive invariant holds in every reachable state of every instance.
THEOREM Inductive == Spec => []IInv
<1>1. Init => IInv
  BY BaseInit DEF IInv
<1>2. IInv /\ [Next]_vars => IInv'
  BY TypeStep, LabelStep, SessionBegunStep DEF IInv
<1>3. QED
  BY <1>1, <1>2, PTL DEF Spec

\* The variables keep their types.
THEOREM TypeCorrect == Spec => []TypeOK
<1>1. IInv => TypeOK
  BY DEF IInv
<1>2. QED
  BY <1>1, Inductive, PTL

-----------------------------------------------------------------------------
(* The protocol that the server and the user see *)

\* Most steps are invisible to them.
Unseen == UNCHANGED <<begun, consented, reports>>

LEMMA UnseenSteps ==
  ASSUME NEW g \in Goroutine,
         \/ \E s \in Session : Request(g, s) \/ EndSignal(g, s)
         \/ UserEnd(g)
         \/ Busy(g) \/ PreStart(g) \/ PreWait(g) \/ OpenDialog(g) \/ RegisterDialog(g)
         \/ DialogDone(g) \/ Recheck(g) \/ SetApproved(g) \/ Restart(g) \/ ReWait(g)
         \/ StartSecondary(g) \/ SetConnecting(g) \/ SetActive(g)
         \/ EndCheck(g) \/ EndDialog(g) \/ EndRead(g)
         \/ ResetDialog(g) \/ ResetHelper(g) \/ ResetState(g)
  PROVE  Unseen
<1> USE DEF Unseen, history
<1>1. CASE \E s \in Session : Request(g, s) \/ EndSignal(g, s)
  BY <1>1 DEF Request, EndSignal
<1>2. CASE UserEnd(g) \/ Busy(g) \/ PreStart(g) \/ PreWait(g) \/ OpenDialog(g) \/ RegisterDialog(g)
  BY <1>2 DEF UserEnd, Busy, PreStart, PreWait, OpenDialog, RegisterDialog
<1>3. CASE DialogDone(g) \/ Recheck(g) \/ SetApproved(g) \/ Restart(g) \/ ReWait(g)
  BY <1>3 DEF DialogDone, Recheck, SetApproved, Assign, Restart, ReWait
<1>4. CASE StartSecondary(g) \/ SetConnecting(g) \/ SetActive(g)
  BY <1>4 DEF StartSecondary, SetConnecting, Assign, SetActive
<1>5. CASE EndCheck(g) \/ EndDialog(g) \/ EndRead(g)
  BY <1>5 DEF EndCheck, EndDialog, EndRead
<1>6. CASE ResetDialog(g) \/ ResetHelper(g) \/ ResetState(g)
  BY <1>6 DEF ResetDialog, ResetHelper, ResetState
<1>7. QED
  BY <1>1, <1>2, <1>3, <1>4, <1>5, <1>6

\* The others are steps of the protocol: the label of the goroutine says what
\* must have come before.
LEMMA ProtocolStep == IInv /\ [Next]_vars => [Protocol!ProtNext]_(Protocol!protVars)
<1> SUFFICES ASSUME TypeOK, LabelInv, [Next]_vars PROVE Protocol!ProtNext \/ Unseen
  BY DEF IInv, Unseen, Protocol!protVars
<1>1. ASSUME NEW g \in Goroutine, Begin(g) PROVE Protocol!ProtNext
  <2>1. sid[g] \in Session
    BY <1>1 DEF Begin, Move, LabelInv, LabelAt
  <2>2. Protocol!TakeOn(sid[g])
    BY <1>1 DEF Begin, Protocol!TakeOn
  <2>3. QED
    BY <2>1, <2>2 DEF Protocol!ProtNext
<1>2. ASSUME NEW g \in Goroutine, Answer(g) PROVE Protocol!ProtNext \/ Unseen
  <2>1. popup[g] = "open" /\ UNCHANGED <<begun, reports>>
    BY <1>2 DEF Answer
  <2>2. sid[g] \in Session /\ sid[g] \in begun \cap NeedsApproval
    BY <2>1 DEF LabelInv, LabelAt, Flow, InDialog
  <2>3. consented' \in {consented, consented \cup {sid[g]}}
    BY <1>2 DEF Answer
  <2>4. Protocol!Agree(sid[g]) \/ Unseen
    BY <2>1, <2>2, <2>3 DEF Protocol!Agree, Unseen
  <2>5. QED
    BY <2>2, <2>4 DEF Protocol!ProtNext
<1>3. ASSUME NEW g \in Goroutine, Approve(g) PROVE Protocol!ProtNext \/ Unseen
  <2>1. pc[g] = "approve" /\ UNCHANGED <<begun, consented>>
    BY <1>3 DEF Approve, history
  <2>2. /\ sid[g] \in Session /\ sid[g] \in begun
        /\ approved[g] => (sid[g] \in NeedsApproval => sid[g] \in consented)
        /\ ~approved[g] => sid[g] \in NeedsApproval
    BY <2>1 DEF LabelInv, LabelAt, Flow, AfterDialog
  <2>3. \/ UNCHANGED reports
        \/ approved[g] /\ Protocol!Report(sid[g], "approved")
        \/ ~approved[g] /\ Protocol!Report(sid[g], "rejected")
    BY <1>3, <2>1 DEF Approve, Tell, Protocol!Report
  <2>4. \/ Unseen
        \/ Protocol!ReportApproved(sid[g]) \/ Protocol!ReportRejected(sid[g])
    BY <2>1, <2>2, <2>3 DEF Protocol!ReportApproved, Protocol!ReportRejected, Unseen
  <2>5. QED
    BY <2>2, <2>4 DEF Protocol!ProtNext
<1>4. ASSUME NEW g \in Goroutine, Ready(g) PROVE Protocol!ProtNext \/ Unseen
  <2>1. pc[g] = "ready" /\ UNCHANGED <<begun, consented>>
    BY <1>4 DEF Ready, history
  <2>2. sid[g] \in Session /\ "approved" \in reports[sid[g]]
    BY <2>1 DEF LabelInv, LabelAt, Flow, AfterDialog
  <2>3. UNCHANGED reports \/ Protocol!Report(sid[g], "ready")
    BY <1>4, <2>1 DEF Ready, Tell, Protocol!Report
  <2>4. Unseen \/ Protocol!ReportReady(sid[g])
    BY <2>1, <2>2, <2>3 DEF Protocol!ReportReady, Unseen
  <2>5. QED
    BY <2>2, <2>4 DEF Protocol!ProtNext
<1>5. ASSUME NEW g \in Goroutine, EndReport(g) PROVE Protocol!ProtNext \/ Unseen
  <2>1. pc[g] = "endReport" /\ UNCHANGED <<begun, consented>>
    BY <1>5 DEF EndReport, Move, history
  <2>2. sid[g] \in Session /\ sid[g] \in begun
    BY <2>1 DEF LabelInv, LabelAt
  <2>3. UNCHANGED reports \/ Protocol!Report(sid[g], "ended")
    BY <1>5, <2>1 DEF EndReport, Tell, Protocol!Report
  <2>4. Unseen \/ Protocol!ReportEnded(sid[g])
    BY <2>1, <2>2, <2>3 DEF Protocol!ReportEnded, Unseen
  <2>5. QED
    BY <2>2, <2>4 DEF Protocol!ProtNext
<1>6. CASE Crash
  BY <1>6 DEF Crash, history, Unseen
<1>7. ASSUME NEW h \in helpers, HelperEnds(h) PROVE Unseen
  BY <1>7 DEF HelperEnds, history, Unseen
<1>8. CASE UNCHANGED vars
  BY <1>8 DEF vars, history, Unseen
<1>9. QED
  BY <1>1, <1>2, <1>3, <1>4, <1>5, <1>6, <1>7, <1>8, UnseenSteps DEF Next, RequestStep, EndStep

\* However goroutines interleave, whichever calls fail and whenever the service
\* dies, the server and the user see the protocol.
THEOREM Refinement == Spec => ImplementsProtocol
<1>1. Init => Protocol!ProtInit
  BY DEF Init, Protocol!ProtInit
<1>2. IInv /\ [Next]_vars => [Protocol!ProtNext]_(Protocol!protVars)
  BY ProtocolStep
<1>3. QED
  BY <1>1, <1>2, Inductive, PTL DEF Spec, ImplementsProtocol, Protocol!ProtSpec

\* The server hears of a session in order: ready only after approved, and
\* approved, ready or ended only of a session that passed the gate here.
ReportsInOrder ==
  \A s \in Session : /\ "ready" \in reports[s] => "approved" \in reports[s]
                     /\ reports[s] # {} => s \in begun

\* A session is rejected only if the user was to be asked about it.
RejectedAsked == \A s \in Session : "rejected" \in reports[s] => s \in NeedsApproval

\* What follows from the protocol alone.
Promise == Consent /\ ReportsInOrder /\ RejectedAsked

LEMMA PromiseStep ==
  TypeOK /\ Promise /\ [Protocol!ProtNext]_(Protocol!protVars) => Promise'
<1> SUFFICES ASSUME TypeOK, Promise, [Protocol!ProtNext]_(Protocol!protVars) PROVE Promise'
  OBVIOUS
<1> USE ApprovalAssumption DEF TypeOK, Promise, Consent, ReportsInOrder, RejectedAsked
<1>1. ASSUME NEW s \in Session, Protocol!TakeOn(s) \/ Protocol!Agree(s) PROVE Promise'
  BY <1>1 DEF Protocol!TakeOn, Protocol!Agree
<1>2. ASSUME NEW s \in Session, NEW what, Protocol!Report(s, what)
      PROVE  /\ UNCHANGED <<begun, consented>>
             /\ reports'[s] = reports[s] \cup {what}
             /\ \A t \in Session \ {s} : reports'[t] = reports[t]
  BY <1>2 DEF Protocol!Report
<1>3. ASSUME NEW s \in Session, Protocol!ReportApproved(s) PROVE Promise'
  BY <1>2, <1>3 DEF Protocol!ReportApproved
<1>4. ASSUME NEW s \in Session, Protocol!ReportRejected(s) PROVE Promise'
  BY <1>2, <1>4 DEF Protocol!ReportRejected
<1>5. ASSUME NEW s \in Session, Protocol!ReportReady(s) PROVE Promise'
  BY <1>2, <1>5 DEF Protocol!ReportReady
<1>6. ASSUME NEW s \in Session, Protocol!ReportEnded(s) PROVE Promise'
  BY <1>2, <1>6 DEF Protocol!ReportEnded
<1>7. CASE UNCHANGED Protocol!protVars
  BY <1>7 DEF Protocol!protVars
<1>8. QED
  BY <1>1, <1>3, <1>4, <1>5, <1>6, <1>7 DEF Protocol!ProtNext

\* What the protocol promises, the sessions of the agent keep.
LEMMA PromiseKept == Spec => []Promise
<1>1. Init => Promise
  BY ApprovalAssumption DEF Init, Promise, Consent, ReportsInOrder, RejectedAsked
<1>2. IInv /\ Promise /\ [Next]_vars => Promise'
  BY ProtocolStep, PromiseStep DEF IInv
<1>3. QED
  BY <1>1, <1>2, Inductive, PTL DEF Spec

\* No session that asks for approval is reported approved or ready unless the
\* user said Yes to its own popup, however many requests, ends and crashes
\* overlap.
THEOREM ConsentHolds == Spec => []Consent
<1>1. Promise => Consent
  BY DEF Promise
<1>2. QED
  BY <1>1, PromiseKept, PTL

\* Whatever races, what the server hears of one session comes in order.
THEOREM ReportsOrdered == Spec => [](ReportsInOrder /\ RejectedAsked)
<1>1. Promise => ReportsInOrder /\ RejectedAsked
  BY DEF Promise
<1>2. QED
  BY <1>1, PromiseKept, PTL

-----------------------------------------------------------------------------
(* The manager and the helper, as long as nothing has raced *)

\* Past the gate and not in the popup.
Acting == BeforeDialog \cup AfterDialog

\* A step of g that leaves the manager alone and takes g past no check.
Quiet(g) ==
  /\ UNCHANGED manager /\ raced \subseteq raced'
  /\ \A s \in Session : reports[s] \subseteq reports'[s]
  /\ \A h \in Goroutine \ {g} : pc'[h] = pc[h] /\ sid'[h] = sid[h]
  /\ pc'[g] \in Acting => pc[g] \in Acting /\ sid'[g] = sid[g]

LEMMA ActingHasSession ==
  ASSUME LabelInv, NEW g \in Goroutine, pc[g] \in Acting PROVE sid[g] \in Session /\ sid[g] # 0
  BY SessionAssumption DEF LabelInv, LabelAt, Acting, Flow

LEMMA QuietManager ==
  ASSUME TypeOK, ManagerExact, NEW g \in Goroutine, Quiet(g) PROVE ManagerExact'
<1> SUFFICES ASSUME raced' = {} PROVE ManagerExact'
  BY DEF ManagerExact
<1>1. raced = {} /\ state' = state /\ session' = session
  BY DEF Quiet, manager
<1>2. state = "idle" <=> session = 0
  BY <1>1 DEF ManagerExact
<1>3. state = "active" => "ready" \in reports'[session]
  BY <1>1, <1>2 DEF ManagerExact, Quiet, TypeOK
<1>4. \A h \in Goroutine : pc'[h] \in Acting => pc[h] \in Acting /\ sid'[h] = sid[h]
  BY DEF Quiet
<1>5. \A h \in Goroutine : pc'[h] \in Acting =>
         session = sid'[h] /\ \A k \in Goroutine \ {h} : pc'[k] \notin Acting
  BY <1>1, <1>4 DEF ManagerExact, Acting
<1>6. QED
  BY <1>1, <1>2, <1>3, <1>5 DEF ManagerExact, Acting

LEMMA QuietRequest ==
  ASSUME TypeOK, NEW g \in Goroutine,
         \/ \E s \in Session : Request(g, s)
         \/ Busy(g) \/ PreStart(g) \/ PreWait(g) \/ OpenDialog(g) \/ RegisterDialog(g)
         \/ Answer(g) \/ DialogDone(g)
  PROVE  Quiet(g)
<1> USE DEF TypeOK, Quiet, Acting, BeforeDialog, AfterDialog, Move, Goto, manager, locals, history
<1>1. CASE \E s \in Session : Request(g, s)
  BY <1>1 DEF Request
<1>2. CASE Busy(g)
  BY <1>2 DEF Busy, Return
<1>3. CASE PreStart(g)
  BY <1>3 DEF PreStart
<1>4. CASE PreWait(g)
  BY <1>4 DEF PreWait
<1>5. CASE OpenDialog(g)
  BY <1>5 DEF OpenDialog
<1>6. CASE RegisterDialog(g)
  BY <1>6 DEF RegisterDialog
<1>7. CASE Answer(g)
  BY <1>7 DEF Answer
<1>8. CASE DialogDone(g)
  BY <1>8 DEF DialogDone
<1>9. QED
  BY <1>1, <1>2, <1>3, <1>4, <1>5, <1>6, <1>7, <1>8

LEMMA QuietReport ==
  ASSUME TypeOK, LabelInv, NEW g \in Goroutine,
         Approve(g) \/ Restart(g) \/ ReWait(g) \/ StartSecondary(g) \/ Ready(g)
  PROVE  Quiet(g)
<1> USE DEF TypeOK, Quiet, Acting, BeforeDialog, AfterDialog, Move, Goto, manager, locals, history
<1>0. ASSUME NEW s, NEW r, Tell(s, r) PROVE \A t \in Session : reports[t] \subseteq reports'[t]
  BY <1>0 DEF Tell
<1>1. CASE Approve(g)
  <2>1. \A s \in Session : reports[s] \subseteq reports'[s]
    BY <1>0, <1>1 DEF Approve
  <2>2. QED
    BY <1>1, <2>1 DEF Approve
<1>2. CASE Restart(g)
  BY <1>2 DEF Restart
<1>3. CASE ReWait(g)
  BY <1>3 DEF ReWait
<1>4. CASE StartSecondary(g)
  BY <1>4 DEF StartSecondary
<1>5. CASE Ready(g)
  <2>1. \A s \in Session : reports[s] \subseteq reports'[s]
    BY <1>0, <1>5 DEF Ready
  <2>2. QED
    BY <1>5, <2>1 DEF Ready
<1>6. QED
  BY <1>1, <1>2, <1>3, <1>4, <1>5

LEMMA QuietEnd ==
  ASSUME TypeOK, NEW g \in Goroutine,
         \/ \E s \in Session : EndSignal(g, s)
         \/ UserEnd(g) \/ EndCheck(g) \/ EndDialog(g) \/ EndRead(g) \/ EndReport(g)
         \/ ResetDialog(g) \/ ResetHelper(g)
  PROVE  Quiet(g)
<1> USE DEF TypeOK, Quiet, Acting, BeforeDialog, AfterDialog, Move, Goto, manager, locals, history
<1>1. CASE \E s \in Session : EndSignal(g, s)
  BY <1>1 DEF EndSignal
<1>2. CASE UserEnd(g)
  BY <1>2 DEF UserEnd
<1>3. CASE EndCheck(g)
  BY <1>3 DEF EndCheck, Return
<1>4. CASE EndDialog(g)
  BY <1>4 DEF EndDialog
<1>5. CASE EndRead(g)
  BY <1>5 DEF EndRead, Return
<1>6. CASE EndReport(g)
  <2>1. \A s \in Session : reports[s] \subseteq reports'[s]
    BY <1>6 DEF EndReport, Tell
  <2>2. QED
    BY <1>6, <2>1 DEF EndReport
<1>7. CASE ResetDialog(g)
  BY <1>7 DEF ResetDialog
<1>8. CASE ResetHelper(g)
  BY <1>8 DEF ResetHelper, MarkRace
<1>9. QED
  BY <1>1, <1>2, <1>3, <1>4, <1>5, <1>6, <1>7, <1>8

\* A step that notes no race had no other goroutine that carries a session.
LEMMA Unraced ==
  ASSUME NEW g, MarkRace(g), raced' = {}
  PROVE  raced' = raced /\ \A h \in Goroutine \ {g} : pc[h] \notin Carrying
  BY DEF MarkRace

\* The manager stays exact.
LEMMA ManagerStep == TypeOK /\ LabelInv /\ ManagerExact /\ [Next]_vars => ManagerExact'
<1> SUFFICES ASSUME TypeOK, LabelInv, ManagerExact, [Next]_vars PROVE ManagerExact'
  OBVIOUS
<1>1. ASSUME NEW g \in Goroutine, Begin(g) PROVE ManagerExact'
  <2> SUFFICES ASSUME raced' = {} PROVE ManagerExact'
    BY DEF ManagerExact
  <2>1. /\ pc[g] = "begin" /\ pc'[g] = "prestart" /\ sid' = sid
        /\ \A h \in Goroutine \ {g} : pc'[h] = pc[h]
        /\ state = "idle" /\ state' = "pending" /\ session' = sid[g]
        /\ raced = {}
    BY <1>1 DEF Begin, Move, Goto, TypeOK, locals
  <2>2. sid[g] # 0
    BY <2>1, SessionAssumption DEF LabelInv, LabelAt
  <2>3. \A h \in Goroutine : pc[h] \notin Acting
    BY <2>1, ActingHasSession DEF ManagerExact, Acting
  <2>4. QED
    BY <2>1, <2>2, <2>3 DEF ManagerExact, Acting
<1>2. ASSUME NEW g \in Goroutine, Recheck(g) PROVE ManagerExact'
  <2> SUFFICES ASSUME raced' = {} PROVE ManagerExact'
    BY DEF ManagerExact
  <2>1. UNCHANGED <<state, session, reports>> /\ pc[g] = "recheck"
    BY <1>2 DEF Recheck, manager
  <2>2. CASE session = sid[g] /\ Goto(g, "approve") /\ MarkRace(g) /\ UNCHANGED locals
    <3>1. raced' = raced /\ \A h \in Goroutine \ {g} : pc[h] \notin Acting
      BY <2>2, Unraced DEF Carrying, Acting
    <3>2. pc'[g] = "approve" /\ sid' = sid /\ \A h \in Goroutine \ {g} : pc'[h] = pc[h]
      BY <2>2 DEF Goto, TypeOK, locals
    <3>3. QED
      BY <2>1, <2>2, <3>1, <3>2 DEF ManagerExact, Acting
  <2>3. CASE Return(g) /\ UNCHANGED raced
    <3>1. Quiet(g)
      BY <2>1, <2>3 DEF Quiet, Return, Goto, manager, TypeOK, Acting, BeforeDialog, AfterDialog
    <3>2. QED
      BY <3>1, QuietManager
  <2>4. QED
    BY <1>2, <2>2, <2>3 DEF Recheck
<1>3. ASSUME NEW g \in Goroutine, SetApproved(g) \/ SetConnecting(g) \/ SetActive(g)
      PROVE  ManagerExact'
  <2> SUFFICES ASSUME raced' = {} PROVE ManagerExact'
    BY DEF ManagerExact
  <2>1. /\ pc[g] \in Acting /\ UNCHANGED <<session, reports, raced>>
        /\ state' # "idle"
        /\ state' = "active" => pc[g] = "setActive"
        /\ pc'[g] \in Acting \cup {"free"}
        /\ \A h \in Goroutine \ {g} : pc'[h] = pc[h] /\ sid'[h] = sid[h]
        /\ pc'[g] \in Acting => sid'[g] = sid[g]
    BY <1>3 DEF SetApproved, SetConnecting, SetActive, Assign, Move, Goto, Return, Acting,
                BeforeDialog, AfterDialog, TypeOK, locals, history
  <2>2. session = sid[g] /\ session # 0 /\ \A h \in Goroutine \ {g} : pc[h] \notin Acting
    BY <2>1, ActingHasSession DEF ManagerExact, Acting
  <2>3. pc[g] = "setActive" => "ready" \in reports[sid[g]]
    BY DEF LabelInv, LabelAt
  <2>4. QED
    BY <2>1, <2>2, <2>3 DEF ManagerExact, Acting
<1>4. ASSUME NEW g \in Goroutine, ResetState(g) PROVE ManagerExact'
  <2> SUFFICES ASSUME raced' = {} PROVE ManagerExact'
    BY DEF ManagerExact
  <2>1. /\ state' = "idle" /\ session' = 0 /\ pc'[g] = "free"
        /\ \A h \in Goroutine \ {g} : pc'[h] = pc[h] /\ pc[h] \notin Acting
    BY <1>4, Unraced DEF ResetState, Return, Goto, Carrying, Acting, TypeOK
  <2>2. \A h \in Goroutine : pc'[h] \notin Acting
    BY <2>1 DEF Acting, BeforeDialog, AfterDialog
  <2>3. QED
    BY <2>1, <2>2 DEF ManagerExact, Acting
<1>5. CASE Crash
  <2>1. state' = "idle" /\ session' = 0 /\ \A h \in Goroutine : pc'[h] \notin Acting
    BY <1>5 DEF Crash, Acting, BeforeDialog, AfterDialog
  <2>2. QED
    BY <2>1 DEF ManagerExact, Acting
<1>6. ASSUME NEW h \in helpers, HelperEnds(h) PROVE ManagerExact'
  BY <1>6 DEF ManagerExact, HelperEnds, manager, locals, history
<1>7. CASE UNCHANGED vars
  BY <1>7 DEF ManagerExact, vars, manager, locals, history
<1>8. QED
  BY <1>1, <1>2, <1>3, <1>4, <1>5, <1>6, <1>7, QuietManager, QuietRequest, QuietReport, QuietEnd
     DEF Next, RequestStep, EndStep

\* The helper answers, and the session is about to use it.
HelperUp == {"secondary", "setConnecting", "ready", "setActive"}

\* What a label says of the helper: once it has answered it is up or has ended by
\* itself; when a reset is to write the state, only what its Stop could not end is
\* left; and while a session is active nobody else acts.
HelperAt ==
  raced = {} =>
    /\ state = "active" => \A g \in Goroutine : pc[g] \notin Acting
    /\ \A g \in Goroutine :
         /\ pc[g] \in HelperUp => "primary" \in helpers \/ lost
         /\ pc[g] = "resetState" => /\ helpers \subseteq strays
                                    /\ \A h \in Goroutine : pc[h] \notin Acting

HelperInv == ManagerExact /\ HelperExact /\ HelperAt

\* A step that leaves the helper alone as well and neither ends a wait for it nor
\* a reset.
Calm(g) ==
  /\ Quiet(g)
  /\ UNCHANGED running
  /\ pc'[g] = "resetState" <=> pc[g] = "resetState"
  /\ pc'[g] \in HelperUp => pc[g] \in HelperUp

LEMMA CalmHelper ==
  ASSUME TypeOK, HelperExact, HelperAt, NEW g \in Goroutine, Calm(g)
  PROVE  HelperExact' /\ HelperAt'
<1> SUFFICES ASSUME raced' = {} PROVE HelperExact' /\ HelperAt'
  BY DEF HelperExact, HelperAt
<1>1. raced = {} /\ state' = state /\ UNCHANGED <<helpers, strays, lost>>
  BY DEF Calm, Quiet, manager, running
<1>2. \A h \in Goroutine : /\ pc'[h] \in Acting => pc[h] \in Acting
                           /\ pc'[h] = "resetState" <=> pc[h] = "resetState"
                           /\ pc'[h] \in HelperUp => pc[h] \in HelperUp
  BY DEF Calm, Quiet
<1>3. HelperExact'
  BY <1>1, <1>2 DEF HelperExact
<1>4. HelperAt'
  BY <1>1, <1>2 DEF HelperAt
<1>5. QED
  BY <1>3, <1>4

LEMMA CalmSteps ==
  ASSUME TypeOK, LabelInv, NEW g \in Goroutine,
         \/ \E s \in Session : Request(g, s) \/ EndSignal(g, s)
         \/ UserEnd(g) \/ Busy(g) \/ PreWait(g) \/ OpenDialog(g) \/ RegisterDialog(g)
         \/ Answer(g) \/ DialogDone(g) \/ Approve(g) \/ Ready(g)
         \/ EndCheck(g) \/ EndDialog(g) \/ EndRead(g) \/ EndReport(g) \/ ResetDialog(g)
  PROVE  Calm(g)
<1>1. Quiet(g)
  BY QuietRequest, QuietReport, QuietEnd
<1> USE DEF TypeOK, HelperUp, Move, Goto, Return
<1>2. CASE \/ \E s \in Session : Request(g, s) \/ EndSignal(g, s)
           \/ UserEnd(g) \/ Busy(g) \/ PreWait(g) \/ OpenDialog(g) \/ RegisterDialog(g)
  BY <1>1, <1>2 DEF Calm, Request, EndSignal, UserEnd, Busy, PreWait, OpenDialog, RegisterDialog
<1>3. CASE Answer(g) \/ DialogDone(g) \/ Approve(g) \/ Ready(g)
  BY <1>1, <1>3 DEF Calm, Answer, DialogDone, Approve, Ready
<1>4. CASE EndCheck(g) \/ EndDialog(g) \/ EndRead(g) \/ EndReport(g) \/ ResetDialog(g)
  BY <1>1, <1>4 DEF Calm, EndCheck, EndDialog, EndRead, EndReport, ResetDialog
<1>5. QED
  BY <1>2, <1>3, <1>4

\* What may start or stop the helper: the goroutine that alone acts.
LEMMA ActingHelper ==
  ASSUME TypeOK, LabelInv, ManagerExact, HelperAt, NEW g \in Goroutine,
         PreStart(g) \/ Restart(g) \/ ReWait(g) \/ StartSecondary(g)
  PROVE  HelperExact' /\ HelperAt'
<1> SUFFICES ASSUME raced' = {} PROVE HelperExact' /\ HelperAt'
  BY DEF HelperExact, HelperAt
<1>1. raced = {} /\ state' = state /\ pc[g] \in Acting \ {"resetState"}
  BY DEF PreStart, Restart, ReWait, StartSecondary, manager, history, Move, Acting,
         BeforeDialog, AfterDialog
<1>2. state # "idle" /\ state # "active" /\ \A h \in Goroutine \ {g} : pc[h] \notin Acting
  BY <1>1, ActingHasSession DEF ManagerExact, HelperAt, Acting
<1>3. \A h \in Goroutine : pc[h] # "resetState"
  BY <1>1 DEF HelperAt
<1>4. /\ \A h \in Goroutine \ {g} : pc'[h] = pc[h] /\ pc'[h] \notin HelperUp
      /\ pc'[g] # "resetState"
  BY <1>2 DEF PreStart, Restart, ReWait, StartSecondary, Move, Goto, TypeOK, Acting,
              AfterDialog, HelperUp
<1>5. pc'[g] \in HelperUp => "primary" \in helpers' \/ lost'
  <2>1. pc[g] = "secondary" => "primary" \in helpers \/ lost
    BY <1>1 DEF HelperAt, HelperUp
  <2>2. QED
    BY <2>1 DEF running, PreStart, Restart, ReWait, StartSecondary, Move, Goto, TypeOK, HelperUp
<1>6. QED
  BY <1>1, <1>2, <1>3, <1>4, <1>5 DEF HelperExact, HelperAt

LEMMA HelperStep == TypeOK /\ LabelInv /\ HelperInv /\ [Next]_vars => HelperExact' /\ HelperAt'
<1> SUFFICES ASSUME TypeOK, LabelInv, ManagerExact, HelperExact, HelperAt, [Next]_vars
             PROVE  HelperExact' /\ HelperAt'
  BY DEF HelperInv
<1>1. ASSUME NEW g \in Goroutine, Begin(g) PROVE HelperExact' /\ HelperAt'
  <2> SUFFICES ASSUME raced' = {} PROVE HelperExact' /\ HelperAt'
    BY DEF HelperExact, HelperAt
  <2>1. /\ pc'[g] = "prestart" /\ \A h \in Goroutine \ {g} : pc'[h] = pc[h]
        /\ pc[g] = "begin" /\ raced = {} /\ ~TooEarly(g)
        /\ state = "idle" /\ state' = "pending" /\ UNCHANGED <<helpers, strays, lost>>
    BY <1>1 DEF Begin, Move, Goto, TypeOK, running
  <2>2. \A h \in Goroutine : pc'[h] # "resetState" /\ (pc'[h] \in HelperUp => pc[h] \in HelperUp)
    BY <2>1 DEF TooEarly, Reset, HelperUp
  <2>3. QED
    BY <2>1, <2>2 DEF HelperExact, HelperAt
<1>2. ASSUME NEW g \in Goroutine, Recheck(g) PROVE HelperExact' /\ HelperAt'
  <2> SUFFICES ASSUME raced' = {} PROVE HelperExact' /\ HelperAt'
    BY DEF HelperExact, HelperAt
  <2>1. UNCHANGED <<state, session, reports, helpers, strays, lost>> /\ pc[g] = "recheck"
    BY <1>2 DEF Recheck, manager, running
  <2>2. CASE state = "pending" /\ Goto(g, "approve") /\ MarkRace(g)
    <3>1. raced = {} /\ \A h \in Goroutine \ {g} : pc[h] # "resetState"
      BY <2>2, Unraced DEF Carrying, Reset
    <3>2. pc'[g] = "approve" /\ \A h \in Goroutine \ {g} : pc'[h] = pc[h]
      BY <2>2 DEF Goto, TypeOK
    <3>3. QED
      BY <2>1, <2>2, <3>1, <3>2 DEF HelperExact, HelperAt, HelperUp
  <2>3. CASE Return(g) /\ UNCHANGED raced
    <3>1. Calm(g)
      BY <2>1, <2>3 DEF Calm, Quiet, Return, Goto, manager, running, TypeOK, Acting,
                        BeforeDialog, AfterDialog, HelperUp
    <3>2. QED
      BY <3>1, CalmHelper
  <2>4. QED
    BY <1>2, <2>2, <2>3 DEF Recheck
<1>3. ASSUME NEW g \in Goroutine, SetApproved(g) \/ SetConnecting(g) \/ SetActive(g)
      PROVE  HelperExact' /\ HelperAt'
  <2> SUFFICES ASSUME raced' = {} PROVE HelperExact' /\ HelperAt'
    BY DEF HelperExact, HelperAt
  <2>1. /\ pc[g] \in Acting /\ UNCHANGED <<helpers, strays, lost, raced>>
        /\ state' # "idle"
        /\ state' = "active" => pc[g] = "setActive" /\ pc'[g] = "free"
        /\ pc'[g] # "resetState"
        /\ pc'[g] \in HelperUp => pc[g] \in HelperUp
        /\ \A h \in Goroutine \ {g} : pc'[h] = pc[h]
    BY <1>3 DEF SetApproved, SetConnecting, SetActive, Assign, Move, Goto, Return, Acting,
                BeforeDialog, AfterDialog, TypeOK, history, running, HelperUp
  <2>2. \A h \in Goroutine \ {g} : pc[h] \notin Acting
    BY <2>1 DEF ManagerExact, Acting
  <2>3. \A h \in Goroutine : pc'[h] # "resetState"
    BY <2>1 DEF HelperAt
  <2>4. state' = "active" => ("primary" \in helpers' \/ lost') /\ \A h \in Goroutine : pc'[h] \notin Acting
    BY <2>1, <2>2 DEF HelperAt, HelperUp, Acting, BeforeDialog, AfterDialog
  <2>5. QED
    BY <2>1, <2>3, <2>4 DEF HelperExact, HelperAt
<1>4. ASSUME NEW g \in Goroutine, ResetHelper(g) PROVE HelperExact' /\ HelperAt'
  <2> SUFFICES ASSUME raced' = {} PROVE HelperExact' /\ HelperAt'
    BY DEF HelperExact, HelperAt
  <2>1. /\ helpers' \subseteq strays' /\ state' = state /\ pc'[g] = "resetState" /\ raced = {}
        /\ \A h \in Goroutine \ {g} : pc'[h] = pc[h] /\ pc[h] \notin Acting
    BY <1>4, Unraced DEF ResetHelper, StopHelpers, Move, Goto, Carrying, Acting, TypeOK, manager
  <2>2. \A h \in Goroutine : pc'[h] \notin Acting /\ pc'[h] \notin HelperUp
    BY <2>1 DEF Acting, BeforeDialog, AfterDialog, HelperUp
  <2>3. QED
    BY <2>1, <2>2 DEF HelperExact, HelperAt
<1>5. ASSUME NEW g \in Goroutine, ResetState(g) PROVE HelperExact' /\ HelperAt'
  <2> SUFFICES ASSUME raced' = {} PROVE HelperExact' /\ HelperAt'
    BY DEF HelperExact, HelperAt
  <2>1. /\ pc[g] = "resetState" /\ pc'[g] = "free" /\ state' = "idle" /\ UNCHANGED <<helpers, strays>>
        /\ raced = {} /\ \A h \in Goroutine \ {g} : pc'[h] = pc[h]
    BY <1>5, Unraced DEF ResetState, Return, Goto, TypeOK, running
  <2>2. helpers \subseteq strays /\ \A h \in Goroutine : pc[h] \notin Acting
    BY <2>1 DEF HelperAt
  <2>3. \A h \in Goroutine : pc'[h] \notin Acting /\ pc'[h] \notin HelperUp
    BY <2>1, <2>2 DEF Acting, BeforeDialog, AfterDialog, HelperUp
  <2>4. QED
    BY <2>1, <2>2, <2>3 DEF HelperExact, HelperAt
<1>6. CASE Crash
  <2>1. /\ state' = "idle" /\ helpers' = helpers /\ strays' = helpers
        /\ \A h \in Goroutine : pc'[h] = "free"
    BY <1>6 DEF Crash
  <2>2. QED
    BY <2>1 DEF HelperExact, HelperAt, HelperUp
<1>7. ASSUME NEW h \in helpers, HelperEnds(h) PROVE HelperExact' /\ HelperAt'
  <2>1. /\ UNCHANGED <<state, pc, raced>>
        /\ helpers' = helpers \ {h} /\ strays' = strays \ {h}
        /\ "primary" \in helpers \/ lost => "primary" \in helpers' \/ lost'
    BY <1>7 DEF HelperEnds, manager, history
  <2>2. QED
    BY <2>1 DEF HelperExact, HelperAt
<1>8. CASE UNCHANGED vars
  BY <1>8 DEF HelperExact, HelperAt, vars, manager, running, history
<1>9. QED
  BY <1>1, <1>2, <1>3, <1>4, <1>5, <1>6, <1>7, <1>8, CalmSteps, CalmHelper, ActingHelper
     DEF Next, RequestStep, EndStep

\* Without a race the manager, the session and the goroutine that carries it
\* agree, however the goroutines interleave and whatever fails.
THEOREM ManagerStaysExact == Spec => []ManagerExact
<1>1. Init => ManagerExact
  BY DEF Init, ManagerExact, BeforeDialog, AfterDialog
<1>2. IInv /\ ManagerExact /\ [Next]_vars => ManagerExact'
  BY ManagerStep DEF IInv
<1>3. QED
  BY <1>1, <1>2, Inductive, PTL DEF Spec

\* Without a race an idle manager has left only those helpers running that its
\* Stop could not end or a dead service left, and an active session has its
\* helper unless it ended by itself: whichever helpers survive a Stop, end by
\* themselves or outlive the service.
THEOREM HelperStaysExact == Spec => []HelperExact
<1>1. Init => HelperInv
  BY DEF Init, HelperInv, ManagerExact, HelperExact, HelperAt, HelperUp, BeforeDialog, AfterDialog
<1>2. IInv /\ HelperInv /\ [Next]_vars => HelperInv'
  BY ManagerStep, HelperStep DEF IInv, HelperInv
<1>3. HelperInv => HelperExact
  BY DEF HelperInv
<1>4. QED
  BY <1>1, <1>2, <1>3, Inductive, PTL DEF Spec

----------------------------------------------------------------------------
(* The goroutines come to their end *)

\* A step of g that brings it nearer to its end.
Advances(g) ==
  /\ Ahead[pc'[g]] < Ahead[pc[g]]
  /\ pc[g] \in Ending => \/ pc'[g] \in Ending
                         \/ pc'[g] = "free" /\ state' = "idle" /\ session' = 0

LEMMA RequestAdvances ==
  ASSUME TypeOK, NEW g \in Goroutine, RequestStep(g)
  PROVE  Advances(g) /\ \A h \in Goroutine \ {g} : pc'[h] = pc[h]
<1> USE DEF Move, Goto, Return, Ahead, Ending, Reset, Advances
<1>0. pc \in [Goroutine -> Label]
  BY DEF TypeOK
<1>1. CASE Busy(g) \/ Begin(g) \/ PreStart(g)
  BY <1>0, <1>1 DEF Busy, Begin, PreStart
<1>2. CASE PreWait(g)
  BY <1>0, <1>2 DEF PreWait
<1>3. CASE OpenDialog(g) \/ RegisterDialog(g) \/ DialogDone(g)
  BY <1>0, <1>3 DEF OpenDialog, RegisterDialog, DialogDone
<1>4. CASE Recheck(g)
  BY <1>0, <1>4 DEF Recheck
<1>5. CASE Approve(g)
  BY <1>0, <1>5 DEF Approve
<1>6. CASE SetApproved(g) \/ SetConnecting(g) \/ SetActive(g)
  BY <1>0, <1>6 DEF SetApproved, SetConnecting, Assign, SetActive
<1>7. CASE Restart(g) \/ ReWait(g) \/ StartSecondary(g) \/ Ready(g)
  BY <1>0, <1>7 DEF Restart, ReWait, StartSecondary, Ready
<1>8. QED
  BY <1>1, <1>2, <1>3, <1>4, <1>5, <1>6, <1>7 DEF RequestStep

LEMMA EndAdvances ==
  ASSUME TypeOK, NEW g \in Goroutine, EndStep(g)
  PROVE  Advances(g) /\ \A h \in Goroutine \ {g} : pc'[h] = pc[h]
<1> USE DEF Move, Goto, Return, Ahead, Ending, Reset, Advances
<1>0. pc \in [Goroutine -> Label]
  BY DEF TypeOK
<1>1. CASE EndCheck(g) \/ EndDialog(g) \/ EndRead(g)
  BY <1>0, <1>1 DEF EndCheck, EndDialog, EndRead
<1>2. CASE EndReport(g) \/ ResetDialog(g) \/ ResetHelper(g)
  BY <1>0, <1>2 DEF EndReport, ResetDialog, ResetHelper
<1>3. CASE ResetState(g)
  BY <1>0, <1>3 DEF ResetState
<1>4. QED
  BY <1>1, <1>2, <1>3 DEF EndStep

\* For any goroutines and sessions and whatever fails: a goroutine makes at most
\* eighteen steps from a request and seven from an end, and the reset of an end
\* that found a session is not cut short.
THEOREM EndsCarriedOut == Spec => GoroutinesAdvance
<1>1. ASSUME TypeOK, [Next]_vars, NEW g \in Goroutine
      PROVE  /\ \/ pc'[g] = pc[g] \/ pc[g] = "free"
                \/ Ahead[pc'[g]] < Ahead[pc[g]]
             /\ pc[g] \in Ending => \/ pc'[g] \in Ending
                                    \/ pc'[g] = "free" /\ state' = "idle" /\ session' = 0
  <2>0. pc \in [Goroutine -> Label]
    BY <1>1 DEF TypeOK
  <2>1. ASSUME NEW h \in Goroutine, RequestStep(h) \/ EndStep(h) PROVE \/ h = g /\ Advances(g)
                                                                       \/ h # g /\ pc'[g] = pc[g]
    BY <1>1, <2>1, RequestAdvances, EndAdvances
  <2>2. ASSUME NEW h \in Goroutine, (\E s \in Session : Request(h, s) \/ EndSignal(h, s)) \/ UserEnd(h)
        PROVE  pc'[g] = pc[g] \/ pc[g] = "free"
    BY <2>0, <2>2 DEF Request, EndSignal, UserEnd, Move, Goto
  <2>3. ASSUME NEW h \in Goroutine, Answer(h) PROVE pc'[g] = pc[g]
    BY <2>3 DEF Answer
  <2>4. CASE Crash
    <3>1. pc'[g] = "free" /\ state' = "idle" /\ session' = 0
      BY <2>4 DEF Crash
    <3>2. pc[g] = "free" \/ Ahead[pc'[g]] < Ahead[pc[g]]
      BY <2>0, <3>1 DEF Ahead, Label, Flow, BeforeDialog, InDialog, AfterDialog, EndPath, Reset
    <3>3. QED
      BY <3>1, <3>2
  <2>5. ASSUME NEW h \in helpers, HelperEnds(h) PROVE pc'[g] = pc[g]
    BY <2>5 DEF HelperEnds
  <2>6. CASE UNCHANGED vars
    BY <2>6 DEF vars
  <2>7. QED
    BY <1>1, <2>1, <2>2, <2>3, <2>4, <2>5, <2>6 DEF Next, Advances, Ending, Reset
<1>2. TypeOK /\ [Next]_vars =>
        [\A g \in Goroutine :
           /\ \/ pc'[g] = pc[g] \/ pc[g] = "free"
              \/ Ahead[pc'[g]] < Ahead[pc[g]]
           /\ pc[g] \in Ending => \/ pc'[g] \in Ending
                                  \/ pc'[g] = "free" /\ state' = "idle" /\ session' = 0]_vars
  BY <1>1
<1>3. QED
  BY <1>2, TypeCorrect, PTL DEF Spec, GoroutinesAdvance

=============================================================================
