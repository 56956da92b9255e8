--------------------------- MODULE RemoteSupport ---------------------------
(***************************************************************************)
(* Remote support sessions: SessionManager and VNCServer of                *)
(* internal/remotesupport, and handleRSRequest and handleRSEnd of          *)
(* cmd/service/core.go, which start one goroutine per request and per end. *)
(*                                                                         *)
(* sm.mu protects only state and session and is released before every      *)
(* call; the helper process, the approval popup and the server are touched *)
(* without it.  An action is one critical section of sm.mu or approvalMu,  *)
(* or one call to the helper, the popup or the server.                     *)
(***************************************************************************)
EXTENDS Integers, FiniteSets

CONSTANTS
  Session,        \* the session ids of the server (never 0)
  Goroutine,      \* the goroutines that may exist at one time
  NeedsApproval,  \* sessions requested with RequiresApproval
  Unkillable,     \* the helpers that may survive VNCServer.Stop
  NoOne           \* no goroutine

ASSUME SessionAssumption == Session \subseteq Nat \ {0}
ASSUME ApprovalAssumption == NeedsApproval \subseteq Session
ASSUME UnkillableAssumption == Unkillable \subseteq {"primary", "secondary"}
ASSUME NoOneAssumption == NoOne \notin Goroutine

VARIABLES
  state,     \* SessionManager.state
  session,   \* SessionManager.session, 0 when there is none
  pc,        \* where each goroutine is
  sid,       \* the session id a goroutine works for
  approved,  \* the local variable approved of HandleRequest
  dual,      \* monitorCount >= 2
  dialog,    \* approvalProc: the goroutine whose popup it holds, or NoOne
  popup,     \* the popup and the answer file of a goroutine
  helpers    \* the rshelper.exe processes that run: one that answers on the
             \* first port, one for the second monitor

VARIABLES
  reports,   \* what the server was told of each session
  consented, \* history: sessions whose popup was answered with Yes
  begun,     \* history: sessions that passed the gate of HandleRequest
  raced,     \* history: which of the races below have happened
  strays,    \* history: helpers that a Stop or the end of the service has left
  lost       \* history: the helper of the first port has ended by itself, and
             \* none was started or stopped since

manager == <<state, session>>
locals  == <<sid, approved, dual>>
popups  == <<dialog, popup>>
running == <<helpers, strays, lost>>
history == <<consented, begun, raced>>
vars    == <<manager, pc, locals, popups, running, reports, history>>

States == {"idle", "pending", "approved", "connecting", "active"}

\* Labels of HandleRequest before, in and after the approval popup.
BeforeDialog == {"prestart", "prewait"}
InDialog     == {"openDialog", "registerDialog", "waitDialog", "recheck"}
AfterDialog  == {"approve", "setApproved", "restart", "rewait", "secondary",
                 "setConnecting", "ready", "setActive"}
Flow    == BeforeDialog \cup InDialog \cup AfterDialog
EndPath == {"endCheck", "endDialog", "endRead", "endReport"}
Reset   == {"resetDialog", "resetHelper", "resetState"}
Label   == {"free", "begin"} \cup Flow \cup EndPath \cup Reset

Report == {"approved", "rejected", "ready", "ended"}

Init ==
  /\ state = "idle"
  /\ session = 0
  /\ pc = [g \in Goroutine |-> "free"]
  /\ sid = [g \in Goroutine |-> 0]
  /\ approved = [g \in Goroutine |-> FALSE]
  /\ dual = [g \in Goroutine |-> FALSE]
  /\ dialog = NoOne
  /\ popup = [g \in Goroutine |-> "none"]
  /\ helpers = {} /\ strays = {} /\ lost = FALSE
  /\ reports = [s \in Session |-> {}]
  /\ consented = {}
  /\ begun = {}
  /\ raced = {}

-----------------------------------------------------------------------------

Goto(g, label) == pc' = [pc EXCEPT ![g] = label]

\* One step of g to label, from the label where it is.
Move(g, from, to) == pc[g] = from /\ Goto(g, to)

\* CloseApprovalDialogFromService: whatever popup the globals hold is killed
\* and its answer file removed.
CloseDialog ==
  /\ dialog' = NoOne
  /\ popup' = [g \in Goroutine |-> IF g = dialog THEN "none" ELSE popup[g]]

\* VNCServer.Stop tries to end every helper: rshelper -kill, Kill, taskkill.  It
\* ignores their errors, so that a helper may survive it.
Survivors == SUBSET (helpers \cap Unkillable)

StopHelpers ==
  /\ helpers' \in Survivors
  /\ strays' = helpers'
  /\ lost' = FALSE

\* VNCServer.Start stops every helper first, then starts one.
StartHelper ==
  /\ strays' \in Survivors
  /\ helpers' = strays' \cup {"primary"}
  /\ lost' = FALSE

\* rshelper.exe is missing, or cannot be started after the others were stopped.
StartFails == UNCHANGED running \/ StopHelpers

\* A helper process ends by itself, or the user ends it; nobody watches it.
HelperEnds(h) ==
  /\ h \in helpers
  /\ helpers' = helpers \ {h}
  /\ strays' = strays \ {h}
  /\ lost' = (lost \/ h = "primary")
  /\ UNCHANGED <<manager, pc, locals, popups, reports, history>>

\* A goroutine that returns forgets its locals.
Return(g) ==
  /\ Goto(g, "free")
  /\ sid' = [sid EXCEPT ![g] = 0]
  /\ approved' = [approved EXCEPT ![g] = FALSE]
  /\ dual' = [dual EXCEPT ![g] = FALSE]

\* A goroutine carries a session when nothing will stop it from writing state
\* or the helper: not in the popup, where Recheck still comes.
Carrying == BeforeDialog \cup AfterDialog \cup Reset

\* A reset, or a check that passes, while another goroutine carries a session
\* is a race.
MarkRace(g) ==
  raced' = raced \cup (IF \E h \in Goroutine \ {g} : pc[h] \in Carrying THEN {"end"} ELSE {})

-----------------------------------------------------------------------------
(* HandleRequest *)

\* handleRSRequest: a request arrives, for the first time or again, late or
\* not, by heartbeat or by WebSocket.
Request(g, s) ==
  /\ Move(g, "free", "begin")
  /\ sid' = [sid EXCEPT ![g] = s]
  /\ UNCHANGED <<manager, approved, dual, popups, running, reports, history>>

\* The gate: a request that finds a session under way is dropped.
Busy(g) ==
  /\ pc[g] = "begin"
  /\ state # "idle"
  /\ Return(g)
  /\ UNCHANGED <<manager, popups, running, reports, history>>

\* The session of g begins while an end is still at work, or while an earlier
\* goroutine of the same, cancelled session still waits for its popup.
TooEarly(g) ==
  \E h \in Goroutine \ {g} :
    \/ pc[h] \in {"endDialog", "endRead", "endReport"} \cup Reset
    \/ pc[h] \in Flow /\ sid[h] = sid[g]

Begin(g) ==
  /\ Move(g, "begin", "prestart")
  /\ state = "idle"
  /\ state' = "pending"
  /\ session' = sid[g]
  /\ begun' = begun \cup {sid[g]}
  /\ raced' = raced \cup (IF TooEarly(g) THEN {"again"} ELSE {})
  /\ UNCHANGED <<locals, popups, running, reports, consented>>

\* The helper is started before the user is asked; it may be missing.
PreStart(g) ==
  /\ pc[g] = "prestart"
  /\ \/ Goto(g, "prewait") /\ StartHelper
     \/ Goto(g, "resetDialog") /\ StartFails
  /\ UNCHANGED <<manager, locals, popups, reports, history>>

\* WaitListening: some helper answers on the port, or the wait times out.
\* Without RequiresApproval the session is approved with one monitor.
PreWait(g) ==
  /\ pc[g] = "prewait"
  /\ \/ /\ "primary" \in helpers
        /\ IF sid[g] \in NeedsApproval
             THEN Goto(g, "openDialog") /\ UNCHANGED approved
             ELSE Goto(g, "recheck") /\ approved' = [approved EXCEPT ![g] = TRUE]
     \/ Goto(g, "resetDialog") /\ UNCHANGED approved
  /\ UNCHANGED <<manager, sid, dual, popups, running, reports, history>>

\* ShowApprovalDialogFromService closes the popup it finds and launches its
\* own, which the globals do not hold yet; the launch may fail.
OpenDialog(g) ==
  /\ pc[g] = "openDialog"
  /\ dialog' = NoOne
  /\ LET closed == [h \in Goroutine |-> IF h = dialog THEN "none" ELSE popup[h]]
     IN \/ Goto(g, "registerDialog") /\ popup' = [closed EXCEPT ![g] = "open"]
        \/ Goto(g, "resetDialog") /\ popup' = closed
  /\ UNCHANGED <<manager, locals, running, reports, history>>

RegisterDialog(g) ==
  /\ Move(g, "registerDialog", "waitDialog")
  /\ dialog' = g
  /\ UNCHANGED <<manager, locals, popup, running, reports, history>>

\* The user answers, or the popup's own timeout answers for him with No.
Answer(g) ==
  /\ popup[g] = "open"
  /\ \E a \in {"yes", "no"} : popup' = [popup EXCEPT ![g] = a]
  /\ consented' = IF popup'[g] = "yes" THEN consented \cup {sid[g]} ELSE consented
  /\ UNCHANGED <<manager, pc, locals, dialog, running, reports, begun, raced>>

\* (mutant) A popup that ends without an answer counts as Yes.
DialogDoneNoAnswer(g) ==
  /\ Move(g, "waitDialog", "recheck")
  /\ \E yes \in BOOLEAN, two \in BOOLEAN :
       /\ yes => popup[g] # "no"
       /\ two => yes
       /\ approved' = [approved EXCEPT ![g] = yes]
       /\ dual' = [dual EXCEPT ![g] = two]
  /\ dialog' = NoOne
  /\ popup' = [h \in Goroutine |-> IF h \in {g, dialog} THEN "none" ELSE popup[h]]
  /\ UNCHANGED <<manager, sid, running, reports, history>>

\* The poll finds the answer file, or passes the deadline with no answer,
\* because the popup was killed or is late.  Either way the popup that the
\* globals hold then is closed, its own or another's.
DialogDone(g) ==
  /\ Move(g, "waitDialog", "recheck")
  /\ \E yes \in BOOLEAN, two \in BOOLEAN :
       /\ yes => popup[g] = "yes"
       /\ two => yes
       /\ approved' = [approved EXCEPT ![g] = yes]
       /\ dual' = [dual EXCEPT ![g] = two]
  /\ dialog' = NoOne
  /\ popup' = [h \in Goroutine |-> IF h \in {g, dialog} THEN "none" ELSE popup[h]]
  /\ UNCHANGED <<manager, sid, running, reports, history>>

\* (mutant) The check after the popup does not compare the session.
RecheckPending(g) ==
  /\ pc[g] = "recheck"
  /\ IF state = "pending"
       THEN Goto(g, "approve") /\ MarkRace(g) /\ UNCHANGED locals
       ELSE Return(g) /\ UNCHANGED raced
  /\ UNCHANGED <<manager, popups, running, reports, consented, begun>>

\* Is the session still pending?  If not the goroutine returns and touches
\* nothing.  sm.mu is released before the answer is used.
Recheck(g) ==
  /\ pc[g] = "recheck"
  /\ IF state = "pending" /\ session = sid[g]
       THEN Goto(g, "approve") /\ MarkRace(g) /\ UNCHANGED locals
       ELSE Return(g) /\ UNCHANGED raced
  /\ UNCHANGED <<manager, popups, running, reports, consented, begun>>

Tell(s, report) == reports' = [reports EXCEPT ![s] = @ \cup {report}]

\* (mutant) The error of ApproveRemoteSession is only logged.
ApproveAnyway(g) ==
  /\ pc[g] = "approve"
  /\ LET result == IF approved[g] THEN "approved" ELSE "rejected"
     IN Tell(sid[g], result) \/ UNCHANGED reports
  /\ Goto(g, IF approved[g] THEN "setApproved" ELSE "resetDialog")
  /\ UNCHANGED <<manager, locals, popups, running, history>>

\* ApproveRemoteSession: answered, or failed with or without reaching the server.
Approve(g) ==
  /\ pc[g] = "approve"
  /\ LET result == IF approved[g] THEN "approved" ELSE "rejected"
     IN \/ Tell(sid[g], result) /\ Goto(g, IF approved[g] THEN "setApproved" ELSE "resetDialog")
        \/ Tell(sid[g], result) /\ Goto(g, "resetDialog")
        \/ UNCHANGED reports /\ Goto(g, "resetDialog")
  /\ UNCHANGED <<manager, locals, popups, running, history>>

\* The three unconditional assignments of state.
Assign(g, from, value, to) ==
  /\ Move(g, from, to)
  /\ state' = value
  /\ UNCHANGED <<session, locals, popups, running, reports, history>>

SetApproved(g) == Assign(g, "setApproved", "approved", "restart")

SetConnecting(g) == Assign(g, "setConnecting", "connecting", "ready")

SetActive(g) ==
  /\ pc[g] = "setActive"
  /\ Return(g)
  /\ state' = "active"
  /\ UNCHANGED <<session, popups, running, reports, history>>

\* The helper is started anew with the session password, which the answer of
\* the server may lack.
Restart(g) ==
  /\ pc[g] = "restart"
  /\ \/ Goto(g, "rewait") /\ StartHelper
     \/ Goto(g, "resetDialog") /\ StartFails
  /\ UNCHANGED <<manager, locals, popups, reports, history>>

ReWait(g) ==
  /\ pc[g] = "rewait"
  /\ \/ /\ "primary" \in helpers
        /\ Goto(g, IF dual[g] THEN "secondary" ELSE "setConnecting")
     \/ Goto(g, "resetDialog")
  /\ UNCHANGED <<manager, locals, popups, running, reports, history>>

\* A second monitor that fails does not stop the session.
StartSecondary(g) ==
  /\ Move(g, "secondary", "setConnecting")
  /\ helpers' \in {helpers, helpers \cup {"secondary"}}
  /\ UNCHANGED <<manager, locals, popups, strays, lost, reports, history>>

\* ReportRemoteReady.
Ready(g) ==
  /\ pc[g] = "ready"
  /\ \/ Tell(sid[g], "ready") /\ Goto(g, "setActive")
     \/ Tell(sid[g], "ready") /\ Goto(g, "resetDialog")
     \/ UNCHANGED reports /\ Goto(g, "resetDialog")
  /\ UNCHANGED <<manager, locals, popups, running, history>>

-----------------------------------------------------------------------------
(* HandleEndSignal, EndSession *)

\* handleRSEnd: the server ends session s.
EndSignal(g, s) ==
  /\ Move(g, "free", "endCheck")
  /\ sid' = [sid EXCEPT ![g] = s]
  /\ UNCHANGED <<manager, approved, dual, popups, running, reports, history>>

\* remote_support_end over the pipe: the user ends whatever runs.
UserEnd(g) ==
  /\ Move(g, "free", "endDialog")
  /\ UNCHANGED <<manager, locals, popups, running, reports, history>>

EndCheck(g) ==
  /\ pc[g] = "endCheck"
  /\ IF session = sid[g] THEN Goto(g, "endDialog") /\ UNCHANGED locals
                         ELSE Return(g)
  /\ UNCHANGED <<manager, popups, running, reports, history>>

EndDialog(g) ==
  /\ Move(g, "endDialog", "endRead")
  /\ CloseDialog
  /\ UNCHANGED <<manager, locals, running, reports, history>>

EndRead(g) ==
  /\ pc[g] = "endRead"
  /\ IF session = 0
       THEN Return(g)
       ELSE /\ Goto(g, "endReport")
            /\ sid' = [sid EXCEPT ![g] = session]
            /\ UNCHANGED <<approved, dual>>
  /\ UNCHANGED <<manager, popups, running, reports, history>>

\* (mutant) EndSession returns when the server cannot be told.
EndReportReturns(g) ==
  /\ pc[g] = "endReport"
  /\ \/ Goto(g, "resetDialog") /\ Tell(sid[g], "ended") /\ UNCHANGED locals
     \/ Return(g) /\ UNCHANGED reports
  /\ UNCHANGED <<manager, popups, running, history>>

\* ReportRemoteEnded: its error is ignored.
EndReport(g) ==
  /\ Move(g, "endReport", "resetDialog")
  /\ Tell(sid[g], "ended") \/ UNCHANGED reports
  /\ UNCHANGED <<manager, locals, popups, running, history>>

-----------------------------------------------------------------------------
(* reset *)

ResetDialog(g) ==
  /\ Move(g, "resetDialog", "resetHelper")
  /\ CloseDialog
  /\ UNCHANGED <<manager, locals, running, reports, history>>

\* (mutant) Stop ends only the helper that the VNCServer remembers.
ResetHelperPrimary(g) ==
  /\ Move(g, "resetHelper", "resetState")
  /\ helpers' = helpers \ {"primary"} /\ strays' = {} /\ lost' = FALSE
  /\ MarkRace(g)
  /\ UNCHANGED <<manager, locals, popups, reports, consented, begun>>

ResetHelper(g) ==
  /\ Move(g, "resetHelper", "resetState")
  /\ StopHelpers
  /\ MarkRace(g)
  /\ UNCHANGED <<manager, locals, popups, reports, consented, begun>>

\* (mutant) The manager is reset to the zero value of its fields.
ResetStateZero(g) ==
  /\ pc[g] = "resetState"
  /\ Return(g)
  /\ state' = ""
  /\ session' = 0
  /\ MarkRace(g)
  /\ UNCHANGED <<popups, running, reports, consented, begun>>

ResetState(g) ==
  /\ pc[g] = "resetState"
  /\ Return(g)
  /\ state' = "idle"
  /\ session' = 0
  /\ MarkRace(g)
  /\ UNCHANGED <<popups, running, reports, consented, begun>>

\* The service dies and starts again.  The helper processes live on, and
\* NewSessionManager does not look for them; a popup that lives on is read by
\* nobody.
Crash ==
  /\ state' = "idle"
  /\ session' = 0
  /\ pc' = [g \in Goroutine |-> "free"]
  /\ sid' = [g \in Goroutine |-> 0]
  /\ approved' = [g \in Goroutine |-> FALSE]
  /\ dual' = [g \in Goroutine |-> FALSE]
  /\ dialog' = NoOne
  /\ popup' = [g \in Goroutine |-> "none"]
  /\ strays' = helpers
  /\ lost' = FALSE
  /\ UNCHANGED <<helpers, reports, history>>

-----------------------------------------------------------------------------

RequestStep(g) ==
  \/ Busy(g) \/ Begin(g) \/ PreStart(g) \/ PreWait(g)
  \/ OpenDialog(g) \/ RegisterDialog(g) \/ DialogDone(g) \/ Recheck(g)
  \/ Approve(g) \/ SetApproved(g) \/ Restart(g) \/ ReWait(g)
  \/ StartSecondary(g) \/ SetConnecting(g) \/ Ready(g) \/ SetActive(g)

EndStep(g) ==
  \/ EndCheck(g) \/ EndDialog(g) \/ EndRead(g) \/ EndReport(g)
  \/ ResetDialog(g) \/ ResetHelper(g) \/ ResetState(g)

Next ==
  \/ \E g \in Goroutine : \/ \E s \in Session : Request(g, s) \/ EndSignal(g, s)
                          \/ UserEnd(g)
                          \/ RequestStep(g)
                          \/ EndStep(g)
                          \/ Answer(g)
  \/ \E h \in helpers : HelperEnds(h)
  \/ Crash

Spec == Init /\ [][Next]_vars

-----------------------------------------------------------------------------

\* Every variable holds a value of its type.
TypeOK ==
  /\ state \in States
  /\ session \in Session \cup {0}
  /\ pc \in [Goroutine -> Label]
  /\ sid \in [Goroutine -> Session \cup {0}]
  /\ approved \in [Goroutine -> BOOLEAN]
  /\ dual \in [Goroutine -> BOOLEAN]
  /\ dialog \in Goroutine \cup {NoOne}
  /\ popup \in [Goroutine -> {"none", "open", "yes", "no"}]
  /\ helpers \subseteq {"primary", "secondary"} /\ strays \subseteq helpers
  /\ lost \in BOOLEAN
  /\ reports \in [Session -> SUBSET Report]
  /\ consented \subseteq Session
  /\ begun \subseteq Session
  /\ raced \subseteq {"end", "again"}

\* No session that asks for approval is reported approved or ready unless its
\* own popup was answered with Yes: popups that are killed, overwritten in the
\* globals, answered late or left from a cancelled request never stand in.
Consent ==
  \A s \in NeedsApproval : reports[s] \cap {"approved", "ready"} # {} => s \in consented

\* However requests, popups, ends and crashes interleave, the server and the user
\* see one protocol: a session is approved only once it was taken on here and,
\* where it needs approval, agreed to; rejected only if it was to be asked about;
\* ready only after approved; ended only if it was taken on.
Protocol == INSTANCE SessionProtocol
ImplementsProtocol == Protocol!ProtSpec

\* As long as no end or re-request has raced a goroutine that carries a session,
\* state and session agree with each other and with that goroutine, only one
\* request is past the popup, and active means that the server was told ready.
ManagerExact ==
  raced = {} =>
    /\ state = "idle" <=> session = 0
    /\ state = "active" => "ready" \in reports[session]
    /\ \A g \in Goroutine : pc[g] \in BeforeDialog \cup AfterDialog =>
         /\ session = sid[g]
         /\ \A h \in Goroutine \ {g} : pc[h] \notin BeforeDialog \cup AfterDialog

\* As long as no end or re-request has raced a goroutine that carries a session:
\* while the manager is idle, only those helpers run that the last Stop could not
\* end or that a service which died has left; and a session that is active has its
\* helper until an end takes it down, unless it has ended by itself.
HelperExact ==
  raced = {} =>
    /\ state = "idle" => helpers \subseteq strays
    /\ state = "active" => \/ "primary" \in helpers \/ lost
                           \/ \E g \in Goroutine : pc[g] = "resetState"

\* The steps that are left to a goroutine of HandleRequest, HandleEndSignal or
\* EndSession at most: a failure cuts them short with the three of reset.
Ahead == [free |-> 0, resetState |-> 1, resetHelper |-> 2, resetDialog |-> 3,
          endReport |-> 4, endRead |-> 5, endDialog |-> 6, endCheck |-> 7,
          setActive |-> 4, ready |-> 5, setConnecting |-> 6, secondary |-> 7, rewait |-> 8,
          restart |-> 9, setApproved |-> 10, approve |-> 11, recheck |-> 12, waitDialog |-> 13,
          registerDialog |-> 14, openDialog |-> 15, prewait |-> 16, prestart |-> 17, begin |-> 18]

\* An end that found a session, and every reset, is past the last point where the
\* goroutine may return without having emptied the manager.
Ending == {"endReport"} \cup Reset

\* Whatever the other goroutines, the helper, the popup and the server do, a
\* goroutine is never sent back or moved by another one: each of its steps brings
\* it nearer to its end.  One that ends a session, whether or not the server could
\* be told, gets there only by setting the manager to idle without a session,
\* unless the service dies, which does so too.  Another goroutine may write the
\* state after that, as SetActive may: nothing is said of what an end leaves behind.
GoroutinesAdvance ==
  [][\A g \in Goroutine :
       /\ \/ pc'[g] = pc[g] \/ pc[g] = "free"
          \/ Ahead[pc'[g]] < Ahead[pc[g]]
       /\ pc[g] \in Ending => \/ pc'[g] \in Ending
                              \/ pc'[g] = "free" /\ state' = "idle" /\ session' = 0]_vars
=============================================================================
