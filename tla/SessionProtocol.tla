-------------------------- MODULE SessionProtocol --------------------------
(***************************************************************************)
(* What the agent promises the server and the user about a session,        *)
(* without goroutines, popups, helpers or crashes.  A session begins; the  *)
(* user is asked only about a session that has begun and needs approval;   *)
(* the server is told of each step only after it.  The server may hear the *)
(* same again, for a session that is requested again.  RemoteSupport is    *)
(* shown to implement this module.                                         *)
(***************************************************************************)
CONSTANTS Session, NeedsApproval

VARIABLES
  begun,      \* sessions that the agent has taken on
  consented,  \* sessions the user has agreed to
  reports     \* what the server was told of each session

protVars == <<begun, consented, reports>>

ProtInit ==
  /\ begun = {}
  /\ consented = {}
  /\ reports = [s \in Session |-> {}]

TakeOn(s) ==
  /\ begun' = begun \cup {s}
  /\ UNCHANGED <<consented, reports>>

Agree(s) ==
  /\ s \in begun \cap NeedsApproval
  /\ consented' = consented \cup {s}
  /\ UNCHANGED <<begun, reports>>

Report(s, what) ==
  /\ reports' = [reports EXCEPT ![s] = @ \cup {what}]
  /\ UNCHANGED <<begun, consented>>

\* Only what the user need not be asked about, or has agreed to, is approved.
ReportApproved(s) ==
  /\ s \in begun
  /\ s \in NeedsApproval => s \in consented
  /\ Report(s, "approved")

\* Only what the user is asked about can be rejected.
ReportRejected(s) ==
  /\ s \in begun \cap NeedsApproval
  /\ Report(s, "rejected")

ReportReady(s) ==
  /\ "approved" \in reports[s]
  /\ Report(s, "ready")

ReportEnded(s) ==
  /\ s \in begun
  /\ Report(s, "ended")

ProtNext ==
  \E s \in Session :
    \/ TakeOn(s) \/ Agree(s)
    \/ ReportApproved(s) \/ ReportRejected(s) \/ ReportReady(s) \/ ReportEnded(s)

ProtSpec == ProtInit /\ [][ProtNext]_protVars
=============================================================================
