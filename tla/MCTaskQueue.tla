---------------------------- MODULE MCTaskQueue ----------------------------
(***************************************************************************)
(* Small instances of TaskQueue for TLC: two goroutines and two tasks of   *)
(* the same application, one forced and more urgent than the other.        *)
(***************************************************************************)
EXTENDS TaskQueue

MCTask == {1, 2}
MCThread == {"main", "ws"}
MCApp == {7}
MCAppOf == [t \in MCTask |-> 7]
MCNoAppOf == [t \in MCTask |-> 0]
MCBatches == {{}, {1}, {0, 2}, {1, 2}}
MCVersionOf == [t \in MCTask |-> IF t = 1 THEN "" ELSE "2.0"]
MCPriority == [t \in MCTask |-> 3 - t]
MCForced == {2}
=============================================================================
