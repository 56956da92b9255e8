--------------------------- MODULE MCSelfUpdate ---------------------------
(***************************************************************************)
(* Small instances of SelfUpdate for TLC: the installed build 1, newer     *)
(* builds 2 and 3, and a build 4 that was published under the version of   *)
(* build 3, offered by the server with and without mode force.             *)
(***************************************************************************)
EXTENDS SelfUpdate

MCBuild == {1, 2, 3, 4}
MCVersionOf == [b \in MCBuild |-> IF b = 4 THEN 3 ELSE b]
Plain(b) == [build |-> b, force |-> FALSE]
Forced(b) == [build |-> b, force |-> TRUE]
MCOffers == {Plain(1), Plain(2), Plain(3), Plain(4), Forced(3)}
MCOneOffer == {Plain(2)}
=============================================================================
