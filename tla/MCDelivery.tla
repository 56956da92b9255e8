----------------------------- MODULE MCDelivery -----------------------------
EXTENDS Delivery

CONSTANTS c1, a1

\* The WebSocket is switched on by the first change of the configuration.
MCWsEnabled == [v \in 0..MaxConfig |-> v > 0]
=============================================================================
