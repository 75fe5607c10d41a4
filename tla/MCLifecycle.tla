----------------------------- MODULE MCLifecycle -----------------------------
(* Small instances of Lifecycle for TLC. *)
EXTENDS Lifecycle

CONSTANTS d1, d2

Slots == <<"w1", "w2">>
Anything == Pool \cup {"db", "sched", "ws", "http", "unix"}
=============================================================================
