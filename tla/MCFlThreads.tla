----------------------------- MODULE MCFlThreads -----------------------------
(* An instance of FlThreads for TLC: one thread locks and calls inside the    *)
(* lock, another one and the main thread call once.                           *)
EXTENDS FlThreads

Calls == [main |-> 1, a |-> 2, b |-> 1]
============================================================================
