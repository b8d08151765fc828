---- MODULE MCExchange ----
(* Instance of Exchange for TLC: two threads share the client, u1 connects it. *)
EXTENDS Exchange
CONSTANTS u1, u2
====
