-------------------------- MODULE DurableRegister --------------------------
(***************************************************************************)
(* What the state file promises: one durable copy of the registry.  A save *)
(* makes it a state that the registry had and never takes a commit out of  *)
(* it; a process that dies leaves it alone, and the next one starts from   *)
(* it.                                                                     *)
(***************************************************************************)
CONSTANT Commits

VARIABLES
  memory,   \* the commits the running registry holds
  durable   \* the commits the next process would start from

register_vars == <<memory, durable>>

Init == memory = {} /\ durable = {}

Commit ==
  /\ \E c \in Commits \ memory : memory' = memory \cup {c}
  /\ UNCHANGED durable

\* The copy that becomes durable may be older than the registry is by then.
Save ==
  /\ durable \subseteq durable' /\ durable' \subseteq memory
  /\ UNCHANGED memory

Die ==
  /\ memory' = durable
  /\ UNCHANGED durable

Next == Commit \/ Save \/ Die

Spec == Init /\ [][Next]_register_vars
=============================================================================
