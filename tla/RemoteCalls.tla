---------------------------- MODULE RemoteCalls ----------------------------
(***************************************************************************)
(* What the caller of a mutation may expect of one connection.  Calls are  *)
(* numbered as they are made.  They take effect at most once and in that   *)
(* order, and their callers are told in that order, each once.  Who is     *)
(* told an outcome is told the truth and nothing changes it later; who is  *)
(* told that the call failed knows nothing: it may have taken effect, or   *)
(* may still.                                                              *)
(***************************************************************************)
EXTENDS Naturals, Sequences

VARIABLES
  next,      \* the number of the next call
  applied,   \* the calls that have taken effect, in order
  told       \* what the callers were told

vars == <<next, applied, told>>

Outcomes == {"ack", "refusal", "failure"}

Made == 0 .. next - 1
HasEffect(n) == \E i \in DOMAIN applied : applied[i] = n

Init == next = 1 /\ applied = <<>> /\ told = {}

Issue == next' = next + 1 /\ UNCHANGED <<applied, told>>

\* A call takes effect behind all that did, and behind all whose outcome is told.
Apply(n) ==
  /\ \A i \in DOMAIN applied : applied[i] < n
  /\ \A t \in told : t.answer # "failure" => t.id < n
  /\ applied' = Append(applied, n)
  /\ UNCHANGED <<next, told>>

Tell(n, answer) ==
  /\ \A t \in told : t.id < n
  /\ answer = "ack" => HasEffect(n)
  /\ answer = "refusal" => ~HasEffect(n)
  /\ told' = told \cup {[id |-> n, answer |-> answer]}
  /\ UNCHANGED <<next, applied>>

Next == Issue \/ \E n \in Made : Apply(n) \/ \E answer \in Outcomes : Tell(n, answer)

Spec == Init /\ [][Next]_vars
=============================================================================
