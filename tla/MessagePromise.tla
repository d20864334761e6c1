--------------------------- MODULE MessagePromise ---------------------------
(***************************************************************************)
(* What the delivery engine promises about a set of messages, whatever the *)
(* sweeps, workers, context changes and account deletions behind it do: a  *)
(* message that was sent is handed to the child at most once or dropped    *)
(* for good, and one she has stays hers.                                   *)
(***************************************************************************)
EXTENDS Naturals

CONSTANT Message

VARIABLES
  phase,  \* where each message is
  seen    \* how often it was handed to the child

vars == <<phase, seen>>

Phase == {"unsent", "queued", "arrived", "watched", "dropped"}

Init ==
  /\ phase = [m \in Message |-> "unsent"]
  /\ seen = [m \in Message |-> 0]

\* The messages of S, all in phase p, move to phase q.
Move(S, p, q) ==
  /\ \A m \in S : phase[m] = p
  /\ phase' = [m \in Message |-> IF m \in S THEN q ELSE phase[m]]

Send(S)  == Move(S, "unsent", "queued") /\ UNCHANGED seen
Watch(S) == Move(S, "arrived", "watched") /\ UNCHANGED seen
Drop(S)  == Move(S, "queued", "dropped") /\ UNCHANGED seen

Arrive(S) ==
  /\ Move(S, "queued", "arrived")
  /\ seen' = [m \in Message |-> IF m \in S THEN 1 ELSE seen[m]]

Next == \E S \in SUBSET Message : Send(S) \/ Arrive(S) \/ Watch(S) \/ Drop(S)

Spec == Init /\ [][Next]_vars
=============================================================================
