----------------------------- MODULE MCDelivery -----------------------------
(***************************************************************************)
(* Small instances of Delivery: three ticks to a day, one kind of day, and *)
(* child contexts that differ in what a move or a schedule edit changes.   *)
(***************************************************************************)
EXTENDS Delivery, TLC

Bedtime == [kind |-> "bedtime", wall |-> 1, until |-> 2, days |-> {0}, reachable |-> TRUE]

AtHome   == [home |-> 0, tz |-> {}, parts |-> {Bedtime}]
Moved    == [home |-> 0, tz |-> {[start |-> Unbounded, end |-> Unbounded, shift |-> 2]},
             parts |-> {Bedtime}]
OnTrip   == [home |-> 0, tz |-> {[start |-> 0, end |-> 6, shift |-> 2]}, parts |-> {Bedtime}]
NoParts  == [home |-> 0, tz |-> {}, parts |-> {}]

\* A child who moves, one who is on a trip that will end, and one whose
\* day-parts are deleted and added back.
Moves     == {AtHome, Moved}
Trip      == {OnTrip}
Unplanned == {AtHome, NoParts}

\* Sound: no definition chooses a message or a worker.
WorkerSymmetry  == Permutations(Message) \cup Permutations(Worker)
=============================================================================
