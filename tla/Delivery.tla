------------------------------ MODULE Delivery ------------------------------
(***************************************************************************)
(* The life of a delivery_intent row: captured by the API, resolved by the *)
(* rematerialization sweep, invalidated when the child's time zone or      *)
(* day-parts change, claimed by delivery workers, expired, opened by the   *)
(* child, removed when its sender's account is deactivated.                *)
(*                                                                         *)
(* The processes are the API server, any number of scheduler processes     *)
(* (the loop and manual runs) and any number of delivery workers.  A step  *)
(* is one database transaction, or one piece of code between two of them.  *)
(* media_artifact rows and blobs are in MediaRetention.                    *)
(***************************************************************************)
EXTENDS Materialize, FiniteSets

CONSTANTS
  Message,    \* delivery_intent rows
  Child,
  Adult,      \* app_user rows that send messages
  Sweeper,    \* processes that run runRematerializeSweep
  Worker,     \* processes that call claim_due_intents
  Context,    \* the contexts a child can be in
  Retention,  \* UNOPENED_RETENTION_DAYS, in ticks
  Batch,      \* LIMIT of the sweep's SELECT
  ClaimLimit, \* p_limit of claim_due_intents
  MaxTime,    \* bound: the clock stops here
  SendUntil,  \* bound: no message is captured later
  NoTime, NoContext, NoRow,
  NoOne       \* the sender of a message the child sent; no lock holder

ASSUME DeliveryAssumption ==
  /\ IsFiniteSet(Message)
  /\ Retention \in Nat \ {0} /\ MaxTime \in Nat /\ SendUntil \in Nat
  /\ Batch \in Nat \ {0} /\ ClaimLimit \in Nat \ {0}
  /\ \A x \in Context : IsContext(x)
  /\ NoTime \notin Int /\ NoContext \notin Context
  /\ NoOne \notin Sweeper \cup Adult

VARIABLES
  now,
  ctx,         \* child_tz_interval, day_part and home_tz of each child
  state,       \* delivery_intent.state; "draft" and "gone" are outside the table
  row,         \* the columns that never change once the row is inserted
  sched,       \* scheduled_at
  basis,       \* the context scheduled_at was computed from (materialized_tz)
  fires,       \* how often claim_due_intents returned the row
  held,        \* rows a worker's claim statement has locked
  lock,        \* holder of the rematerialize advisory lock
  sweep,       \* each scheduler process
  deactivated  \* app_user rows with deactivated_at set

\* What only the intents' own transactions change, and the rest.
intentVars == <<state, row, sched, basis, fires>>
vars == <<now, ctx, intentVars, held, lock, sweep, deactivated>>

State == {"none", "draft", "pending", "ready", "delivered", "opened", "expired", "gone"}

Undelivered == {"pending", "ready"}

Row == [child : Child, sender : Adult \cup {NoOne}, date : Int \cup {NoDate},
        expires : Int, born : Nat]

Time == Int \cup {NoTime}

Fresh(pc, at) ==
  [pc |-> pc, at |-> at, todo |-> {}, cache |-> [c \in Child |-> NoContext]]

Idle == Fresh("idle", 0)

Init ==
  /\ now = 0
  /\ ctx \in [Child -> Context]
  /\ state = [m \in Message |-> "none"]
  /\ row = [m \in Message |-> NoRow]
  /\ sched = [m \in Message |-> NoTime]
  /\ basis = [m \in Message |-> NoContext]
  /\ fires = [m \in Message |-> 0]
  /\ held = [w \in Worker |-> {}]
  /\ lock = NoOne
  /\ sweep = [s \in Sweeper |-> Idle]
  /\ deactivated = {}

\* Mutant: the sweep does not select target_local_date.
IntentOfUndated(r) ==
  [state |-> "pending", kind |-> "bedtime", date |-> NoDate, instant |-> NoDate,
   policy |-> "at_daypart", expires |-> r.expires]

\* The Intent handed to materialize() for row r.
IntentOf(r) ==
  [state |-> "pending", kind |-> "bedtime", date |-> r.date, instant |-> NoDate,
   policy |-> IF r.date = NoDate THEN "at_daypart" ELSE "on_local_date",
   expires |-> r.expires]

Locked == UNION {held[w] : w \in Worker}

\* The ChildCtx read from x's rows.  The bounds of an interval are cast with
\* ::text, which is not ISO: one that is there parses to an Invalid DateTime,
\* every comparison with it is false, and the interval covers no instant.
childCtxFor(x) ==
  [x EXCEPT !.tz = {iv \in x.tz : iv.start = Unbounded /\ iv.end = Unbounded}]

-----------------------------------------------------------------------------
(* The API: capture and persist, open, deactivate. *)

Probe(d) ==
  [state |-> "pending", kind |-> "bedtime", date |-> d, instant |-> NoDate,
   policy |-> IF d = NoDate THEN "at_daypart" ELSE "on_local_date",
   expires |-> now + Retention]

\* POST /messages up to captureMessage(): the sender is authorised, the
\* context is read and the delivery instant resolved once, to derive expiry.
\* A session is a signed token, so deactivation does not stop the sender.
Capture(m, c, u, d) ==
  LET probe == materialize(Probe(d), childCtxFor(ctx[c]), now)
  IN  /\ state[m] = "none" /\ now <= SendUntil
      /\ probe.ok
      /\ state' = [state EXCEPT ![m] = "draft"]
      /\ row' = [row EXCEPT ![m] = [child |-> c, sender |-> u, date |-> d,
                                    expires |-> probe.at + Retention, born |-> 0]]
      /\ UNCHANGED <<now, ctx, sched, basis, fires, held, lock, sweep, deactivated>>

Rows == {m \in Message : state[m] \notin {"none", "draft"}}

\* persistCapturedMessage(): its own transaction, always inserted pending.
Persist(m) ==
  /\ state[m] = "draft"
  /\ state' = [state EXCEPT ![m] = "pending"]
  /\ row' = [row EXCEPT ![m].born = Cardinality(Rows) + 1]
  /\ UNCHANGED <<now, ctx, sched, basis, fires, held, lock, sweep, deactivated>>

\* The request dies between the two.
LoseCapture(m) ==
  /\ state[m] = "draft"
  /\ state' = [state EXCEPT ![m] = "none"]
  /\ row' = [row EXCEPT ![m] = NoRow]
  /\ UNCHANGED <<now, ctx, sched, basis, fires, held, lock, sweep, deactivated>>

\* POST /inbox/:id/opened by the child: delivered -> opened only.
Open(m) ==
  /\ state[m] = "delivered"
  /\ state' = [state EXCEPT ![m] = "opened"]
  /\ UNCHANGED <<now, ctx, row, sched, basis, fires, held, lock, sweep, deactivated>>

\* Mutant: delivered messages are swept away with the queue.
QueueOfUnopened(u) ==
  {m \in Rows : row[m].sender = u /\ state[m] \notin {"opened", "gone"}}

QueueOf(u) ==
  {m \in Rows : row[m].sender = u /\ state[m] \notin {"delivered", "opened", "gone"}}

\* deactivateAccount(): one transaction.  Its DELETE waits for row locks.
Deactivate(u) ==
  /\ u \notin deactivated
  /\ QueueOf(u) \cap Locked = {}
  /\ deactivated' = deactivated \cup {u}
  /\ state' = [m \in Message |-> IF m \in QueueOf(u) THEN "gone" ELSE state[m]]
  /\ UNCHANGED <<now, ctx, row, sched, basis, fires, held, lock, sweep>>

-----------------------------------------------------------------------------
(* The child's context and the triggers on it. *)

\* invalidate_for_child(): undelivered rows not yet due.
Invalidated(c) ==
  {m \in Message : /\ state[m] \in Undelivered
                   /\ row[m].child = c
                   /\ sched[m] = NoTime \/ sched[m] > now}

\* Mutant: the trigger resets the state and not the schedule.
ChangeContextStateOnly(c, x) ==
  /\ x # ctx[c]
  /\ ctx' = [ctx EXCEPT ![c] = x]
  /\ state' = [m \in Message |-> IF m \in Invalidated(c) THEN "pending" ELSE state[m]]
  /\ UNCHANGED <<now, row, sched, basis, fires, held, lock, sweep, deactivated>>

\* A change to child_tz_interval or day_part, with its statement trigger.
ChangeContext(c, x) ==
  /\ x # ctx[c]
  /\ ctx' = [ctx EXCEPT ![c] = x]
  /\ state' = [m \in Message |-> IF m \in Invalidated(c) THEN "pending" ELSE state[m]]
  /\ sched' = [m \in Message |-> IF m \in Invalidated(c) THEN NoTime ELSE sched[m]]
  /\ basis' = [m \in Message |-> IF m \in Invalidated(c) THEN NoContext ELSE basis[m]]
  /\ UNCHANGED <<now, row, fires, held, lock, sweep, deactivated>>

\* CURRENT_DATE enters or leaves the effective range of a day-part: the rows
\* childCtxFor() returns change, no statement ran and no trigger fires.
EffectiveDate(c, x) ==
  /\ now % Day = 0
  /\ x # ctx[c] /\ x.home = ctx[c].home /\ x.tz = ctx[c].tz
  /\ ctx' = [ctx EXCEPT ![c] = x]
  /\ UNCHANGED <<now, intentVars, held, lock, sweep, deactivated>>

-----------------------------------------------------------------------------
(* The rematerialization sweep. *)

\* withJobLock() and the start of the sweep; `at' is its notion of now for
\* every row.  When the lock is held the run is skipped: nothing changes.
SweepStart(s) ==
  /\ sweep[s].pc = "idle"
  /\ lock = NoOne
  /\ lock' = s
  /\ sweep' = [sweep EXCEPT ![s] = Fresh("select", now)]
  /\ UNCHANGED <<now, ctx, intentVars, held, deactivated>>

Pending == {m \in Message : state[m] = "pending"}

\* ORDER BY created_at LIMIT Batch.
OldestPending ==
  {m \in Pending : Cardinality({k \in Pending : row[k].born < row[m].born}) < Batch}

SweepSelect(s) ==
  /\ sweep[s].pc = "select"
  /\ sweep' = [sweep EXCEPT ![s].pc = "rows", ![s].todo = OldestPending]
  /\ UNCHANGED <<now, ctx, intentVars, held, lock, deactivated>>

\* m is the next row of the batch.
NextRow(s, m) ==
  /\ sweep[s].pc = "rows"
  /\ m \in sweep[s].todo
  /\ \A k \in sweep[s].todo : row[m].born <= row[k].born

\* childCtxFor() reads the child's rows, once per child and sweep.
SweepLoad(s, m) ==
  LET c == row[m].child
  IN  /\ NextRow(s, m)
      /\ sweep[s].cache[c] = NoContext
      /\ sweep' = [sweep EXCEPT ![s].cache[c] = ctx[c]]
      /\ UNCHANGED <<now, ctx, intentVars, held, lock, deactivated>>

\* Mutant: an expired intent is skipped like one without a slot.
PastReasonsNoExpiry == {"target_in_past"}

PastReasons == {"already_expired", "target_in_past"}

\* Mutant: UPDATE by id alone.
UnresolvedUnchecked(m) == TRUE

\* The UPDATE's WHERE id = ... AND state = 'pending'.
Unresolved(m) == state[m] = "pending"

\* materialize() on the cached context, then the compare-and-swap UPDATE.
SweepWrite(s, m) ==
  LET known == sweep[s].cache[row[m].child]
      res   == materialize(IntentOf(row[m]), childCtxFor(known), sweep[s].at)
      won   == Unresolved(m)
  IN  /\ NextRow(s, m)
      /\ known # NoContext
      /\ sweep' = [sweep EXCEPT ![s].todo = @ \ {m}]
      /\ IF won /\ res.ok
         THEN /\ state' = [state EXCEPT ![m] = "ready"]
              /\ sched' = [sched EXCEPT ![m] = res.at]
              /\ basis' = [basis EXCEPT ![m] = known]
         ELSE /\ state' = [state EXCEPT ![m] =
                             IF won /\ res.reason \in PastReasons THEN "expired" ELSE @]
              /\ UNCHANGED <<sched, basis>>
      /\ UNCHANGED <<now, ctx, row, fires, held, lock, deactivated>>

\* The batch is done: the lock is released.
SweepEnd(s) ==
  /\ sweep[s].pc = "rows" /\ sweep[s].todo = {}
  /\ lock' = NoOne
  /\ sweep' = [sweep EXCEPT ![s] = Idle]
  /\ UNCHANGED <<now, ctx, intentVars, held, deactivated>>

\* The process dies in the middle and Postgres drops its lock.
SweepCrash(s) ==
  /\ sweep[s].pc = "select" \/ sweep[s].todo # {}
  /\ lock' = NoOne
  /\ sweep' = [sweep EXCEPT ![s] = Idle]
  /\ UNCHANGED <<now, ctx, intentVars, held, deactivated>>

-----------------------------------------------------------------------------
(* Delivery workers and expiry. *)

\* Mutant: scheduled_at is not compared with the clock.
DueAnyTime == {m \in Message : state[m] = "ready" /\ now < row[m].expires}

Due == {m \in Message : state[m] = "ready" /\ sched[m] <= now /\ now < row[m].expires}

\* The inner SELECT of claim_due_intents: the earliest due rows, skipping the
\* ones another claim has locked.
ClaimSelect(w, S) ==
  LET free == Due \ Locked
  IN  /\ held[w] = {}
      /\ S \subseteq free /\ S # {}
      /\ Cardinality(S) <= ClaimLimit
      /\ S = free \/ Cardinality(S) = ClaimLimit
      /\ \A a \in S, b \in free \ S : sched[a] <= sched[b]
      /\ held' = [held EXCEPT ![w] = S]
      /\ UNCHANGED <<now, ctx, intentVars, lock, sweep, deactivated>>

\* Mutant: the rows are returned and not marked.
ClaimUpdateForgets(w) ==
  /\ held[w] # {}
  /\ fires' = [m \in Message |-> IF m \in held[w] THEN fires[m] + 1 ELSE fires[m]]
  /\ held' = [held EXCEPT ![w] = {}]
  /\ UNCHANGED <<now, ctx, state, row, sched, basis, lock, sweep, deactivated>>

\* The outer UPDATE: a compare-and-swap on every selected row, and COMMIT.
ClaimUpdate(w) ==
  LET won == {m \in held[w] : state[m] = "ready"}
  IN  /\ held[w] # {}
      /\ state' = [m \in Message |-> IF m \in won THEN "delivered" ELSE state[m]]
      /\ fires' = [m \in Message |-> IF m \in won THEN fires[m] + 1 ELSE fires[m]]
      /\ held' = [held EXCEPT ![w] = {}]
      /\ UNCHANGED <<now, ctx, row, sched, basis, lock, sweep, deactivated>>

\* The worker or its connection dies: the statement rolls back.
ClaimAbort(w) ==
  /\ held[w] # {}
  /\ held' = [held EXCEPT ![w] = {}]
  /\ UNCHANGED <<now, ctx, intentVars, lock, sweep, deactivated>>

Stale == {m \in Message : state[m] \in Undelivered /\ row[m].expires <= now}

\* Mutant: a state outside the column's check.
ExpireStaleUnknown ==
  /\ Stale # {} /\ Stale \cap Locked = {}
  /\ state' = [m \in Message |-> IF m \in Stale THEN "stale" ELSE state[m]]
  /\ UNCHANGED <<now, ctx, row, sched, basis, fires, held, lock, sweep, deactivated>>

\* expire_stale_intents(): waits for the locks of rows being claimed.
ExpireStale ==
  /\ Stale # {} /\ Stale \cap Locked = {}
  /\ state' = [m \in Message |-> IF m \in Stale THEN "expired" ELSE state[m]]
  /\ UNCHANGED <<now, ctx, row, sched, basis, fires, held, lock, sweep, deactivated>>

Tick ==
  /\ now < MaxTime
  /\ now' = now + 1
  /\ UNCHANGED <<ctx, intentVars, held, lock, sweep, deactivated>>

-----------------------------------------------------------------------------

TargetDate == {NoDate} \cup 0..(SendUntil \div Day)

SweepStep(s) ==
  \/ SweepStart(s) \/ SweepSelect(s) \/ SweepEnd(s)
  \/ \E m \in Message : SweepLoad(s, m) \/ SweepWrite(s, m)

ClaimStep(w) == ClaimUpdate(w) \/ \E S \in SUBSET Message : ClaimSelect(w, S)

Next ==
  \/ \E m \in Message :
       \/ \E c \in Child, u \in Adult \cup {NoOne}, d \in TargetDate : Capture(m, c, u, d)
       \/ Persist(m) \/ LoseCapture(m) \/ Open(m)
  \/ \E u \in Adult : Deactivate(u)
  \/ \E c \in Child, x \in Context : ChangeContext(c, x) \/ EffectiveDate(c, x)
  \/ \E s \in Sweeper : SweepStep(s) \/ SweepCrash(s)
  \/ \E w \in Worker : ClaimStep(w) \/ ClaimAbort(w)
  \/ ExpireStale
  \/ Tick

Spec == Init /\ [][Next]_vars

\* The scheduler's loop never stops running sweeps, and time passes.
LiveSpec == Spec /\ WF_vars(\E s \in Sweeper : SweepStep(s)) /\ WF_vars(Tick)

-----------------------------------------------------------------------------
(* Properties. *)

SweepRecord ==
  [pc : {"idle", "select", "rows"}, at : Int, todo : SUBSET Message,
   cache : [Child -> Context \cup {NoContext}]]

\* Values of the variables.
TypeOK ==
  /\ now \in Nat
  /\ ctx \in [Child -> Context]
  /\ state \in [Message -> State]
  /\ row \in [Message -> Row \cup {NoRow}]
  /\ sched \in [Message -> Time]
  /\ basis \in [Message -> Context \cup {NoContext}]
  /\ fires \in [Message -> Nat]
  /\ held \in [Worker -> SUBSET Message]
  /\ lock \in Sweeper \cup {NoOne}
  /\ sweep \in [Sweeper -> SweepRecord]
  /\ deactivated \subseteq Adult

Arrived == {"delivered", "opened"}

\* 0002_delivery_sweep.sql, hazard 1: however claims, sweeps, context changes
\* and expiry interleave, the rows claim_due_intents returned are exactly the
\* ones in the child's inbox, and each was returned once.
FiredOnce ==
  \A m \in Message : fires[m] = IF state[m] \in Arrived THEN 1 ELSE 0

\* claim_due_intents: nothing reaches the child before its scheduled instant,
\* nor without one.
NeverEarly ==
  \A m \in Message : state[m] \in Arrived => sched[m] # NoTime /\ sched[m] <= now

\* The schedule of a row is whole or absent: one that waits for a sweep holds
\* no leftover of an earlier resolution, and one with a named night that is
\* ready, delivered or opened holds the instant of that night in the context
\* it was resolved in - however often it was invalidated in between.
ScheduleSound ==
  \A m \in Message :
    /\ state[m] \in {"none", "draft", "pending"} =>
         sched[m] = NoTime /\ basis[m] = NoContext
    /\ state[m] \in {"ready"} \cup Arrived =>
         /\ basis[m] \in Context
         /\ row[m].date # NoDate =>
              sched[m] = OnLocalDate(childCtxFor(basis[m]), "bedtime", row[m].date, sched[m]).at

\* 0002_delivery_sweep.sql:55, pool.ts deactivateAccount: a delivered message
\* is the child's.  It is never re-timed, taken back or deleted, by whatever
\* happens to her context, to its sender or to its retention.
DeliveredIsHers ==
  [][\A m \in Message : state[m] \in Arrived =>
       state'[m] \in Arrived /\ UNCHANGED <<sched[m], basis[m], row[m]>>]_vars

\* What a row's states mean to the people who sent it and wait for it.
PhaseOf(st) ==
  CASE st \in {"none", "draft"}    -> "unsent"
    [] st \in Undelivered          -> "queued"
    [] st = "delivered"            -> "arrived"
    [] st = "opened"               -> "watched"
    [] st \in {"expired", "gone"}  -> "dropped"

Promise == INSTANCE MessagePromise WITH
             phase <- [m \in Message |-> PhaseOf(state[m])], seen <- fires

\* Every run keeps the promise: claimed at most once and only from the queue,
\* dropped for good, opened only after it arrived.
KeepsPromise == Promise!Spec

\* tools/scheduler.mjs: a row that waits for a sweep is resolved or expired,
\* even behind a batch of rows no sweep can resolve and however often the
\* child's context changes, provided the scheduler eventually stays up.
Resolved ==
  <>[][\A s \in Sweeper : ~SweepCrash(s)]_vars =>
    \A m \in Message : state[m] = "pending" ~> state[m] # "pending"

\* 0002_delivery_sweep.sql:5-7, hazard 2: no stale scheduled_at survives a zone
\* change.  A ready row that is not yet due was scheduled in the context its
\* child is in now.
ScheduleMatchesContext ==
  \A m \in Message :
    state[m] = "ready" /\ sched[m] > now => basis[m] = ctx[row[m].child]

\* pool.ts:1176-1182, message_capture.test.mjs "her tz interval overrides
\* home_tz": childCtxFor() hands materialize() the child's real timeline, so a
\* named night is scheduled on that night in the zone she will be in.
NightOnHerTimeline ==
  \A m \in Message :
    state[m] = "ready" /\ row[m].date # NoDate =>
      sched[m] = OnLocalDate(basis[m], "bedtime", row[m].date, sched[m]).at
=============================================================================
