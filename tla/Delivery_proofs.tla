-------------------------- MODULE Delivery_proofs --------------------------
(***************************************************************************)
(* Delivery for every set of messages, children, senders, scheduler        *)
(* processes, workers and contexts: its types, the safety invariants the   *)
(* runs check on small instances, and that it keeps MessagePromise.  What  *)
(* materialize() returns is proved in Materialize_proofs.                  *)
(***************************************************************************)
EXTENDS Delivery, Materialize_proofs

-----------------------------------------------------------------------------
(* Types. *)

\* A row that was captured has its columns, and a sweep's batch holds rows
\* that were persisted.
Stored ==
  /\ \A m \in Message : state[m] # "none" => row[m] \in Row
  /\ \A s \in Sweeper : \A m \in sweep[s].todo : state[m] \notin {"none", "draft"}

Typed == TypeOK /\ Stored

LEMMA IntentTyped ==
  ASSUME NEW r \in Row
  PROVE  IsIntent(IntentOf(r))
BY DEF Row, IntentOf, IsIntent

LEMMA ProbeTyped ==
  ASSUME now \in Nat, NEW d \in Int \cup {NoDate}
  PROVE  IsIntent(Probe(d))
BY DeliveryAssumption DEF Probe, IsIntent

\* Reading a context's rows yields a context.
LEMMA LoadedContext ==
  ASSUME NEW x \in Context
  PROVE  IsContext(childCtxFor(x))
<1> DEFINE whole == {iv \in x.tz : iv.start = Unbounded /\ iv.end = Unbounded}
<1>1. IsContext(x)
  BY DeliveryAssumption
<1>2. /\ childCtxFor(x).home = x.home
      /\ childCtxFor(x).tz = whole
      /\ childCtxFor(x).parts = x.parts
  BY DEF childCtxFor
<1> QED BY <1>1, <1>2 DEF IsContext

LEMMA FreshTyped ==
  ASSUME NEW pc \in {"idle", "select"}, NEW at \in Int
  PROVE  Fresh(pc, at) \in SweepRecord /\ Fresh(pc, at).todo = {}
BY DEF Fresh, SweepRecord

LEMMA IdleTyped == Idle \in SweepRecord /\ Idle.todo = {}
BY FreshTyped DEF Idle

LEMMA InitTyped == Init => Typed
<1> SUFFICES ASSUME Init PROVE Typed
  OBVIOUS
<1> USE DeliveryAssumption DEF Init
<1>1. TypeOK
  BY IdleTyped DEF TypeOK, State, Time
<1>2. Stored
  BY IdleTyped DEF Stored
<1> QED BY <1>1, <1>2 DEF Typed

LEMMA CaptureTyped ==
  ASSUME Typed, NEW m \in Message, NEW c \in Child, NEW u \in Adult \cup {NoOne},
         NEW d \in TargetDate, Capture(m, c, u, d)
  PROVE  Typed'
<1> DEFINE probe == materialize(Probe(d), childCtxFor(ctx[c]), now)
           r     == [child |-> c, sender |-> u, date |-> d,
                     expires |-> probe.at + Retention, born |-> 0]
<1>1. d \in Int \cup {NoDate}
  BY DEF TargetDate
<1>2. now \in Int /\ IsContext(childCtxFor(ctx[c]))
  BY DeliveryAssumption, LoadedContext DEF Typed, TypeOK
<1>3. probe.at \in Int
  BY <1>1, <1>2, ProbeTyped, NothingDumpedLate DEF Sound, Typed, TypeOK
<1>4. r \in Row
  <2> HIDE DEF probe
  <2> QED BY <1>1, <1>3, DeliveryAssumption DEF Row
<1>5. state' = [state EXCEPT ![m] = "draft"] /\ row' = [row EXCEPT ![m] = r]
  BY DEF Capture
<1> HIDE DEF r
<1>6. TypeOK'
  BY <1>4, <1>5 DEF Capture, Typed, TypeOK, State
<1>7. Stored'
  BY <1>4, <1>5 DEF Capture, Typed, TypeOK, Stored, State, SweepRecord
<1> QED BY <1>6, <1>7 DEF Typed

LEMMA PersistTyped ==
  ASSUME Typed, NEW m \in Message, Persist(m)
  PROVE  Typed'
<1>1. Cardinality(Rows) + 1 \in Nat
  <2>1. IsFiniteSet(Rows)
    BY DeliveryAssumption, FS_Subset DEF Rows
  <2> QED BY <2>1, FS_CardinalityType
<1>2. row[m] \in Row
  BY DEF Persist, Typed, Stored
<1>3. [row[m] EXCEPT !.born = Cardinality(Rows) + 1] \in Row
  BY <1>1, <1>2 DEF Row
<1>4. row' = [row EXCEPT ![m] = [row[m] EXCEPT !.born = Cardinality(Rows) + 1]]
  BY DEF Persist
<1>5. TypeOK'
  BY <1>3, <1>4 DEF Persist, Typed, TypeOK, State
<1>6. Stored'
  BY <1>3, <1>4 DEF Persist, Typed, TypeOK, Stored, State, SweepRecord
<1> QED BY <1>5, <1>6 DEF Typed

\* The row a sweep is about to resolve, and what materialize() says of it.
LEMMA NextRowTyped ==
  ASSUME Typed, NEW s \in Sweeper, NEW m \in Message, NextRow(s, m),
         sweep[s].cache[row[m].child] # NoContext
  PROVE  LET known == sweep[s].cache[row[m].child]
         IN  /\ row[m] \in Row
             /\ known \in Context
             /\ Sound(materialize(IntentOf(row[m]), childCtxFor(known), sweep[s].at), sweep[s].at)
<1>1. row[m] \in Row
  BY DEF NextRow, Typed, Stored
<1>2. sweep[s] \in SweepRecord
  BY DEF Typed, TypeOK
<1>3. sweep[s].cache[row[m].child] \in Context /\ sweep[s].at \in Int
  BY <1>1, <1>2 DEF SweepRecord, Row
<1> QED BY <1>1, <1>3, IntentTyped, LoadedContext, NothingDumpedLate

LEMMA SweepLoadTyped ==
  ASSUME Typed, NEW s \in Sweeper, NEW m \in Message, SweepLoad(s, m)
  PROVE  Typed'
<1>1. row[m].child \in Child
  BY DEF SweepLoad, NextRow, Typed, Stored, Row
<1>2. TypeOK'
  BY <1>1, ZenonT(40) DEF SweepLoad, Typed, TypeOK, SweepRecord, intentVars
<1>3. Stored'
  BY DEF SweepLoad, Typed, TypeOK, SweepRecord, Stored, intentVars
<1> QED BY <1>2, <1>3 DEF Typed

LEMMA SweepWriteTyped ==
  ASSUME Typed, NEW s \in Sweeper, NEW m \in Message, SweepWrite(s, m)
  PROVE  Typed'
<1> DEFINE known == sweep[s].cache[row[m].child]
           res   == materialize(IntentOf(row[m]), childCtxFor(known), sweep[s].at)
<1>1. known \in Context /\ res.at \in Int
  BY NextRowTyped DEF SweepWrite, Sound
<1>2. /\ state' \in [Message -> State]
      /\ \A k \in Message : state'[k] # state[k] => k = m /\ state'[k] \in {"ready", "expired"}
      /\ sched' \in {sched, [sched EXCEPT ![m] = res.at]}
      /\ basis' \in {basis, [basis EXCEPT ![m] = known]}
  BY DEF SweepWrite, Unresolved, Typed, TypeOK, State
<1>3. sweep' = [sweep EXCEPT ![s].todo = @ \ {m}] /\ UNCHANGED <<now, ctx, row, fires, held, lock, deactivated>>
  BY DEF SweepWrite
<1>4. sched' \in [Message -> Time] /\ basis' \in [Message -> Context \cup {NoContext}]
  <2> HIDE DEF res, known
  <2> QED BY <1>1, <1>2 DEF Typed, TypeOK, Time
<1>5. sweep' \in [Sweeper -> SweepRecord]
  BY <1>3 DEF Typed, TypeOK, SweepRecord
<1> HIDE DEF res, known
<1>6. TypeOK'
  BY <1>2, <1>3, <1>4, <1>5 DEF Typed, TypeOK
<1>7. Stored'
  <2>1. ASSUME NEW k \in Message, state'[k] # "none" PROVE row'[k] \in Row
    BY <2>1, <1>2, <1>3, NextRowTyped DEF Typed, Stored, SweepWrite, NextRow
  <2>2. ASSUME NEW t \in Sweeper, NEW k \in sweep'[t].todo
        PROVE  state'[k] \notin {"none", "draft"}
    <3>1. k \in sweep[t].todo /\ k \in Message
      BY <1>3 DEF Typed, TypeOK, SweepRecord
    <3> QED BY <3>1, <1>2 DEF Typed, Stored
  <2> QED BY <2>1, <2>2 DEF Stored
<1> QED BY <1>6, <1>7 DEF Typed

LEMMA NextTyped == Typed /\ [Next]_vars => Typed'
<1> SUFFICES ASSUME Typed, [Next]_vars PROVE Typed'
  OBVIOUS
<1> USE DEF Typed, TypeOK, Stored, State
<1>1. CASE \E m \in Message, c \in Child, u \in Adult \cup {NoOne}, d \in TargetDate : Capture(m, c, u, d)
  BY <1>1, CaptureTyped
<1>2. CASE \E m \in Message : Persist(m)
  BY <1>2, PersistTyped
<1>3. ASSUME NEW m \in Message, LoseCapture(m) PROVE Typed'
  BY <1>3 DEF LoseCapture, SweepRecord
<1>4. ASSUME NEW m \in Message, Open(m) PROVE Typed'
  BY <1>4 DEF Open, SweepRecord
<1>5. ASSUME NEW u \in Adult, Deactivate(u) PROVE Typed'
  BY <1>5 DEF Deactivate, QueueOf, Rows, SweepRecord
<1>6. ASSUME NEW c \in Child, NEW x \in Context, ChangeContext(c, x) PROVE Typed'
  BY <1>6 DEF ChangeContext, Invalidated, Undelivered, Time, SweepRecord
<1>7. ASSUME NEW s \in Sweeper, SweepStart(s) PROVE Typed'
  <2> DEFINE started == Fresh("select", now)
  <2>1. started \in SweepRecord /\ started.todo = {}
    BY FreshTyped
  <2>2. sweep' = [sweep EXCEPT ![s] = started]
    BY <1>7 DEF SweepStart
  <2> HIDE DEF started
  <2> QED BY <1>7, <2>1, <2>2 DEF SweepStart, intentVars
<1>8. ASSUME NEW s \in Sweeper, SweepSelect(s) PROVE Typed'
  <2>1. OldestPending \subseteq Message /\ \A m \in OldestPending : state[m] = "pending"
    BY DEF OldestPending, Pending
  <2> QED BY <1>8, <2>1, ZenonT(40) DEF SweepSelect, SweepRecord, intentVars
<1>9. ASSUME NEW s \in Sweeper, SweepEnd(s) \/ SweepCrash(s) PROVE Typed'
  <2>1. sweep' = [sweep EXCEPT ![s] = Idle]
    BY <1>9 DEF SweepEnd, SweepCrash
  <2> QED BY <1>9, <2>1, IdleTyped DEF SweepEnd, SweepCrash, intentVars
<1>10. CASE \E s \in Sweeper, m \in Message : SweepLoad(s, m)
  BY <1>10, SweepLoadTyped
<1>11. CASE \E s \in Sweeper, m \in Message : SweepWrite(s, m)
  BY <1>11, SweepWriteTyped
<1>12. ASSUME NEW w \in Worker, NEW S \in SUBSET Message, ClaimSelect(w, S) PROVE Typed'
  BY <1>12 DEF ClaimSelect, intentVars
<1>13. ASSUME NEW w \in Worker, ClaimUpdate(w) PROVE Typed'
  BY <1>13 DEF ClaimUpdate, SweepRecord
<1>14. ASSUME NEW w \in Worker, ClaimAbort(w) PROVE Typed'
  BY <1>14 DEF ClaimAbort, intentVars
<1>15. CASE ExpireStale
  BY <1>15 DEF ExpireStale, Stale, Undelivered, SweepRecord
<1>16. CASE Tick
  BY <1>16 DEF Tick, intentVars
<1>17. ASSUME NEW c \in Child, NEW x \in Context, EffectiveDate(c, x) PROVE Typed'
  BY <1>17 DEF EffectiveDate, intentVars
<1>18. CASE UNCHANGED vars
  BY <1>18 DEF vars, intentVars
<1> QED BY <1>1, <1>2, <1>3, <1>4, <1>5, <1>6, <1>7, <1>8, <1>9, <1>10, <1>11, <1>12,
           <1>13, <1>14, <1>15, <1>16, <1>17, <1>18
        DEF Next, SweepStep, ClaimStep

\* Every variable of Delivery keeps its type: in particular materialize() is
\* only ever asked about whole rows and known contexts.
THEOREM TypeCorrect == Spec => []TypeOK
<1>1. Spec => []Typed
  BY InitTyped, NextTyped, PTL DEF Spec
<1>2. Typed => TypeOK
  BY DEF Typed
<1> QED BY <1>1, <1>2, PTL
-----------------------------------------------------------------------------
(* Safety. *)

\* A row's schedule is absent until a sweep resolves it, and whole from then
\* on: an instant, the context it came from and, for a named night, the
\* instant of that night.
Whole ==
  \A m \in Message :
    /\ state[m] \in {"none", "draft", "pending"} =>
         sched[m] = NoTime /\ basis[m] = NoContext
    /\ state[m] \in {"ready"} \cup Arrived =>
         /\ sched[m] \in Int /\ basis[m] \in Context
         /\ row[m].date # NoDate =>
              sched[m] = NightOf(childCtxFor(basis[m]), "bedtime", row[m].date)

\* A row that a worker's statement has locked is locked by it alone and stays
\* ready and due: nothing touches it between the inner SELECT and the UPDATE.
HeldDue ==
  \A w \in Worker : \A m \in held[w] :
    /\ state[m] = "ready" /\ sched[m] <= now
    /\ \A v \in Worker \ {w} : m \notin held[v]

OnTime == \A m \in Message : state[m] \in Arrived => sched[m] <= now

Kept == FiredOnce /\ Whole /\ HeldDue /\ OnTime

LEMMA InitKept == Init => Kept
BY DEF Init, Kept, FiredOnce, Whole, HeldDue, OnTime, Arrived

\* Steps that leave the intents, the claims and the clock alone.
LEMMA ElsewhereKept ==
  ASSUME Kept, UNCHANGED <<now, intentVars, held>>
  PROVE  Kept'
BY DEF Kept, FiredOnce, Whole, HeldDue, OnTime, Arrived, intentVars

LEMMA SweepWriteKept ==
  ASSUME Typed, Kept, NEW s \in Sweeper, NEW m \in Message, SweepWrite(s, m)
  PROVE  Kept'
<1> DEFINE known == sweep[s].cache[row[m].child]
           res   == materialize(IntentOf(row[m]), childCtxFor(known), sweep[s].at)
<1>1. /\ row[m] \in Row /\ known \in Context /\ IsContext(childCtxFor(known))
      /\ res.at \in Int /\ sweep[s].at \in Int
  BY NextRowTyped, LoadedContext DEF SweepWrite, Sound, Typed, TypeOK, SweepRecord
<1>2. ASSUME res.ok, row[m].date # NoDate
      PROVE  res.at = NightOf(childCtxFor(known), "bedtime", row[m].date)
  <2>1. /\ IsIntent(IntentOf(row[m]))
        /\ IntentOf(row[m]).policy = "on_local_date"
        /\ IntentOf(row[m]).kind = "bedtime" /\ IntentOf(row[m]).date = row[m].date
    BY <1>1, <1>2, IntentTyped DEF IntentOf
  <2> QED BY <1>1, <1>2, <2>1, NamedNightAt
<1>3. UNCHANGED <<now, row, fires, held>>
  BY DEF SweepWrite
<1>4. CASE state[m] = "pending" /\ res.ok
  <2>1. /\ state' = [state EXCEPT ![m] = "ready"]
        /\ sched' = [sched EXCEPT ![m] = res.at]
        /\ basis' = [basis EXCEPT ![m] = known]
    BY <1>4 DEF SweepWrite, Unresolved
  <2>2. FiredOnce'
    BY <1>3, <1>4, <2>1 DEF Kept, FiredOnce, Arrived, Typed, TypeOK
  <2>3. Whole'
    <3> HIDE DEF res, known
    <3> QED BY <1>1, <1>2, <1>3, <1>4, <2>1 DEF Kept, Whole, Arrived, Typed, TypeOK
  <2>4. \A w \in Worker : m \notin held[w]
    BY <1>4 DEF Kept, HeldDue
  <2>5. HeldDue' /\ OnTime'
    BY <1>3, <1>4, <2>1, <2>4 DEF Kept, HeldDue, OnTime, Arrived, Typed, TypeOK
  <2> QED BY <2>2, <2>3, <2>5 DEF Kept
<1>5. CASE ~(state[m] = "pending" /\ res.ok)
  <2>1. /\ state' = state \/ (state[m] = "pending" /\ state' = [state EXCEPT ![m] = "expired"])
        /\ UNCHANGED <<sched, basis>>
    BY <1>5 DEF SweepWrite, Unresolved, Typed, TypeOK
  <2> HIDE DEF res, known
  <2> QED BY <1>3, <2>1 DEF Kept, FiredOnce, Whole, HeldDue, OnTime, Arrived, Typed, TypeOK
<1> QED BY <1>4, <1>5

LEMMA ContextKept ==
  ASSUME Typed, Kept, NEW c \in Child, NEW x \in Context, ChangeContext(c, x)
  PROVE  Kept'
<1>1. /\ state' = [m \in Message |-> IF m \in Invalidated(c) THEN "pending" ELSE state[m]]
      /\ sched' = [m \in Message |-> IF m \in Invalidated(c) THEN NoTime ELSE sched[m]]
      /\ basis' = [m \in Message |-> IF m \in Invalidated(c) THEN NoContext ELSE basis[m]]
      /\ UNCHANGED <<now, row, fires, held>>
  BY DEF ChangeContext
<1>2. ASSUME NEW m \in Invalidated(c) PROVE m \in Message /\ state[m] \in {"pending", "ready"}
  BY DEF Invalidated, Undelivered
<1>3. ASSUME NEW w \in Worker, NEW m \in held[w] PROVE m \in Message /\ m \notin Invalidated(c)
  <2>1. m \in Message /\ state[m] = "ready" /\ sched[m] <= now
    BY DEF Typed, TypeOK, Kept, HeldDue
  <2>2. sched[m] \in Int /\ now \in Int
    BY <2>1 DEF Typed, TypeOK, Kept, Whole
  <2> QED BY <2>1, <2>2, DeliveryAssumption DEF Invalidated
<1>4. FiredOnce'
  BY <1>1, <1>2 DEF Kept, FiredOnce, Arrived, Typed, TypeOK
<1>5. Whole'
  BY <1>1, <1>2 DEF Kept, Whole, Arrived, Typed, TypeOK
<1>6. HeldDue'
  BY <1>1, <1>3 DEF Kept, HeldDue, Typed, TypeOK
<1>7. OnTime'
  BY <1>1, <1>2 DEF Kept, OnTime, Arrived, Typed, TypeOK
<1> QED BY <1>4, <1>5, <1>6, <1>7 DEF Kept

LEMMA ClaimSelectKept ==
  ASSUME Typed, Kept, NEW w \in Worker, NEW S \in SUBSET Message, ClaimSelect(w, S)
  PROVE  Kept'
<1>1. /\ held' = [held EXCEPT ![w] = S]
      /\ UNCHANGED <<now, intentVars>>
      /\ \A m \in S : state[m] = "ready" /\ sched[m] <= now
      /\ \A m \in S : \A v \in Worker : m \notin held[v]
  BY DEF ClaimSelect, Due, Locked
<1>2. HeldDue'
  BY <1>1 DEF Kept, HeldDue, Typed, TypeOK, intentVars
<1> QED BY <1>1, <1>2 DEF Kept, FiredOnce, Whole, OnTime, Arrived, intentVars

LEMMA ClaimUpdateKept ==
  ASSUME Typed, Kept, NEW w \in Worker, ClaimUpdate(w)
  PROVE  Kept'
<1>1. \A m \in held[w] : m \in Message /\ state[m] = "ready" /\ sched[m] <= now
  BY DEF Typed, TypeOK, Kept, HeldDue
<1>2. /\ state' = [m \in Message |-> IF m \in held[w] THEN "delivered" ELSE state[m]]
      /\ fires' = [m \in Message |-> IF m \in held[w] THEN fires[m] + 1 ELSE fires[m]]
      /\ held' = [held EXCEPT ![w] = {}]
      /\ UNCHANGED <<now, row, sched, basis>>
  BY <1>1 DEF ClaimUpdate
<1>3. FiredOnce'
  BY <1>1, <1>2 DEF Kept, FiredOnce, Arrived, Typed, TypeOK
<1>4. Whole'
  BY <1>1, <1>2 DEF Kept, Whole, Arrived, Typed, TypeOK
<1>5. HeldDue'
  BY <1>1, <1>2 DEF Kept, HeldDue, Typed, TypeOK
<1>6. OnTime'
  BY <1>1, <1>2 DEF Kept, OnTime, Arrived, Typed, TypeOK
<1> QED BY <1>3, <1>4, <1>5, <1>6 DEF Kept

\* Deactivation and expiry: undelivered rows that no worker holds leave.
LEMMA RemovedKept ==
  ASSUME Typed, Kept, NEW S \in SUBSET Message, NEW st \in {"gone", "expired"},
         S \cap Locked = {}, \A m \in S : state[m] \notin Arrived,
         state' = [m \in Message |-> IF m \in S THEN st ELSE state[m]],
         UNCHANGED <<now, row, sched, basis, fires, held>>
  PROVE  Kept'
<1>1. ASSUME NEW v \in Worker, NEW m \in held[v] PROVE m \in Message /\ m \notin S
  BY DEF Locked, Typed, TypeOK
<1>2. FiredOnce'
  BY DEF Kept, FiredOnce, Arrived, Typed, TypeOK
<1>3. Whole'
  BY DEF Kept, Whole, Arrived, Typed, TypeOK
<1>4. HeldDue'
  BY <1>1 DEF Kept, HeldDue, Typed, TypeOK
<1>5. OnTime'
  BY DEF Kept, OnTime, Arrived, Typed, TypeOK
<1> QED BY <1>2, <1>3, <1>4, <1>5 DEF Kept

\* Capture, persist, a lost capture, an open: one row that no worker holds.
LEMMA CaptureKept ==
  ASSUME Typed, Kept, NEW m \in Message,
         \/ \E c \in Child, u \in Adult \cup {NoOne}, d \in TargetDate : Capture(m, c, u, d)
         \/ Persist(m) \/ LoseCapture(m) \/ Open(m)
  PROVE  Kept'
<1>1. /\ UNCHANGED <<now, sched, basis, fires, held>>
      /\ \A k \in Message \ {m} : row'[k] = row[k]
      /\ \/ /\ state[m] \in {"none", "draft"}
            /\ \E st \in {"none", "draft", "pending"} : state' = [state EXCEPT ![m] = st]
         \/ /\ state[m] = "delivered" /\ state' = [state EXCEPT ![m] = "opened"]
            /\ row' = row
  BY DEF Capture, Persist, LoseCapture, Open, Typed, TypeOK
<1>2. \A v \in Worker : m \notin held[v]
  BY <1>1 DEF Kept, HeldDue
<1>3. FiredOnce'
  BY <1>1 DEF Kept, FiredOnce, Arrived, Typed, TypeOK
<1>4. Whole'
  BY <1>1 DEF Kept, Whole, Arrived, Typed, TypeOK
<1>5. HeldDue'
  BY <1>1, <1>2 DEF Kept, HeldDue, Typed, TypeOK
<1>6. OnTime'
  BY <1>1 DEF Kept, OnTime, Arrived, Typed, TypeOK
<1> QED BY <1>3, <1>4, <1>5, <1>6 DEF Kept

LEMMA TickKept ==
  ASSUME Typed, Kept, Tick
  PROVE  Kept'
<1>1. now \in Int /\ now' = now + 1 /\ UNCHANGED <<intentVars, held>>
  BY DEF Tick, Typed, TypeOK
<1>2. HeldDue'
  <2> SUFFICES ASSUME NEW w \in Worker, NEW m \in held[w]
               PROVE  sched[m] <= now + 1
    BY <1>1 DEF Kept, HeldDue, intentVars
  <2>1. m \in Message /\ state[m] = "ready" /\ sched[m] <= now
    BY DEF Kept, HeldDue, Typed, TypeOK
  <2>2. sched[m] \in Int
    BY <2>1 DEF Kept, Whole
  <2> QED BY <1>1, <2>1, <2>2
<1>3. OnTime'
  <2> SUFFICES ASSUME NEW m \in Message, state[m] \in Arrived
               PROVE  sched[m] <= now + 1
    BY <1>1 DEF OnTime, intentVars
  <2>1. sched[m] \in Int /\ sched[m] <= now
    BY DEF Kept, OnTime, Whole
  <2> QED BY <1>1, <2>1
<1> QED BY <1>1, <1>2, <1>3 DEF Kept, FiredOnce, Whole, intentVars

LEMMA NextKept == Typed /\ Kept /\ [Next]_vars => Kept'
<1> SUFFICES ASSUME Typed, Kept, [Next]_vars PROVE Kept'
  OBVIOUS
<1>1. ASSUME NEW m \in Message,
             \/ \E c \in Child, u \in Adult \cup {NoOne}, d \in TargetDate : Capture(m, c, u, d)
             \/ Persist(m) \/ LoseCapture(m) \/ Open(m)
      PROVE  Kept'
  BY <1>1, CaptureKept
<1>2. ASSUME NEW u \in Adult, Deactivate(u) PROVE Kept'
  <2>1. QueueOf(u) \subseteq Message /\ \A m \in QueueOf(u) : state[m] \notin Arrived
    BY DEF QueueOf, Rows, Arrived
  <2> QED BY <1>2, <2>1, RemovedKept DEF Deactivate
<1>3. CASE ExpireStale
  <2>1. Stale \subseteq Message /\ \A m \in Stale : state[m] \notin Arrived
    BY DEF Stale, Undelivered, Arrived
  <2> QED BY <1>3, <2>1, RemovedKept DEF ExpireStale
<1>4. ASSUME NEW c \in Child, NEW x \in Context, ChangeContext(c, x) PROVE Kept'
  BY <1>4, ContextKept
<1>5. ASSUME NEW s \in Sweeper, NEW m \in Message, SweepWrite(s, m) PROVE Kept'
  BY <1>5, SweepWriteKept
<1>6. ASSUME NEW s \in Sweeper,
             \/ SweepStart(s) \/ SweepSelect(s) \/ SweepEnd(s) \/ SweepCrash(s)
             \/ \E m \in Message : SweepLoad(s, m)
      PROVE  Kept'
  BY <1>6, ElsewhereKept DEF SweepStart, SweepSelect, SweepEnd, SweepCrash, SweepLoad
<1>7. ASSUME NEW w \in Worker, NEW S \in SUBSET Message, ClaimSelect(w, S) PROVE Kept'
  BY <1>7, ClaimSelectKept
<1>8. ASSUME NEW w \in Worker, ClaimUpdate(w) PROVE Kept'
  BY <1>8, ClaimUpdateKept
<1>9. ASSUME NEW w \in Worker, ClaimAbort(w) PROVE Kept'
  BY <1>9 DEF ClaimAbort, Kept, FiredOnce, Whole, HeldDue, OnTime, Arrived, intentVars, Typed, TypeOK
<1>10. CASE Tick
  BY <1>10, TickKept
<1>11. ASSUME NEW c \in Child, NEW x \in Context, EffectiveDate(c, x) PROVE Kept'
  BY <1>11, ElsewhereKept DEF EffectiveDate
<1>12. CASE UNCHANGED vars
  BY <1>12, ElsewhereKept DEF vars
<1> QED BY <1>1, <1>2, <1>3, <1>4, <1>5, <1>6, <1>7, <1>8, <1>9, <1>10, <1>11, <1>12
        DEF Next, SweepStep, ClaimStep

LEMMA Invariants == Spec => [](Typed /\ Kept)
<1>1. Init => Typed /\ Kept
  BY InitTyped, InitKept
<1>2. (Typed /\ Kept) /\ [Next]_vars => (Typed /\ Kept)'
  BY NextTyped, NextKept
<1> QED BY <1>1, <1>2, PTL DEF Spec

\* 0002_delivery_sweep.sql, hazard 1, for any number of workers, sweeps and
\* messages: the rows claim_due_intents returned are the ones in the child's
\* inbox, and each was returned once.
THEOREM NoDoubleFire == Spec => []FiredOnce
<1>1. Typed /\ Kept => FiredOnce
  BY DEF Kept
<1> QED BY <1>1, Invariants, PTL

\* claim_due_intents: nothing reaches the child before its scheduled instant,
\* although the statement that selects a row and the one that delivers it are
\* separate, and contexts, sweeps and the clock move in between.
THEOREM NothingEarly == Spec => []NeverEarly
<1>1. Typed /\ Kept => NeverEarly
  BY DeliveryAssumption DEF Kept, Whole, OnTime, NeverEarly, Arrived
<1> QED BY <1>1, Invariants, PTL

\* A schedule is whole or absent: a pending row keeps nothing of an earlier
\* resolution, and a resolved named night holds the instant of that night in
\* the context it was resolved in, however often it was invalidated before.
THEOREM SchedulesAreSound == Spec => []ScheduleSound
<1>1. ASSUME Typed, Kept PROVE ScheduleSound
  <2> SUFFICES ASSUME NEW m \in Message, state[m] \in {"ready"} \cup Arrived,
                      row[m].date # NoDate
               PROVE  sched[m] = OnLocalDate(childCtxFor(basis[m]), "bedtime", row[m].date, sched[m]).at
    BY <1>1 DEF ScheduleSound, Kept, Whole
  <2>1. row[m] \in Row
    BY <1>1 DEF Typed, Stored, Arrived
  <2>2. row[m].date \in Int
    BY <2>1 DEF Row
  <2>3. basis[m] \in Context /\ sched[m] = NightOf(childCtxFor(basis[m]), "bedtime", row[m].date)
    BY <1>1 DEF Kept, Whole
  <2>4. IsContext(childCtxFor(basis[m]))
    BY <2>3, LoadedContext
  <2> QED BY <2>2, <2>3, <2>4, NightIsStable
<1>2. Typed /\ Kept => ScheduleSound
  BY <1>1
<1> QED BY <1>2, Invariants, PTL

-----------------------------------------------------------------------------
(* Steps. *)

\* What a step does to a delivered or opened row: at most open it.
LEMMA ArrivedStep ==
  ASSUME Typed, Kept, [Next]_vars, NEW m \in Message, state[m] \in Arrived
  PROVE  state'[m] \in Arrived /\ UNCHANGED <<sched[m], basis[m], row[m]>>
<1> USE DEF Typed, TypeOK, Arrived
<1>1. ASSUME NEW k \in Message,
             \/ \E c \in Child, u \in Adult \cup {NoOne}, d \in TargetDate : Capture(k, c, u, d)
             \/ Persist(k) \/ LoseCapture(k) \/ Open(k)
      PROVE  state'[m] \in Arrived /\ UNCHANGED <<sched[m], basis[m], row[m]>>
  BY <1>1 DEF Capture, Persist, LoseCapture, Open
<1>2. ASSUME NEW u \in Adult, Deactivate(u)
      PROVE  state'[m] \in Arrived /\ UNCHANGED <<sched[m], basis[m], row[m]>>
  BY <1>2 DEF Deactivate, QueueOf
<1>3. ASSUME NEW c \in Child, NEW x \in Context, ChangeContext(c, x) \/ EffectiveDate(c, x)
      PROVE  state'[m] \in Arrived /\ UNCHANGED <<sched[m], basis[m], row[m]>>
  BY <1>3 DEF ChangeContext, EffectiveDate, Invalidated, Undelivered, intentVars
<1>4. ASSUME NEW s \in Sweeper, SweepStep(s) \/ SweepCrash(s)
      PROVE  state'[m] \in Arrived /\ UNCHANGED <<sched[m], basis[m], row[m]>>
  <2>1. ASSUME NEW k \in Message, SweepWrite(s, k)
        PROVE  state'[m] \in Arrived /\ UNCHANGED <<sched[m], basis[m], row[m]>>
    <3>1. /\ row' = row
          /\ \/ state[k] = "pending" /\ \A j \in Message \ {k} : UNCHANGED <<state[j], sched[j], basis[j]>>
             \/ UNCHANGED <<state, sched, basis>>
      BY <2>1 DEF SweepWrite, Unresolved
    <3> QED BY <3>1
  <2> QED BY <1>4, <2>1 DEF SweepStep, SweepStart, SweepSelect, SweepEnd, SweepCrash,
                            SweepLoad, intentVars
<1>5. ASSUME NEW w \in Worker, ClaimStep(w) \/ ClaimAbort(w)
      PROVE  state'[m] \in Arrived /\ UNCHANGED <<sched[m], basis[m], row[m]>>
  BY <1>5 DEF ClaimStep, ClaimSelect, ClaimUpdate, ClaimAbort, intentVars
<1>6. CASE ExpireStale
  BY <1>6 DEF ExpireStale, Stale, Undelivered
<1>7. CASE Tick \/ UNCHANGED vars
  BY <1>7 DEF Tick, vars, intentVars
<1> QED BY <1>1, <1>2, <1>3, <1>4, <1>5, <1>6, <1>7 DEF Next

\* 0002_delivery_sweep.sql:55, pool.ts deactivateAccount: what was delivered is
\* the child's for good, whatever happens to her context or its sender.
THEOREM DeliveredStaysHers == Spec => DeliveredIsHers
<1>1. Typed /\ Kept /\ [Next]_vars =>
        [\A m \in Message : state[m] \in Arrived =>
           state'[m] \in Arrived /\ UNCHANGED <<sched[m], basis[m], row[m]>>]_vars
  BY ArrivedStep
<1> QED BY <1>1, Invariants, PTL DEF Spec, DeliveredIsHers

-----------------------------------------------------------------------------
(* The promise. *)

LEMMA Phases ==
  /\ PhaseOf("none") = "unsent" /\ PhaseOf("draft") = "unsent"
  /\ PhaseOf("pending") = "queued" /\ PhaseOf("ready") = "queued"
  /\ PhaseOf("delivered") = "arrived" /\ PhaseOf("opened") = "watched"
  /\ PhaseOf("expired") = "dropped" /\ PhaseOf("gone") = "dropped"
BY DEF PhaseOf, Undelivered

PhaseMap == [m \in Message |-> PhaseOf(state[m])]

\* The step of MessagePromise that moves the rows of S from phase p to q.
LEMMA MoveStep ==
  ASSUME NEW S \in SUBSET Message, NEW p, NEW q,
         \A m \in S : PhaseOf(state[m]) = p /\ PhaseOf(state'[m]) = q,
         \A m \in Message \ S : PhaseOf(state'[m]) = PhaseOf(state[m])
  PROVE  Promise!Move(S, p, q)
BY DEF Promise!Move

LEMMA StutterStep ==
  ASSUME \A m \in Message : PhaseOf(state'[m]) = PhaseOf(state[m]), UNCHANGED fires
  PROVE  UNCHANGED Promise!vars
BY DEF Promise!vars

LEMMA PromiseStep ==
  ASSUME Typed, Kept, [Next]_vars
  PROVE  [Promise!Next]_(Promise!vars)
<1> USE DEF Typed, TypeOK
<1>1. ASSUME NEW m \in Message,
             \/ \E c \in Child, u \in Adult \cup {NoOne}, d \in TargetDate : Capture(m, c, u, d)
             \/ LoseCapture(m)
      PROVE  UNCHANGED Promise!vars
  BY <1>1, Phases, StutterStep DEF Capture, LoseCapture
<1>2. ASSUME NEW m \in Message, Persist(m) PROVE Promise!Next
  <2>1. Promise!Move({m}, "unsent", "queued")
    BY <1>2, Phases, MoveStep DEF Persist
  <2> QED BY <1>2, <2>1 DEF Persist, Promise!Next, Promise!Send
<1>3. ASSUME NEW m \in Message, Open(m) PROVE Promise!Next
  <2>1. Promise!Move({m}, "arrived", "watched")
    BY <1>3, Phases, MoveStep DEF Open
  <2> QED BY <1>3, <2>1 DEF Open, Promise!Next, Promise!Watch
<1>4. ASSUME NEW u \in Adult, Deactivate(u) PROVE Promise!Next
  <2> DEFINE S == {m \in QueueOf(u) : state[m] \in Undelivered}
  <2>1. QueueOf(u) \subseteq Message /\ \A m \in QueueOf(u) : state[m] \in {"pending", "ready", "expired"}
    BY DEF QueueOf, Rows, State
  <2>2. Promise!Move(S, "queued", "dropped")
    BY <1>4, <2>1, Phases, MoveStep DEF Deactivate, Undelivered
  <2> QED BY <1>4, <2>1, <2>2 DEF Deactivate, Promise!Next, Promise!Drop
<1>5. ASSUME NEW c \in Child, NEW x \in Context, ChangeContext(c, x) \/ EffectiveDate(c, x)
      PROVE  UNCHANGED Promise!vars
  BY <1>5, Phases, StutterStep
     DEF ChangeContext, EffectiveDate, Invalidated, Undelivered, intentVars
<1>6. ASSUME NEW s \in Sweeper, NEW m \in Message, SweepWrite(s, m)
      PROVE  [Promise!Next]_(Promise!vars)
  <2>1. /\ fires' = fires
        /\ \/ state' = state
           \/ state[m] = "pending" /\ state' = [state EXCEPT ![m] = "ready"]
           \/ state[m] = "pending" /\ state' = [state EXCEPT ![m] = "expired"]
    BY <1>6 DEF SweepWrite, Unresolved
  <2>2. CASE state' = state
    BY <2>1, <2>2, StutterStep
  <2>3. CASE state[m] = "pending" /\ state' = [state EXCEPT ![m] = "ready"]
    BY <2>1, <2>3, Phases, StutterStep
  <2>4. CASE state[m] = "pending" /\ state' = [state EXCEPT ![m] = "expired"]
    <3>1. Promise!Move({m}, "queued", "dropped")
      BY <2>4, Phases, MoveStep
    <3> QED BY <2>1, <3>1 DEF Promise!Next, Promise!Drop
  <2> QED BY <2>1, <2>2, <2>3, <2>4
<1>7. ASSUME NEW s \in Sweeper,
             \/ SweepStart(s) \/ SweepSelect(s) \/ SweepEnd(s) \/ SweepCrash(s)
             \/ \E m \in Message : SweepLoad(s, m)
      PROVE  UNCHANGED Promise!vars
  BY <1>7, StutterStep DEF SweepStart, SweepSelect, SweepEnd, SweepCrash, SweepLoad, intentVars
<1>8. ASSUME NEW w \in Worker, ClaimUpdate(w) PROVE Promise!Next
  <2>1. held[w] \subseteq Message /\ \A m \in held[w] : state[m] = "ready" /\ fires[m] = 0
    BY DEF Kept, HeldDue, FiredOnce, Arrived
  <2>2. /\ state' = [m \in Message |-> IF m \in held[w] THEN "delivered" ELSE state[m]]
        /\ fires' = [m \in Message |-> IF m \in held[w] THEN 1 ELSE fires[m]]
    BY <1>8, <2>1 DEF ClaimUpdate
  <2>3. Promise!Move(held[w], "queued", "arrived")
    BY <2>1, <2>2, Phases, MoveStep
  <2> QED BY <2>1, <2>2, <2>3 DEF Promise!Next, Promise!Arrive
<1>9. ASSUME NEW w \in Worker, ClaimAbort(w) \/ \E S \in SUBSET Message : ClaimSelect(w, S)
      PROVE  UNCHANGED Promise!vars
  BY <1>9, StutterStep DEF ClaimAbort, ClaimSelect, intentVars
<1>10. CASE ExpireStale
  <2>1. Promise!Move(Stale, "queued", "dropped")
    BY <1>10, Phases, MoveStep DEF ExpireStale, Stale, Undelivered
  <2> QED BY <1>10, <2>1 DEF ExpireStale, Stale, Promise!Next, Promise!Drop
<1>11. CASE Tick \/ UNCHANGED vars
  BY <1>11, StutterStep DEF Tick, vars, intentVars
<1> QED BY <1>1, <1>2, <1>3, <1>4, <1>5, <1>6, <1>7, <1>8, <1>9, <1>10, <1>11
        DEF Next, SweepStep, ClaimStep

\* Whatever the engine's processes do, the sender and the child see only
\* MessagePromise: a message sent is handed over at most once or dropped for
\* good, and the one that arrived stays.
THEOREM Refinement == Spec => KeepsPromise
<1>1. Init => Promise!Init
  BY Phases DEF Init, Promise!Init
<1>2. Typed /\ Kept /\ [Next]_vars => [Promise!Next]_(Promise!vars)
  BY PromiseStep
<1> QED BY <1>1, <1>2, Invariants, PTL DEF Spec, KeepsPromise, Promise!Spec
============================================================================
