------------------------------ MODULE Nightly ------------------------------
(***************************************************************************)
(* tools/scheduler.mjs and tools/migrate.mjs, run by hand or by a service: *)
(* the nightly jobs under their advisory locks, on a schedule that a long  *)
(* night, a stop or a dying connection disturbs, and the migrations, which *)
(* nothing keeps two operators from applying at once.                      *)
(***************************************************************************)
EXTENDS Integers, Sequences, SequencesExt, FiniteSets

CONSTANTS
  Scheduler,          \* processes that may run `loop' or `run all'
  JOB_NAMES,          \* the registry, in the order it is run
  HourUtc, LastTick,  \* the hour of the schedule, and a bound of the clock
  DayTicks,
  Operator,           \* processes that run migrate.mjs
  Files,              \* db/migrations/*.sql in lexical order
  Repeatable,         \* the files that do not fail where they were executed before
  NoProcess

ASSUME NightlyAssumption ==
  /\ DayTicks \in Nat \ {0} /\ HourUtc \in 0..(DayTicks - 1) /\ LastTick \in Nat
  /\ JOB_NAMES \in Seq(STRING) /\ JOB_NAMES # <<>>
  /\ IsInjective(JOB_NAMES) /\ IsInjective(Files) /\ NoProcess \notin Scheduler
  /\ Repeatable \subseteq ToSet(Files)

VARIABLES
  scheduler,   \* each process
  jobLock,     \* pg_try_advisory_lock: the session that holds each job's key
  unhealthy,   \* health_check has a breach
  tick,
  \* migrate.mjs
  operator,
  content,     \* what each file says now: a version
  schema,      \* what was executed in the database: <<file, version>>
  schema_migration, \* the ledger: <<file, version>>
  slipped           \* history: files that changed between an operator's two readings of them

nightVars == <<scheduler, jobLock, unhealthy, tick>>
migrateVars == <<operator, content, schema, schema_migration, slipped>>
nightlyVars == <<nightVars, migrateVars>>

Job == ToSet(JOB_NAMES)

Off == [pc |-> "off"]
Run(pc, todo, body) == [pc |-> pc, todo |-> todo, body |-> body]
NoRun == Run("off", <<>>, 0)

NightlyInit ==
  /\ scheduler = [s \in Scheduler |-> Off]
  /\ jobLock = [j \in Job |-> NoProcess]
  /\ unhealthy = FALSE /\ tick = 0
  /\ operator = [o \in Operator |-> NoRun]
  /\ content = [f \in ToSet(Files) |-> 1]
  /\ schema = {} /\ schema_migration = {} /\ slipped = {}

-----------------------------------------------------------------------------
(* The jobs of a night. *)

SchedulerIs(s, p) == scheduler' = [scheduler EXCEPT ![s] = p]

\* How long until the hour strikes again; a night that ends on the hour, or
\* begins on it, sleeps until the next day.
\* Mutant: the hour that has just struck is still ahead.
msUntilNextRunAgain(now) == (HourUtc + DayTicks - (now % DayTicks)) % DayTicks

msUntilNextRun(now) ==
  LET ahead == (HourUtc + DayTicks - (now % DayTicks)) % DayTicks
  IN  IF ahead = 0 THEN DayTicks ELSE ahead

\* interruptibleSleep() counts its chunks down; it does not look at the clock again.
GoToSleep(p, now) == [p EXCEPT !.pc = "asleep", !.left = msUntilNextRun(now)]

\* loop(): the schedule, and SIGTERM's handler.
loop(s) ==
  /\ scheduler[s].pc = "off"
  /\ SchedulerIs(s, GoToSleep([pc |-> "asleep", loops |-> TRUE, left |-> 0, stopping |-> FALSE, job |-> 1,
                               allOk |-> TRUE, sawBad |-> FALSE, last |-> 0 - DayTicks, awry |-> FALSE], tick))
  /\ UNCHANGED <<jobLock, unhealthy, tick>>

\* `run all'
RunOnce(s) ==
  /\ scheduler[s].pc = "off"
  /\ SchedulerIs(s, [pc |-> "lock", loops |-> FALSE, left |-> 0, stopping |-> FALSE, job |-> 1,
                     allOk |-> TRUE, sawBad |-> FALSE, last |-> tick, awry |-> FALSE])
  /\ UNCHANGED <<jobLock, unhealthy, tick>>

\* History: a night off the hour, or a second one on its day.
AwryNight(p, now) == now % DayTicks # HourUtc \/ now - p.last < DayTicks

\* The sleep is over and nobody asked it to stop: runAll().
WakeUp(s) ==
  LET p == scheduler[s] IN
  /\ p.pc = "asleep" /\ p.left = 0 /\ ~p.stopping
  /\ SchedulerIs(s, [p EXCEPT !.pc = "lock", !.job = 1, !.allOk = TRUE, !.sawBad = FALSE,
                              !.last = tick, !.awry = p.awry \/ AwryNight(p, tick)])
  /\ UNCHANGED <<jobLock, unhealthy, tick>>

\* A chunk of the sleep ends, or the night does, and the loop is told to stop.
LoopStops(s) ==
  /\ scheduler[s].pc = "asleep" /\ scheduler[s].stopping
  /\ SchedulerIs(s, [scheduler[s] EXCEPT !.pc = "exit"])
  /\ UNCHANGED <<jobLock, unhealthy, tick>>

\* Mutant: the last job decides.
AllOkLast(p, ok) == ok

AllOk(p, ok) == p.allOk /\ ok

\* What runAll() does with the answer of one job: on to the next, or to bed.
NextJob(p, ok, bad) ==
  LET q == [p EXCEPT !.allOk = AllOk(p, ok), !.sawBad = p.sawBad \/ bad, !.job = p.job + 1] IN
  IF p.job < Len(JOB_NAMES) THEN [q EXCEPT !.pc = "lock"]
  ELSE IF p.loops THEN GoToSleep(q, tick) ELSE [q EXCEPT !.pc = "exit"]

JobOf(s) == JOB_NAMES[scheduler[s].job]

\* Mutant: the loser of the lock runs its job as well.
GrantedAlways(j) == TRUE

Granted(j) == jobLock[j] = NoProcess

\* pg_try_advisory_lock() does not wait: a lock that is held is a job skipped.
withJobLock(s) ==
  /\ scheduler[s].pc = "lock"
  /\ IF Granted(JobOf(s))
     THEN /\ jobLock' = [jobLock EXCEPT ![JobOf(s)] = s]
          /\ SchedulerIs(s, [scheduler[s] EXCEPT !.pc = "work"])
     ELSE SchedulerIs(s, NextJob(scheduler[s], TRUE, FALSE)) /\ UNCHANGED jobLock
  /\ UNCHANGED <<unhealthy, tick>>

\* The health check's subprocess leaves with 0 only if no row of the view is in
\* breach; a sweep or a reap that returns is a success, whatever it counted.
runHealthAlertSubprocess == IF unhealthy THEN "breach" ELSE "ok"

HowItWent(j) == IF j = "health-alert" THEN runHealthAlertSubprocess ELSE "ok"

\* The body returns, the lock is given back, and the line of its end is written.
runNamedJob(s) ==
  /\ scheduler[s].pc = "work"
  /\ jobLock' = [jobLock EXCEPT ![JobOf(s)] = NoProcess]
  /\ LET ok == HowItWent(JobOf(s)) = "ok"
     IN  SchedulerIs(s, NextJob(scheduler[s], ok, ~ok))
  /\ UNCHANGED <<unhealthy, tick>>

\* It throws, or its connection goes: either way the lock is gone with it, the
\* failure is in the answer, and the jobs after it have their turn.
JobFails(s) ==
  /\ scheduler[s].pc \in {"lock", "work"}
  /\ jobLock' = [j \in Job |-> IF jobLock[j] = s THEN NoProcess ELSE jobLock[j]]
  /\ SchedulerIs(s, NextJob(scheduler[s], FALSE, TRUE))
  /\ UNCHANGED <<unhealthy, tick>>

\* docker compose stop; and SIGKILL, ten seconds later or out of the blue.
Sigterm(s) ==
  /\ scheduler[s].pc \in {"asleep", "lock", "work"} /\ scheduler[s].loops
  /\ SchedulerIs(s, [scheduler[s] EXCEPT !.stopping = TRUE])
  /\ UNCHANGED <<jobLock, unhealthy, tick>>

Killed(s) ==
  /\ scheduler[s].pc \in {"lock", "work"}
  /\ jobLock' = [j \in Job |-> IF jobLock[j] = s THEN NoProcess ELSE jobLock[j]]
  /\ SchedulerIs(s, [scheduler[s] EXCEPT !.pc = "killed"])
  /\ UNCHANGED <<unhealthy, tick>>

HealthChanges == unhealthy' = ~unhealthy /\ UNCHANGED <<scheduler, jobLock, tick>>

\* The time a job takes; a sleeper whose sleep is over is woken first.
TickPasses ==
  /\ tick < LastTick /\ tick' = tick + 1
  /\ \A s \in Scheduler : scheduler[s].pc = "asleep" => scheduler[s].left > 0
  /\ scheduler' = [s \in Scheduler |->
       IF scheduler[s].pc = "asleep" THEN [scheduler[s] EXCEPT !.left = @ - 1] ELSE scheduler[s]]
  /\ UNCHANGED <<jobLock, unhealthy>>

SchedulerWorks(s) == WakeUp(s) \/ LoopStops(s) \/ withJobLock(s) \/ runNamedJob(s) \/ JobFails(s)

NightNext ==
  \/ \E s \in Scheduler : loop(s) \/ RunOnce(s) \/ SchedulerWorks(s) \/ Sigterm(s) \/ Killed(s)
  \/ HealthChanges \/ TickPasses

NightFairness == \A s \in Scheduler : WF_nightVars(SchedulerWorks(s))

-----------------------------------------------------------------------------
(* Migrations. *)

Absent == 0
MigrationFile == ToSet(Files)
Recorded == {m[1] : m \in schema_migration}
Executed == {m[1] : m \in schema}
Place(f) == CHOOSE n \in DOMAIN Files : Files[n] = f

OperatorIs(o, p) == operator' = [operator EXCEPT ![o] = p]
RunEnds(o) == OperatorIs(o, NoRun)

\* What one run sees of the ledger and of the directory.
Changed(ledger) == {m \in ledger : content[m[1]] \notin {Absent, m[2]}}
Orphans(ledger) == {m \in ledger : content[m[1]] = Absent}
Unapplied(ledger) == {f \in MigrationFile : content[f] # Absent /\ f \notin {m[1] : m \in ledger}}
Gap(ledger) == \E f \in Unapplied(ledger), m \in ledger : Place(m[1]) > Place(f)

\* The ledger, the files, and the three refusals, which leave everything as it is.
Migrate(o) ==
  /\ operator[o].pc = "off"
  /\ LET ledger == schema_migration IN
     IF Changed(ledger) # {} \/ Orphans(ledger) # {} \/ Gap(ledger)
     THEN RunEnds(o)
     ELSE OperatorIs(o, Run("apply", SelectSeq(Files, LAMBDA f : f \in Unapplied(ledger)), 0))
  /\ UNCHANGED <<content, schema, schema_migration, slipped>>

MigrationsDone(o) ==
  /\ operator[o].pc = "apply" /\ operator[o].todo = <<>>
  /\ RunEnds(o)
  /\ UNCHANGED <<content, schema, schema_migration, slipped>>

\* The file is read for its checksum.
ReadBody(o) ==
  LET p == operator[o] f == Head(p.todo) IN
  /\ p.pc = "apply" /\ p.todo # <<>>
  /\ IF content[f] = Absent THEN RunEnds(o) ELSE OperatorIs(o, Run("exec", p.todo, content[f]))
  /\ UNCHANGED <<content, schema, schema_migration, slipped>>

\* execFile() reads it again: the whole file in one transaction, or none of it.
ExecFile(o) ==
  LET p == operator[o] f == Head(p.todo) IN
  /\ p.pc = "exec"
  /\ IF content[f] = Absent \/ (f \in Executed /\ f \notin Repeatable)
     THEN RunEnds(o) /\ UNCHANGED schema
     ELSE schema' = schema \cup {<<f, content[f]>>} /\ OperatorIs(o, Run("record", p.todo, p.body))
  /\ UNCHANGED <<content, schema_migration, slipped>>

\* Mutant: the checksum is that of the file as it lies there when it is recorded.
ChecksumNow(o) == content[Head(operator[o].todo)]

\* body is in memory since before the file was executed.
Checksum(o) == operator[o].body

\* The row of the ledger, in a statement of its own; its key is the file.
RecordMigration(o) ==
  LET p == operator[o] f == Head(p.todo) IN
  /\ p.pc = "record"
  /\ IF f \in Recorded
     THEN RunEnds(o) /\ UNCHANGED schema_migration
     ELSE /\ schema_migration' = schema_migration \cup {<<f, Checksum(o)>>}
          /\ OperatorIs(o, Run("apply", Tail(p.todo), 0))
  /\ UNCHANGED <<content, schema, slipped>>

MigrateDies(o) ==
  /\ operator[o].pc \in {"apply", "exec", "record"}
  /\ RunEnds(o)
  /\ UNCHANGED <<content, schema, schema_migration, slipped>>

\* Operators who will execute another text than the one they have the checksum of.
Outdated(now) == {o \in Operator : operator[o].pc = "exec" /\ now[Head(operator[o].todo)] # operator[o].body}

\* A checkout adds, edits or removes a file.
FileChanges(f) ==
  /\ \E v \in {Absent, 1, 2} \ {content[f]} : content' = [content EXCEPT ![f] = v]
  /\ slipped' = slipped \cup {Head(operator[o].todo) : o \in Outdated(content')}
  /\ UNCHANGED <<operator, schema, schema_migration>>

MigrateNext ==
  \/ \E o \in Operator :
       Migrate(o) \/ MigrationsDone(o) \/ ReadBody(o) \/ ExecFile(o) \/ RecordMigration(o) \/ MigrateDies(o)
  \/ \E f \in MigrationFile : FileChanges(f)

NightlyNext ==
  \/ NightNext /\ UNCHANGED migrateVars
  \/ MigrateNext /\ UNCHANGED nightVars

NightlySpec == NightlyInit /\ [][NightlyNext]_nightlyVars /\ NightFairness

-----------------------------------------------------------------------------
(* Properties. *)

NightlyTypeOK ==
  /\ \A s \in Scheduler : scheduler[s].pc \in {"off", "asleep", "lock", "work", "exit", "killed"}
  /\ jobLock \in [Job -> Scheduler \cup {NoProcess}]
  /\ \A o \in Operator : operator[o].pc \in {"off", "apply", "exec", "record"}

\* scheduler.mjs, withJobLock: a job runs in one process at a time, and a lock is
\* never left with a process that does not run its job: neither a failure nor a
\* kill shuts the job out of the next night.
JobOnceAtATime ==
  /\ \A s \in Scheduler : scheduler[s].pc = "work" => jobLock[JobOf(s)] = s
  /\ \A j \in Job, s \in Scheduler : jobLock[j] = s => scheduler[s].pc = "work" /\ JobOf(s) = j

\* scheduler.mjs, runAll: an operator's `run all' leaves with success exactly when
\* nothing it ran failed and the health check it made saw no breach, in whatever
\* order that came out.
ExitIsHonest ==
  \A s \in Scheduler : scheduler[s].pc = "exit" /\ ~scheduler[s].loops => scheduler[s].allOk = ~scheduler[s].sawBad

\* scheduler.mjs, msUntilNextRun: the loop works at the hour, once on a day, however
\* long the night before it took; a night that outlasts the day is not made up for.
NightsAreHours == \A s \in Scheduler : scheduler[s].pc # "off" => ~scheduler[s].awry

\* migrate.mjs, M3: every file of the ledger was executed, and has one row.  The row
\* names a version that was executed, also where the file is edited, removed or applied
\* by another operator meanwhile, except for a file that was edited between the reading
\* of its checksum and that of its execution; and a file that cannot run twice was
\* executed in one version only.
LedgerIsTrue ==
  \A m \in schema_migration :
    /\ m[1] \in Executed /\ (m \in schema \/ m[1] \in slipped)
    /\ \A n \in schema_migration : n[1] = m[1] => n = m
    /\ m[1] \notin Repeatable => \A n, k \in schema : n[1] = m[1] /\ k[1] = m[1] => n = k

\* scheduler.mjs, loop: whatever a job does, the night comes to its end.
NightEnds ==
  \A s \in Scheduler : scheduler[s].pc = "lock" ~> scheduler[s].pc \in {"asleep", "exit", "killed"}

\* scheduler.mjs, loop: a process that was told to stop stops, asleep or at work.
StopIsHeeded ==
  \A s \in Scheduler :
    (scheduler[s].pc # "off" /\ scheduler[s].stopping) ~> scheduler[s].pc \in {"exit", "killed"}
=============================================================================
