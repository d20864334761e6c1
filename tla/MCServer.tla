------------------------------ MODULE MCServer ------------------------------
(***************************************************************************)
(* The server process: the table registry, whose tables must go away; the  *)
(* pool, whose clients must be answered; and the processes beside it, the  *)
(* nightly jobs and the migrations.  They share no state; a behaviour is   *)
(* focused on one of them and the others keep still.                       *)
(***************************************************************************)
EXTENDS GameTable, SessionPool, Nightly

TheJobs == <<"reap-media", "health-alert">>
TheFiles == <<"0001_schema.sql", "0002_delivery_sweep.sql">>
TheRepeatable == {"0002_delivery_sweep.sql"}

VARIABLE focus

ServerVars == <<focus, vars, poolVars, nightlyVars>>

ServerInit ==
  /\ focus \in {"table", "pool", "night", "migrate"}
  /\ Init /\ PoolInit /\ NightlyInit

ServerNext ==
  /\ UNCHANGED focus
  /\ IF focus = "table" THEN Next ELSE UNCHANGED vars
  /\ IF focus = "pool" THEN PoolNext ELSE UNCHANGED poolVars
  /\ IF focus = "night" THEN NightNext ELSE UNCHANGED nightVars
  /\ IF focus = "migrate" THEN MigrateNext ELSE UNCHANGED migrateVars

\* Fairness of the table, in the behaviours that are about it.
AtTable(A) == focus = "table" /\ A

ServerSpec ==
  /\ ServerInit /\ [][ServerNext]_ServerVars
  /\ \A s \in Seat : WF_vars(AtTable(Rollback(s))) /\ WF_vars(AtTable(Closed(s)))
  /\ WF_vars(AtTable(Sweep)) /\ WF_vars(AtTable(Tick))
  /\ PoolFairness /\ NightFairness

-----------------------------------------------------------------------------
\* Every component of the server keeps the types of its state.
ServerTypeOK == TypeOK /\ PoolTypeOK /\ NightlyTypeOK

\* pool.ts, scheduler.mjs, migrate.mjs: connections, job locks and the ledger of
\* migrations are held by whom they belong to and tell the truth of what was done.
WhatIsSharedHolds ==
  PoolHolds /\ JobOnceAtATime /\ ExitIsHonest /\ NightsAreHours /\ LedgerIsTrue

\* table.ts T5 and T7, pool.ts, scheduler.mjs: whatever is opened ends: a table that
\* is not joined or outlives its ceiling, a socket of an ended table, every request,
\* every night of jobs and every process that was told to stop.
WhatIsOpenedEnds == Ephemeral /\ Answered /\ NightEnds /\ StopIsHeeded
=============================================================================
