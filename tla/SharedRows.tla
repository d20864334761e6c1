----------------------------- MODULE SharedRows -----------------------------
(***************************************************************************)
(* Rows that several guardians write: activity overrides, bag items,       *)
(* expenses and the emergency card.  Every write is one statement, so      *)
(* requests interleave statement by statement; a request names a child in  *)
(* its path and, where a row has an id of its own, the row.                *)
(*                                                                         *)
(* And lists a guardian sends whole: her availability windows and her      *)
(* favourite games.  One transaction deletes all her rows and inserts the  *)
(* new ones; nothing locks the list.  Under READ COMMITTED a DELETE sees   *)
(* the rows committed when it starts, waits for whoever is deleting one of *)
(* them, and never sees the rows that were inserted meanwhile.             *)
(***************************************************************************)
EXTENDS Naturals, FiniteSets

CONSTANTS
  Kin,           \* children
  BagItem, Expense,
  ChildOf,       \* the child each bag item and expense is of
  PutRequest,      \* requests of one guardian, each sends a list once
  Item             \* a window, or a kind of game

\* An id is of one table.
ASSUME SharedRowsAssumption ==
  ChildOf \in [BagItem \cup Expense -> Kin] /\ BagItem \cap Expense = {}

VARIABLES
  guardian_activity_override,   \* of one activity, by child
  exchange_bag_item, expense,   \* by id
  medical_record,               \* by child
  said,        \* history: the last word on every field of the first two
  servedFor,   \* history: children in the path of requests that changed a row
  listRows,        \* committed rows, as <<request, item>>
  putReq,          \* what each request is doing
  overlapped       \* history: requests whose transaction met another one

sharedVars == <<guardian_activity_override, exchange_bag_item, expense, medical_record, said, servedFor>>

Unset3 == [visible |-> "null", min_age |-> "null", revealed_at |-> "null"]
Unpacked == [sent |-> FALSE, returned |-> FALSE]
Blank == [allergies |-> "none", pediatrician |-> "none"]

SharedInit ==
  /\ guardian_activity_override = [c \in Kin |-> Unset3]
  /\ exchange_bag_item = [i \in BagItem |-> Unpacked]
  /\ expense = [x \in Expense |-> "unproposed"]
  /\ medical_record = [c \in Kin |-> Blank]
  /\ said = [overrides |-> guardian_activity_override, bags |-> exchange_bag_item]
  /\ servedFor = [i \in BagItem \cup Expense |-> {}]

\* What a request may name: some of the fields, each with a value.
PatchesOf(fields, values) == UNION {[S -> values] : S \in (SUBSET fields) \ {{}}}
OverridePatches == PatchesOf({"visible", "min_age", "revealed_at"}, {"a", "null"})
BagPatches == PatchesOf({"sent", "returned"}, BOOLEAN)

\* CASE WHEN ... THEN EXCLUDED.f ELSE f END
Patched(row, patch) == [f \in DOMAIN row |-> IF f \in DOMAIN patch THEN patch[f] ELSE row[f]]

\* INSERT ... ON CONFLICT DO UPDATE; the row that is absent is all null.
setActivityOverride(c, patch) ==
  /\ guardian_activity_override' = [guardian_activity_override EXCEPT ![c] = Patched(@, patch)]
  /\ said' = [said EXCEPT !.overrides[c] = [f \in DOMAIN @ |-> IF f \in DOMAIN patch THEN patch[f] ELSE @[f]]]
  /\ UNCHANGED <<exchange_bag_item, expense, medical_record, servedFor>>

deleteActivityOverride(c) ==
  /\ guardian_activity_override' = [guardian_activity_override EXCEPT ![c] = Unset3]
  /\ said' = [said EXCEPT !.overrides[c] = Unset3]
  /\ UNCHANGED <<exchange_bag_item, expense, medical_record, servedFor>>

\* WHERE id = $1 AND child_id = $2
Addressed(c, i) == ChildOf[i] = c

ServeFor(c, i) == servedFor' = [servedFor EXCEPT ![i] = @ \cup {c}]

\* COALESCE($3, sent), COALESCE($4, returned)
setBagItemStatus(c, i, patch) ==
  /\ Addressed(c, i)
  /\ exchange_bag_item' = [exchange_bag_item EXCEPT ![i] = Patched(@, patch)]
  /\ said' = [said EXCEPT !.bags[i] = [f \in DOMAIN @ |-> IF f \in DOMAIN patch THEN patch[f] ELSE @[f]]]
  /\ ServeFor(c, i)
  /\ UNCHANGED <<guardian_activity_override, expense, medical_record>>

proposeExpense(c, x) ==
  /\ expense[x] = "unproposed" /\ ChildOf[x] = c
  /\ expense' = [expense EXCEPT ![x] = "proposed"]
  /\ ServeFor(c, x)
  /\ UNCHANGED <<guardian_activity_override, exchange_bag_item, medical_record, said>>

EXPENSE_RESOLUTIONS == {"accepted", "disputed", "reimbursed"}

\* Whatever its status was; another child's row is not found.
resolveExpense(c, x, status) ==
  /\ expense[x] # "unproposed" /\ Addressed(c, x)
  /\ expense' = [expense EXCEPT ![x] = status]
  /\ ServeFor(c, x)
  /\ UNCHANGED <<guardian_activity_override, exchange_bag_item, medical_record, said>>

\* The caller's entire new set; a field the body leaves out is blank.
CardOf(old, fields) == fields

setMedicalRecord(c, fields) ==
  /\ medical_record' = [medical_record EXCEPT ![c] = CardOf(@, fields)]
  /\ UNCHANGED <<guardian_activity_override, exchange_bag_item, expense, said, servedFor>>

\* What a child's page shows of the rows: hers, and only what was proposed.
activityOverridesFor(c) == guardian_activity_override[c]
bagItemsFor(c) == {[item |-> i, row |-> exchange_bag_item[i]] : i \in {b \in BagItem : ChildOf[b] = c}}
expensesFor(c) == {x \in Expense : ChildOf[x] = c /\ expense[x] # "unproposed"}
medicalRecordFor(c) == medical_record[c]

\* Two parents' saves: each has one allergy list and one pediatrician in mind.
Saves == {[allergies |-> "hers", pediatrician |-> "none"], [allergies |-> "none", pediatrician |-> "his"]}

SharedNext ==
  \E c \in Kin :
    \/ \E patch \in OverridePatches : setActivityOverride(c, patch)
    \/ deleteActivityOverride(c)
    \/ \E i \in BagItem, patch \in BagPatches : setBagItemStatus(c, i, patch)
    \/ \E x \in Expense : proposeExpense(c, x)
    \/ \E x \in Expense, status \in EXPENSE_RESOLUTIONS : resolveExpense(c, x, status)
    \/ \E fields \in Saves : setMedicalRecord(c, fields)

-----------------------------------------------------------------------------
(* Lists sent whole. *)

replaceVars == <<listRows, putReq, overlapped>>

PutIdle == [pc |-> "idle"]

ReplaceInit ==
  /\ listRows = {}
  /\ putReq = [r \in PutRequest |-> PutIdle]
  /\ overlapped = {}

InTransaction == {r \in PutRequest : putReq[r].pc \in {"deleting", "deleted"}}

\* BEGIN, and the snapshot of the DELETE.
PutBegin(r, items) ==
  /\ putReq[r].pc = "idle"
  /\ putReq' = [putReq EXCEPT ![r] = [pc |-> "deleting", items |-> items, rows |-> listRows]]
  /\ overlapped' = IF InTransaction = {} THEN overlapped ELSE overlapped \cup InTransaction \cup {r}
  /\ UNCHANGED listRows

\* The DELETE takes its rows once nobody else's transaction holds one.
DeleteRows(r) ==
  /\ putReq[r].pc = "deleting"
  /\ \A o \in PutRequest \ {r} : putReq[o].pc = "deleted" => putReq[o].rows \cap putReq[r].rows = {}
  /\ putReq' = [putReq EXCEPT ![r].pc = "deleted", ![r].rows = @ \cap listRows]
  /\ UNCHANGED <<listRows, overlapped>>

\* guardian_availability_window has no key but its own: the inserts never clash.
setAvailabilityWindows(r) ==
  LET q == putReq[r] IN
  /\ q.pc = "deleted"
  /\ listRows' = (listRows \ q.rows) \cup {<<r, i>> : i \in q.items}
  /\ putReq' = [putReq EXCEPT ![r] = [q EXCEPT !.pc = "done", !.rows = {}]]
  /\ UNCHANGED overlapped

\* guardian_game_favorite is keyed by kind: a kind somebody else has just
\* inserted is a duplicate, and the whole transaction fails.
setGameFavoriteKinds(r) ==
  LET q == putReq[r]
      left == listRows \ q.rows IN
  /\ q.pc = "deleted"
  /\ IF \E row \in left : row[2] \in q.items
     THEN /\ putReq' = [putReq EXCEPT ![r] = [q EXCEPT !.pc = "failed", !.rows = {}]]
          /\ UNCHANGED listRows
     ELSE /\ putReq' = [putReq EXCEPT ![r] = [q EXCEPT !.pc = "done", !.rows = {}]]
          /\ listRows' = left \cup {<<r, i>> : i \in q.items}
  /\ UNCHANGED overlapped

AvailabilityNext ==
  \E r \in PutRequest :
    \/ \E items \in SUBSET Item : PutBegin(r, items)
    \/ DeleteRows(r) \/ setAvailabilityWindows(r)

FavoritesNext ==
  \E r \in PutRequest :
    \/ \E items \in SUBSET Item : PutBegin(r, items)
    \/ DeleteRows(r) \/ setGameFavoriteKinds(r)

-----------------------------------------------------------------------------
(* Properties. *)

\* pool.ts, setActivityOverride and setBagItemStatus: two guardians who change
\* different fields of one row both get their way; every field holds the last
\* word anyone said about it.
LastWordStands ==
  \A c \in Kin :
    /\ activityOverridesFor(c) = said.overrides[c]
    /\ \A shown \in bagItemsFor(c) : shown.row = said.bags[shown.item]

\* pool.ts, resolveExpense: "the child_id check inside that query is the real
\* lateral-privilege boundary": rows of a child change only by requests whose
\* path names that child, and every one of them is on that child's page.
OwnChildOnly ==
  /\ \A i \in BagItem \cup Expense : servedFor[i] \subseteq {ChildOf[i]}
  /\ \A c \in Kin, x \in Expense : x \in expensesFor(c) <=> c \in servedFor[x]

\* pool.ts, setMedicalRecord: "a genuine replace-all write": the emergency card
\* is always one person's save, never a mixture nobody wrote.
CardIsOneSave == \A c \in Kin : medicalRecordFor(c) \in Saves \cup {Blank}

\* Values of the variables; no committed row belongs to a list that failed.
ReplaceTypeOK ==
  /\ listRows \subseteq PutRequest \X Item
  /\ overlapped \subseteq PutRequest
  /\ \A row \in listRows : putReq[row[1]].pc = "done" /\ row[2] \in putReq[row[1]].items

\* pool.ts, setAvailabilityWindows and setGameFavoriteKinds: a list that was
\* sent while no other was being stored is, once it is stored, the whole list.
SentAloneIsWhole ==
  [\A r \in PutRequest \ overlapped :
     putReq[r].pc = "deleted" /\ putReq'[r].pc = "done" =>
       listRows' = {<<r, i>> : i \in putReq[r].items}]_replaceVars

\* pool.ts, setGameFavoriteKinds: a kind is never starred twice.
KindStarredOnce == \A a, b \in listRows : a[2] = b[2] => a = b
=============================================================================
