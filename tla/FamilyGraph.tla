----------------------------- MODULE FamilyGraph -----------------------------
(***************************************************************************)
(* The authorization decision: can(action, edges, child, now) over the     *)
(* edges a person holds.  Instants are integers, Nil where the column is   *)
(* null; a scope is the set of actions it explicitly denies.               *)
(***************************************************************************)
EXTENDS Integers, Sequences

CONSTANT Never     \* a null instant, or no ladder step

ASSUME NeverAssumption == Never \notin Int

WRITES == {"homework.annotate", "calendar.edit", "list.claim", "medication.log",
           "emergency_card.edit", "care_note.write", "archive.preserve", "expense.create",
           "expense.resolve", "ladder.advance", "settings"}
CONTACT == {"call", "message"}

MedicalReads == {"medication.view", "emergency_card.view"}
DayToDay == {"call", "message", "homework.view", "calendar.view", "list.view", "archive.view",
             "care_note.view"} \cup MedicalReads

ROLE_CAPS == [
  guardian      |-> DayToDay \cup (WRITES \ {"ladder.advance"})
                      \cup {"export.raw", "export.certified", "expense.view"},
  step_parent   |-> DayToDay,
  trusted_adult |-> CONTACT \cup {"calendar.view", "archive.view"},
  sitter        |-> MedicalReads \cup {"medication.log", "calendar.view", "care_note.view", "care_note.write"},
  foster_parent |-> DayToDay \cup {"homework.annotate", "calendar.edit", "list.claim",
                                   "medication.log", "care_note.write"},
  coordinator   |-> {"calendar.view", "expense.view", "export.certified", "ladder.advance"},
  caseworker    |-> MedicalReads \cup {"calendar.view", "care_note.view", "ladder.advance"},
  therapist     |-> {"ladder.advance"}]

Role == DOMAIN ROLE_CAPS
Action == UNION {ROLE_CAPS[r] : r \in Role} \cup {"letter", "journal.read"}

Past(when, now) == when # Never /\ when <= now

\* Where an edge stands in time; the first test that fails names the reason.
Lapsed(e, now) ==
  IF Past(e.closedAt, now) THEN "edge_closed"
  ELSE IF Past(e.expiresAt, now) THEN "edge_expired"
  ELSE IF (e.validFrom # Never /\ e.validFrom > now) \/ Past(e.validTo, now) THEN "outside_validity"
  ELSE "live"

\* What one edge says to an action, in the order of the tests.
EdgeSays(e, action, now, court) ==
  IF Lapsed(e, now) # "live" THEN Lapsed(e, now)
  ELSE IF e.restricted THEN "restricted"
  ELSE IF e.ladderStep = "none" /\ action \in CONTACT THEN "ladder_none"
  ELSE IF e.observerOnly /\ action \in WRITES THEN "observer_readonly"
  ELSE IF action \notin ROLE_CAPS[e.role] THEN "role_lacks_capability"
  ELSE IF action \in e.denied THEN "scope_denied"
  ELSE IF action = "export.certified" /\ ~court THEN "tier_required"
  ELSE "allow"

DenyRank == <<"no_edge", "edge_closed", "edge_expired", "outside_validity", "restricted",
              "ladder_none", "observer_readonly", "role_lacks_capability", "scope_denied",
              "tier_required">>

\* Mutant: an edge in force that refuses wins.
VerdictOfWorst(says) ==
  LET refusals == says \ {"allow", "edge_closed"} IN IF refusals = {} THEN says ELSE refusals

\* One edge that allows is enough.
VerdictOf(says) == says

\* P7 before everything, P6 next; then any edge of this child may allow, and
\* otherwise the reason of the edge that got furthest is the answer.
can(action, edges, child, now, isChild, court) ==
  LET says == VerdictOf({EdgeSays(e, action, now, court) : e \in {f \in edges : f.child = child}}) IN
  IF action = "journal.read" THEN "P7_journal_never"
  ELSE IF isChild /\ action \in {"expense.view", "expense.create", "expense.resolve"}
  THEN "P6_child_financial"
  ELSE IF {f \in edges : f.child = child} = {} THEN "no_edge"
  ELSE IF "allow" \in says THEN "allow"
  ELSE DenyRank[CHOOSE i \in DOMAIN DenyRank :
         DenyRank[i] \in says /\ \A j \in i + 1 .. Len(DenyRank) : DenyRank[j] \notin says]
=============================================================================
