---------------------------- MODULE ChildRecords ----------------------------
(***************************************************************************)
(* Two records of one child that several people write at once: doses of a  *)
(* medicine, kept apart by a partial unique index, and her letters to her  *)
(* older self, sealed until an age.                                        *)
(***************************************************************************)
EXTENDS Naturals, FiniteSets

CONSTANTS
  DoseRequest,              \* each is one POST of a dose for the same slot
  Letter, LetterRequest,    \* letters; requests of her devices
  MIN_SEAL_YEARS, MAX_SEAL_TO_AGE,
  FirstAge, LastAge,        \* her age at the start and where the clock stops
  Unset

ASSUME ChildRecordsAssumption ==
  /\ FirstAge \in Nat /\ LastAge \in Nat /\ FirstAge <= LastAge
  /\ MIN_SEAL_YEARS \in Nat /\ MAX_SEAL_TO_AGE \in Nat /\ Unset \notin Nat

VARIABLES
  medication_dose,   \* committed doses: who and with what status
  doseReq,           \* what each dose request is doing
  letter,            \* rows of the table
  letterReq,         \* what each letter request is doing
  age                \* her age today, by her own calendar

doseVars == <<medication_dose, doseReq>>
letterVars == <<letter, letterReq, age>>
childRecordVars == <<doseVars, letterVars>>

NoLetter == [sealed |-> FALSE]
LetterIdle == [pc |-> "idle"]

ChildRecordsInit ==
  /\ medication_dose = {}
  /\ doseReq = [r \in DoseRequest |-> [pc |-> "idle"]]
  /\ letter = [l \in Letter |-> NoLetter]
  /\ letterReq = [r \in LetterRequest |-> LetterIdle]
  /\ age = FirstAge

-----------------------------------------------------------------------------
(* Doses of one slot of one day. *)

DoseStatus == {"given", "skipped", "refused", "missed"}
GivenBy(pc) == {r \in DoseRequest : doseReq[r].pc = pc /\ doseReq[r].status = "given"}

\* Mutant: a SELECT before a plain INSERT, instead of the index.
InsertDoseUnindexed(r, status) ==
  /\ doseReq[r].pc = "idle"
  /\ doseReq' = [doseReq EXCEPT ![r] =
       [pc |-> IF status = "given" /\ \E d \in medication_dose : d.status = "given"
               THEN "clashed" ELSE "inserted",
        status |-> status]]
  /\ UNCHANGED <<medication_dose, letterVars>>

\* The INSERT enters the index of given doses, or waits for whoever is in it.
InsertDose(r, status) ==
  /\ doseReq[r].pc = "idle"
  /\ status = "given" => GivenBy("inserted") = {}
  /\ doseReq' = [doseReq EXCEPT ![r] =
       [pc |-> IF status = "given" /\ \E d \in medication_dose : d.status = "given"
               THEN "clashed" ELSE "inserted",
        status |-> status]]
  /\ UNCHANGED <<medication_dose, letterVars>>

\* COMMIT, or the connection breaks and the row was never there.
CommitDose(r) ==
  /\ doseReq[r].pc = "inserted"
  /\ medication_dose' = medication_dose \cup {[by |-> r, status |-> doseReq[r].status]}
  /\ doseReq' = [doseReq EXCEPT ![r].pc = "ok"]
  /\ UNCHANGED letterVars
AbortDose(r) ==
  /\ doseReq[r].pc = "inserted"
  /\ doseReq' = [doseReq EXCEPT ![r].pc = "failed"]
  /\ UNCHANGED <<medication_dose, letterVars>>

\* The refusal names who gave it, from a second SELECT.
RefuseDose(r) ==
  LET given == {d \in medication_dose : d.status = "given"} IN
  /\ doseReq[r].pc = "clashed"
  /\ doseReq' = [doseReq EXCEPT ![r] =
       [pc |-> "refused", status |-> "given",
        blockedBy |-> IF given = {} THEN Unset ELSE (CHOOSE d \in given : TRUE).by]]
  /\ UNCHANGED <<medication_dose, letterVars>>

\* What both houses see of the day.
dosesForDate == medication_dose

recordDose(r) ==
  \/ \E status \in DoseStatus : InsertDose(r, status)
  \/ CommitDose(r) \/ AbortDose(r) \/ RefuseDose(r)

-----------------------------------------------------------------------------
(* Letters. *)

\* Her age comes from her birth date, never from the request.
sealLetterRow(l, openAtAge) ==
  /\ letter[l] = NoLetter
  /\ openAtAge - age >= MIN_SEAL_YEARS /\ openAtAge <= MAX_SEAL_TO_AGE
  /\ letter' = [letter EXCEPT ![l] = [sealed |-> TRUE, written_at_age |-> age,
                                      open_at_age |-> openAtAge, opened_at |-> Unset, by |-> Unset]]
  /\ UNCHANGED <<doseVars, letterReq, age>>

\* Open, first statement: read the row and her age.
ReadLetter(r, l) ==
  /\ letterReq[r].pc = "idle"
  /\ letterReq' = [letterReq EXCEPT ![r] =
       IF letter[l].sealed /\ letter[l].opened_at = Unset /\ age >= letter[l].open_at_age
       THEN [pc |-> "may_open", letter |-> l] ELSE [pc |-> "refused"]]
  /\ UNCHANGED <<doseVars, letter, age>>

StillSealed(l) == letter[l].sealed /\ letter[l].opened_at = Unset

\* Open, second statement: UPDATE ... WHERE opened_at IS NULL.
openLetterRow(r) ==
  LET l == letterReq[r].letter IN
  /\ letterReq[r].pc = "may_open"
  /\ IF StillSealed(l)
     THEN /\ letter' = [letter EXCEPT ![l].opened_at = age, ![l].by = r]
          /\ letterReq' = [letterReq EXCEPT ![r].pc = "opened"]
     ELSE /\ letterReq' = [letterReq EXCEPT ![r] = [pc |-> "refused"]]
          /\ UNCHANGED letter
  /\ UNCHANGED <<doseVars, age>>

\* The row is gone for good, and its id is not used again.
deleteLetterRow(l) ==
  /\ letter[l].sealed
  /\ letter' = [letter EXCEPT ![l] = [sealed |-> FALSE, gone |-> TRUE]]
  /\ UNCHANGED <<doseVars, letterReq, age>>

\* Her letters as she is shown them: the words only of those she opened.
lettersFor ==
  {[letter |-> l, words |-> letter[l].opened_at # Unset] : l \in {m \in Letter : letter[m].sealed}}

Birthday ==
  /\ age < LastAge /\ age' = age + 1
  /\ UNCHANGED <<doseVars, letter, letterReq>>

DoseNext == \E r \in DoseRequest : recordDose(r)
LetterNext ==
  \/ \E l \in Letter :
       \/ \E openAtAge \in FirstAge..(LastAge + 1) : sealLetterRow(l, openAtAge)
       \/ deleteLetterRow(l)
       \/ \E r \in LetterRequest : ReadLetter(r, l)
  \/ \E r \in LetterRequest : openLetterRow(r)
  \/ Birthday

ChildRecordsNext == DoseNext \/ LetterNext
ChildRecordsSpec == ChildRecordsInit /\ [][ChildRecordsNext]_childRecordVars

-----------------------------------------------------------------------------
(* Properties. *)

\* Values of the variables; a letter never opens below MIN_SEAL_YEARS.
ChildRecordsTypeOK ==
  /\ \A d \in medication_dose : d.by \in DoseRequest /\ d.status \in DoseStatus
  /\ age \in FirstAge..LastAge
  /\ \A l \in Letter : letter[l].sealed =>
       /\ letter[l].open_at_age \in (letter[l].written_at_age + MIN_SEAL_YEARS)..MAX_SEAL_TO_AGE
       /\ letter[l].opened_at \in FirstAge..LastAge \cup {Unset}

\* pool.ts, recordDose: two parents who log one dose at the same moment never
\* both hear that they gave it, whichever of their connections breaks.
GivenOnce ==
  /\ Cardinality(GivenBy("ok")) <= 1
  /\ Cardinality({d \in dosesForDate : d.status = "given"}) <= 1

\* pool.ts, recordDose: who is refused is told of somebody whose dose is in the
\* record; a dose that failed to commit refuses nobody.
RefusedByARealDose ==
  \A r \in DoseRequest : doseReq[r].pc = "refused" =>
    [by |-> doseReq[r].blockedBy, status |-> "given"] \in dosesForDate

\* pool.ts, openLetterRow: a letter is opened once, by one device, not before
\* the age it waits for; until then her list holds none of its words.
LetterOpensOnce ==
  /\ \A r, s \in LetterRequest :
       letterReq[r].pc = "opened" /\ letterReq[s].pc = "opened"
         /\ letterReq[r].letter = letterReq[s].letter => r = s
  /\ \A shown \in lettersFor : shown.words => age >= letter[shown.letter].open_at_age
=============================================================================
