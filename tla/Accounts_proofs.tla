--------------------------- MODULE Accounts_proofs ---------------------------
(***************************************************************************)
(* Who gets in, and from which device.                                     *)
(*                                                                         *)
(* A PIN on the server, for any number of guardians, PINs, requests in     *)
(* flight, attempts and any length of the lock: PinHolds is an invariant   *)
(* of PinSpec.  Every request looks at a row before scrypt and writes it   *)
(* after, and what it saw is still so because it holds the row: that, and  *)
(* that the counter is the number of misses, make the invariant inductive. *)
(*                                                                         *)
(* Passkeys, for any number of accounts, keys, challenges and requests in  *)
(* flight and any counters: LoginsHold is an invariant of PasskeySpec.     *)
(* Every step of a request is a database session of its own, so what makes *)
(* the invariant inductive is what a request may still rely on: a spent    *)
(* challenge is its own, a counter once advanced only grows while the key  *)
(* stays with its account, and whoever stores a passkey holds the account. *)
(*                                                                         *)
(* Pairing a child's device, for any number of codes, numbers, devices,    *)
(* requests and attempts: PairedOnce is an invariant of PairSpec.  What    *)
(* makes it inductive is that redeeming locks every row it matched, and    *)
(* cancelling the one it names: what either found is so until it commits.  *)
(*                                                                         *)
(* Push, for any number of tokens and notifications: PushHolds is an       *)
(* invariant of PushSpec.  Every send that waits for a token is known to   *)
(* the mint in flight, one of them started it, and an id is never given to *)
(* a second row, so that cleaning up after an old answer removes nobody    *)
(* else's.                                                                 *)
(***************************************************************************)
EXTENDS MCAccounts, FiniteSetTheorems, SequenceTheorems, TLAPS

-----------------------------------------------------------------------------
(* A guardian's PIN. *)

UnsetRows == [set : {FALSE}, failed : {0}, lockLeft : {0}]
SetRows == [set : {TRUE}, pin : Pin, failed : 0..(PIN_MAX_ATTEMPTS - 1), lockLeft : 0..PIN_LOCKOUT]
Verifying == [op : {"verify"}, todo : SUBSET Guardian, at : Guardian \cup {Free},
              matched : BOOLEAN, guess : Pin]
Changing == [op : {"set", "deactivate"}, todo : {{}}, at : Guardian, matched : {FALSE}, guess : Pin]

\* pool.ts, attemptPinFor: from the SELECT ... FOR UPDATE to the COMMIT the request
\* holds the row it guesses at, and the PIN is set and not locked.
GuessHoldsItsRow ==
  \A r \in PinRequest :
    pinRequest[r].op = "verify" /\ pinRequest[r].at # Free =>
      /\ pinLock[pinRequest[r].at] = r
      /\ pinCredential[pinRequest[r].at] \in SetRows
      /\ ~PinLocked(pinRequest[r].at)

\* pool.ts, setPinCredential, deactivateAccount: whoever changes an account holds it,
\* and it is still active.
ChangeHoldsItsAccount ==
  \A r \in PinRequest :
    pinRequest[r].op \in {"set", "deactivate"} =>
      userLock[pinRequest[r].at] = r /\ active[pinRequest[r].at]

\* pool.ts, attemptPinFor: the counter is the number of misses until it imposes a
\* lock, and starts again at zero then.
CounterIsMisses ==
  \A g \in Guardian :
    IF PinLocked(g) THEN misses[g] = PIN_MAX_ATTEMPTS /\ pinCredential[g].failed = 0
    ELSE misses[g] = pinCredential[g].failed

PinInv ==
  /\ PinTypeOK /\ GuessHoldsItsRow /\ ChangeHoldsItsAccount /\ CounterIsMisses
  /\ NoPinAfterDeactivation

USE PinAssumption

-----------------------------------------------------------------------------
(* Rows. *)

\* A row is one of a PIN that is set, or of none.
LEMMA RowKinds == PinRows = SetRows \cup UnsetRows
BY DEF PinRows, SetRows, UnsetRows

\* A PIN that is set has its counter and its lock; none has neither.
LEMMA RowFacts ==
  /\ \A row \in SetRows : /\ row.set /\ row.failed \in 0..(PIN_MAX_ATTEMPTS - 1)
                          /\ row.lockLeft \in 0..PIN_LOCKOUT
  /\ \A row \in UnsetRows : ~row.set /\ row.failed = 0 /\ row.lockLeft = 0
  /\ NoPin \in UnsetRows
<1>1. \A row \in SetRows : /\ row.failed \in 0..(PIN_MAX_ATTEMPTS - 1)
                           /\ row.lockLeft \in 0..PIN_LOCKOUT
  BY DEF SetRows
<1>2. \A row \in SetRows : row.set
  BY DEF SetRows
<1>3. \A row \in UnsetRows : ~row.set
  BY DEF UnsetRows
<1>4. \A row \in UnsetRows : row.failed = 0 /\ row.lockLeft = 0
  BY DEF UnsetRows
<1>5. NoPin \in UnsetRows
  BY DEF NoPin, UnsetRows
<1> QED
  BY <1>1, <1>2, <1>3, <1>4, <1>5

\* The two bounds of a row: a clean counter and no lock are allowed.
LEMMA CleanSlate == 0 \in 0..(PIN_MAX_ATTEMPTS - 1) /\ 0 \in 0..PIN_LOCKOUT
OBVIOUS

\* A fresh PIN has a clean slate.
LEMMA FreshRow ==
  ASSUME NEW p \in Pin
  PROVE  PinRow(p, 0, 0) \in SetRows /\ PinRow(p, 0, 0).failed = 0 /\ PinRow(p, 0, 0).lockLeft = 0
BY CleanSlate DEF SetRows, PinRow

\* Writing the counter or the lock of a row leaves the PIN.
LEMMA ClearedRow ==
  ASSUME NEW row \in SetRows, NEW left \in 0..PIN_LOCKOUT
  PROVE  /\ [row EXCEPT !.failed = 0, !.lockLeft = left] \in SetRows
         /\ [row EXCEPT !.failed = 0, !.lockLeft = left].failed = 0
         /\ [row EXCEPT !.failed = 0, !.lockLeft = left].lockLeft = left
BY CleanSlate DEF SetRows

LEMMA CountedRow ==
  ASSUME NEW row \in SetRows, NEW f \in 0..(PIN_MAX_ATTEMPTS - 1)
  PROVE  /\ [row EXCEPT !.failed = f] \in SetRows
         /\ [row EXCEPT !.failed = f].failed = f
         /\ [row EXCEPT !.failed = f].lockLeft = row.lockLeft
BY DEF SetRows

LEMMA TimedRow ==
  ASSUME NEW row \in SetRows, NEW left \in 0..PIN_LOCKOUT
  PROVE  /\ [row EXCEPT !.lockLeft = left] \in SetRows
         /\ [row EXCEPT !.lockLeft = left].failed = row.failed
         /\ [row EXCEPT !.lockLeft = left].lockLeft = left
BY DEF SetRows

\* A request is quiet, verifying or changing an account, and each kind is told
\* from the others by its op.
LEMMA PinRequestKinds == PinRequests = {PinQuiet} \cup Verifying \cup Changing
BY DEF PinRequests, Verifying, Changing

LEMMA PinRequestFacts ==
  ASSUME NEW q \in PinRequests
  PROVE  /\ q.op = "verify" => q \in Verifying /\ q.at \in Guardian \cup {Free}
         /\ q.op \in {"set", "deactivate"} => q \in Changing /\ q.at \in Guardian /\ q.guess \in Pin
<1>1. CASE q = PinQuiet
  BY <1>1 DEF PinQuiet
<1>2. CASE q \in Verifying
  BY <1>2 DEF Verifying
<1>3. CASE q \in Changing
  BY <1>3 DEF Changing
<1> QED
  BY <1>1, <1>2, <1>3, PinRequestKinds

\* pool.ts, attemptPinFor: a miss on an open row counts one, and the last one
\* allowed locks it and clears the counter.
LEMMA MissedRow ==
  ASSUME NEW row \in SetRows, row.lockLeft = 0
  PROVE  /\ AfterMiss(row) \in SetRows
         /\ AfterMiss(row).lockLeft > 0 => row.failed + 1 = PIN_MAX_ATTEMPTS /\ AfterMiss(row).failed = 0
         /\ ~(AfterMiss(row).lockLeft > 0) => AfterMiss(row).failed = row.failed + 1
<1>1. row.failed \in 0..(PIN_MAX_ATTEMPTS - 1)
  BY RowFacts
<1>2. CASE row.failed + 1 >= PIN_MAX_ATTEMPTS
  <2>1. AfterMiss(row) = [row EXCEPT !.failed = 0, !.lockLeft = PIN_LOCKOUT]
    BY <1>2 DEF AfterMiss
  <2>2. PIN_LOCKOUT \in 0..PIN_LOCKOUT /\ PIN_LOCKOUT > 0 /\ row.failed + 1 = PIN_MAX_ATTEMPTS
    BY <1>1, <1>2
  <2>3. /\ AfterMiss(row) \in SetRows /\ AfterMiss(row).failed = 0
        /\ AfterMiss(row).lockLeft = PIN_LOCKOUT
    BY <2>1, <2>2, CleanSlate DEF SetRows
  <2> QED
    BY <2>2, <2>3
<1>3. CASE ~(row.failed + 1 >= PIN_MAX_ATTEMPTS)
  <2>1. AfterMiss(row) = [row EXCEPT !.failed = row.failed + 1]
    BY <1>3 DEF AfterMiss
  <2>2. row.failed + 1 \in 0..(PIN_MAX_ATTEMPTS - 1)
    BY <1>1, <1>3
  <2>3. /\ AfterMiss(row) \in SetRows /\ AfterMiss(row).failed = row.failed + 1
        /\ AfterMiss(row).lockLeft = row.lockLeft
    BY <2>1, <2>2, CountedRow
  <2> QED
    BY <2>3
<1> QED
  BY <1>2, <1>3

\* A counter that is the number of misses never lets more through than allowed.
LEMMA CountedIsBounded == PinTypeOK /\ CounterIsMisses => GuessesBounded
<1> SUFFICES ASSUME PinTypeOK, CounterIsMisses, NEW g \in Guardian
             PROVE  misses[g] <= PIN_MAX_ATTEMPTS
  BY DEF GuessesBounded
<1>1. pinCredential[g].failed <= PIN_MAX_ATTEMPTS
  BY RowKinds, RowFacts DEF PinTypeOK
<1> QED
  BY <1>1 DEF CounterIsMisses

-----------------------------------------------------------------------------
(* The invariant. *)

\* Nobody guesses, nothing is locked and every account is active at first.
LEMMA PinInvInit == PinInit => PinInv
<1> SUFFICES ASSUME PinInit
             PROVE  PinInv
  OBVIOUS
<1>1. PICK chosen \in [Guardian -> Pin] :
        pinCredential = [g \in Guardian |-> PinRow(chosen[g], 0, 0)]
  BY DEF PinInit
<1>2. ASSUME NEW g \in Guardian
      PROVE  pinCredential[g] \in SetRows /\ ~PinLocked(g) /\ pinCredential[g].failed = 0
  <2>1. pinCredential[g] = PinRow(chosen[g], 0, 0) /\ chosen[g] \in Pin
    BY <1>1
  <2> QED
    BY <2>1, FreshRow DEF PinLocked
<1>3. pinCredential \in [Guardian -> PinRows]
  BY <1>1, <1>2, RowKinds
<1>4. PinTypeOK
  BY <1>3 DEF PinInit, PinTypeOK, PinRequests
<1>5. GuessHoldsItsRow /\ ChangeHoldsItsAccount
  BY DEF PinInit, PinQuiet, GuessHoldsItsRow, ChangeHoldsItsAccount
<1>6. CounterIsMisses /\ NoPinAfterDeactivation
  BY <1>2 DEF PinInit, CounterIsMisses, NoPinAfterDeactivation
<1> QED
  BY <1>4, <1>5, <1>6 DEF PinInv

\* A request that begins, or one that waits for its row, changes no PIN.
LEMMA AskKeepsPinInv ==
  ASSUME PinInv, NEW r \in PinRequest, NEW guardians \in SUBSET Guardian, NEW p \in Pin,
         AskPin(r, guardians, p)
  PROVE  PinInv'
<1> DEFINE asked == [op |-> "verify", todo |-> guardians, at |-> Free, matched |-> FALSE, guess |-> p]
<1>1. pinRequest' = [pinRequest EXCEPT ![r] = asked]
  BY DEF AskPin
<1>2. asked \in Verifying
  BY DEF Verifying
<1>3. pinRequest' \in [PinRequest -> PinRequests]
  BY <1>1, <1>2, PinRequestKinds DEF PinInv, PinTypeOK
<1>4. PinTypeOK'
  BY <1>3 DEF PinInv, PinTypeOK, AskPin
<1>5. \A s \in PinRequest : s # r => pinRequest'[s] = pinRequest[s]
  BY <1>1 DEF PinInv, PinTypeOK
<1>6. pinRequest'[r] = asked
  BY <1>1 DEF PinInv, PinTypeOK
<1> HIDE DEF asked
<1>7. asked.op = "verify" /\ asked.at = Free
  BY DEF asked
<1>8. GuessHoldsItsRow'
  BY <1>5, <1>6, <1>7 DEF PinInv, AskPin, GuessHoldsItsRow, PinLocked
<1>9. ChangeHoldsItsAccount'
  BY <1>5, <1>6, <1>7 DEF PinInv, AskPin, ChangeHoldsItsAccount
<1>10. CounterIsMisses' /\ NoPinAfterDeactivation'
  BY DEF PinInv, AskPin, CounterIsMisses, NoPinAfterDeactivation, PinLocked
<1> QED
  BY <1>4, <1>8, <1>9, <1>10 DEF PinInv

\* SELECT ... FOR UPDATE: the row is nobody's, and becomes the request's only when
\* its PIN is set and open.
LEMMA SelectKeepsPinInv ==
  ASSUME PinInv, NEW r \in PinRequest, NEW g \in Guardian, SelectPin(r, g)
  PROVE  PinInv'
<1>1. pinRequest[r] \in Verifying /\ pinRequest[r].op = "verify"
  BY PinRequestFacts DEF PinInv, PinTypeOK, SelectPin
<1>2. \A s \in PinRequest : s # r => pinRequest'[s] = pinRequest[s]
  BY DEF PinInv, PinTypeOK, SelectPin
<1>3. CounterIsMisses' /\ NoPinAfterDeactivation'
  BY DEF PinInv, SelectPin, CounterIsMisses, NoPinAfterDeactivation, PinLocked
<1>4. CASE pinCredential[g].set /\ ~PinLocked(g)
  <2>1. pinRequest' = [pinRequest EXCEPT ![r].at = g] /\ pinLock' = [pinLock EXCEPT ![g] = r]
    BY <1>4 DEF SelectPin
  <2>2. pinRequest'[r] \in Verifying /\ pinRequest'[r].op = "verify" /\ pinRequest'[r].at = g
    BY <1>1, <2>1 DEF PinInv, PinTypeOK, Verifying
  <2>3. PinTypeOK'
    BY <2>1, <2>2, PinRequestKinds DEF PinInv, PinTypeOK, SelectPin
  <2>4. pinCredential[g] \in SetRows
    BY <1>4, RowKinds, RowFacts DEF PinInv, PinTypeOK
  <2>5. GuessHoldsItsRow'
    <3> SUFFICES ASSUME NEW s \in PinRequest, pinRequest'[s].op = "verify", pinRequest'[s].at # Free
                 PROVE  /\ pinLock'[pinRequest'[s].at] = s
                        /\ pinCredential[pinRequest'[s].at] \in SetRows
                        /\ ~PinLocked(pinRequest'[s].at)
      BY DEF GuessHoldsItsRow, PinLocked, SelectPin
    <3>1. CASE s = r
      BY <3>1, <1>4, <2>1, <2>2, <2>4 DEF PinInv, PinTypeOK
    <3>2. CASE s # r
      <4>1. pinRequest'[s] = pinRequest[s] /\ pinLock[pinRequest[s].at] = s
        BY <3>2, <1>2 DEF PinInv, GuessHoldsItsRow
      <4>2. pinLock[g] = Free
        BY DEF SelectPin
      <4>3. pinRequest[s].at # g
        BY <4>1, <4>2
      <4> QED
        BY <4>1, <4>3, <2>1 DEF PinInv, PinTypeOK, GuessHoldsItsRow
    <3> QED
      BY <3>1, <3>2
  <2>6. ChangeHoldsItsAccount'
    BY <1>2, <2>2 DEF PinInv, SelectPin, ChangeHoldsItsAccount
  <2> QED
    BY <1>3, <2>3, <2>5, <2>6 DEF PinInv
<1>5. CASE ~(pinCredential[g].set /\ ~PinLocked(g))
  <2>1. pinRequest' = [pinRequest EXCEPT ![r].todo = @ \ {g}] /\ UNCHANGED pinLock
    BY <1>5 DEF SelectPin
  <2>2. pinRequest'[r] \in Verifying /\ pinRequest'[r].op = "verify" /\ pinRequest'[r].at = Free
    BY <1>1, <2>1 DEF PinInv, PinTypeOK, Verifying, SelectPin
  <2>3. PinTypeOK'
    BY <2>1, <2>2, PinRequestKinds DEF PinInv, PinTypeOK, SelectPin
  <2>4. GuessHoldsItsRow' /\ ChangeHoldsItsAccount'
    BY <1>2, <2>1, <2>2 DEF PinInv, SelectPin, GuessHoldsItsRow, ChangeHoldsItsAccount, PinLocked
  <2> QED
    BY <1>3, <2>3, <2>4 DEF PinInv
<1> QED
  BY <1>4, <1>5

\* The UPDATE after scrypt: it changes the row the request saw, which nobody else
\* touched in between, so no miss is lost and none is counted twice.
LEMMA RecordKeepsPinInv ==
  ASSUME PinInv, NEW r \in PinRequest, RecordAttempt(r)
  PROVE  PinInv'
<1> DEFINE g == pinRequest[r].at
           row == pinCredential[g]
           ok == IsRight(g, pinRequest[r].guess)
           next == IF ok THEN [row EXCEPT !.failed = 0, !.lockLeft = 0] ELSE AfterMiss(row)
<1>1. pinRequest[r] \in Verifying /\ pinRequest[r].op = "verify" /\ g \in Guardian
  BY PinRequestFacts DEF PinInv, PinTypeOK, RecordAttempt
<1>2. pinLock[g] = r /\ row \in SetRows /\ row.lockLeft = 0
  BY <1>1, RowFacts DEF PinInv, GuessHoldsItsRow, RecordAttempt, PinLocked
<1>3. /\ pinCredential' = [pinCredential EXCEPT ![g] = next]
      /\ misses' = [misses EXCEPT ![g] = IF ok THEN 0 ELSE @ + 1]
      /\ pinLock' = [pinLock EXCEPT ![g] = Free]
      /\ pinRequest' = [pinRequest EXCEPT ![r].at = Free, ![r].todo = @ \ {g}, ![r].matched = @ \/ ok]
      /\ UNCHANGED <<active, userLock>>
  BY DEF RecordAttempt
<1>4. next \in SetRows /\ next.set
  BY <1>2, MissedRow, ClearedRow, CleanSlate, RowFacts
<1>5. \A s \in PinRequest : s # r => pinRequest'[s] = pinRequest[s]
  BY <1>3 DEF PinInv, PinTypeOK
<1>6. pinRequest'[r] \in Verifying /\ pinRequest'[r].op = "verify" /\ pinRequest'[r].at = Free
  <2>1. pinRequest'[r] = [pinRequest[r] EXCEPT !.at = Free, !.todo = @ \ {g},
                                               !.matched = @ \/ ok]
    BY <1>3 DEF PinInv, PinTypeOK
  <2>2. (pinRequest[r].matched \/ ok) \in BOOLEAN
    OBVIOUS
  <2> HIDE DEF ok, g
  <2> QED
    BY <1>1, <2>1, <2>2 DEF Verifying
<1>7. \A h \in Guardian : h # g => pinCredential'[h] = pinCredential[h] /\ misses'[h] = misses[h]
                                   /\ pinLock'[h] = pinLock[h]
  BY <1>3 DEF PinInv, PinTypeOK
<1>8. pinCredential'[g] = next /\ misses'[g] = IF ok THEN 0 ELSE misses[g] + 1
  BY <1>1, <1>3 DEF PinInv, PinTypeOK
<1>9. PinTypeOK'
  <2>1. pinCredential' \in [Guardian -> PinRows]
    BY <1>3, <1>4, RowKinds DEF PinInv, PinTypeOK
  <2>2. pinRequest' \in [PinRequest -> PinRequests]
    BY <1>3, <1>5, <1>6, PinRequestKinds DEF PinInv, PinTypeOK
  <2>3. misses' \in [Guardian -> Nat]
    <3>1. (IF ok THEN 0 ELSE misses[g] + 1) \in Nat
      BY <1>1 DEF PinInv, PinTypeOK
    <3> HIDE DEF ok, g
    <3> QED
      BY <1>3, <3>1 DEF PinInv, PinTypeOK
  <2> QED
    BY <1>3, <2>1, <2>2, <2>3 DEF PinInv, PinTypeOK
<1>10. GuessHoldsItsRow'
  <2> SUFFICES ASSUME NEW s \in PinRequest, pinRequest'[s].op = "verify", pinRequest'[s].at # Free
               PROVE  /\ pinLock'[pinRequest'[s].at] = s
                      /\ pinCredential'[pinRequest'[s].at] \in SetRows
                      /\ ~(pinCredential'[pinRequest'[s].at].lockLeft > 0)
    BY DEF GuessHoldsItsRow, PinLocked
  <2>1. s # r
    BY <1>6
  <2>2. pinRequest'[s] = pinRequest[s] /\ pinLock[pinRequest[s].at] = s
    BY <1>5, <2>1 DEF PinInv, GuessHoldsItsRow
  <2>3. pinRequest[s].at \in Guardian /\ pinRequest[s].at # g
    BY <1>2, <2>1, <2>2, PinRequestFacts DEF PinInv, PinTypeOK
  <2> HIDE DEF g
  <2> QED
    BY <1>7, <2>2, <2>3 DEF PinInv, GuessHoldsItsRow, PinLocked
<1>11. ChangeHoldsItsAccount'
  BY <1>3, <1>5, <1>6 DEF PinInv, ChangeHoldsItsAccount
<1>12. CounterIsMisses'
  <2>1. \A h \in Guardian : h # g =>
          IF PinLocked(h)' THEN misses'[h] = PIN_MAX_ATTEMPTS /\ pinCredential'[h].failed = 0
          ELSE misses'[h] = pinCredential'[h].failed
    BY <1>7 DEF PinInv, CounterIsMisses, PinLocked
  <2>2. misses[g] = row.failed
    BY <1>1, <1>2 DEF PinInv, CounterIsMisses, PinLocked
  <2>3. CASE ok
    <3>1. next = [row EXCEPT !.failed = 0, !.lockLeft = 0]
      BY <2>3
    <3> HIDE DEF ok, next, g
    <3>2. next.failed = 0 /\ next.lockLeft = 0
      BY <3>1, <1>2, CleanSlate, ClearedRow, ZenonT(40)
    <3> QED
      BY <2>3, <3>2, <1>8, <2>1 DEF CounterIsMisses, PinLocked
  <2>4. CASE ~ok
    <3>1. next = AfterMiss(row)
      BY <2>4
    <3> HIDE DEF ok, next, g
    <3> QED
      BY <2>4, <3>1, <1>2, <1>8, <2>1, <2>2, MissedRow DEF CounterIsMisses, PinLocked
  <2> QED
    BY <2>3, <2>4
<1>13. NoPinAfterDeactivation'
  BY <1>2, <1>3, <1>7, RowFacts DEF PinInv, NoPinAfterDeactivation
<1> QED
  BY <1>9, <1>10, <1>11, <1>12, <1>13 DEF PinInv

\* A request that has tried every guardian ends.
LEMMA ReplyKeepsPinInv ==
  ASSUME PinInv, NEW r \in PinRequest, PinReply(r)
  PROVE  PinInv'
<1>1. /\ \A s \in PinRequest : s # r => pinRequest'[s] = pinRequest[s]
      /\ pinRequest'[r] = PinQuiet
  BY DEF PinInv, PinTypeOK, PinReply
<1>2. PinTypeOK'
  BY PinRequestKinds DEF PinInv, PinTypeOK, PinReply
<1>3. GuessHoldsItsRow' /\ ChangeHoldsItsAccount'
  BY <1>1 DEF PinInv, PinReply, PinQuiet, GuessHoldsItsRow, ChangeHoldsItsAccount, PinLocked
<1>4. CounterIsMisses' /\ NoPinAfterDeactivation'
  BY DEF PinInv, PinReply, CounterIsMisses, NoPinAfterDeactivation, PinLocked
<1> QED
  BY <1>2, <1>3, <1>4 DEF PinInv

\* SELECT deactivated_at ... FOR UPDATE: the account is nobody's, and active.
LEMMA LockUserKeepsPinInv ==
  ASSUME PinInv, NEW r \in PinRequest, NEW g \in Guardian, NEW op \in {"set", "deactivate"},
         NEW p \in Pin, LockUser(r, g, op, p)
  PROVE  PinInv'
<1> DEFINE change == [op |-> op, todo |-> {}, at |-> g, matched |-> FALSE, guess |-> p]
<1>1. /\ pinRequest' = [pinRequest EXCEPT ![r] = change]
      /\ userLock[g] = Free /\ active[g] /\ userLock' = [userLock EXCEPT ![g] = r]
      /\ UNCHANGED <<pinCredential, pinLock, active, misses>>
  BY DEF LockUser
<1>2. change \in Changing /\ change.op \in {"set", "deactivate"} /\ change.at = g
  BY DEF Changing
<1> HIDE DEF change
<1>3. /\ \A s \in PinRequest : s # r => pinRequest'[s] = pinRequest[s]
      /\ pinRequest'[r] = change
  BY <1>1 DEF PinInv, PinTypeOK
<1>4. PinTypeOK'
  BY <1>1, <1>2, PinRequestKinds DEF PinInv, PinTypeOK
<1>5. GuessHoldsItsRow'
  BY <1>1, <1>2, <1>3 DEF PinInv, GuessHoldsItsRow, PinLocked
<1>6. ChangeHoldsItsAccount'
  <2> SUFFICES ASSUME NEW s \in PinRequest, pinRequest'[s].op \in {"set", "deactivate"}
               PROVE  userLock'[pinRequest'[s].at] = s /\ active[pinRequest'[s].at]
    BY <1>1 DEF ChangeHoldsItsAccount
  <2>1. CASE s = r
    BY <2>1, <1>1, <1>2, <1>3 DEF PinInv, PinTypeOK
  <2>2. CASE s # r
    <3>1. pinRequest'[s] = pinRequest[s] /\ userLock[pinRequest[s].at] = s
      BY <2>2, <1>3 DEF PinInv, ChangeHoldsItsAccount
    <3>2. pinRequest[s].at # g
      BY <3>1, <1>1
    <3> QED
      BY <3>1, <3>2, <1>1 DEF PinInv, PinTypeOK, ChangeHoldsItsAccount
  <2> QED
    BY <2>1, <2>2
<1>7. CounterIsMisses' /\ NoPinAfterDeactivation'
  BY <1>1 DEF PinInv, CounterIsMisses, NoPinAfterDeactivation, PinLocked
<1> QED
  BY <1>4, <1>5, <1>6, <1>7 DEF PinInv

\* A new PIN, or none: the row is written behind the account's lock, while no
\* guess at it is under way, and starts with no misses.
LEMMA ChangeKeepsPinInv ==
  ASSUME PinInv, NEW r \in PinRequest, setPinCredential(r) \/ deactivatePin(r)
  PROVE  PinInv'
<1> DEFINE g == pinRequest[r].at
           row == IF pinRequest[r].op = "set" THEN PinRow(pinRequest[r].guess, 0, 0) ELSE NoPin
           on == pinRequest[r].op = "set"
<1>1. pinRequest[r] \in Changing /\ g \in Guardian /\ pinRequest[r].op \in {"set", "deactivate"}
  BY PinRequestFacts DEF PinInv, PinTypeOK, setPinCredential, deactivatePin
<1>2. /\ pinLock[g] = Free
      /\ pinCredential' = [pinCredential EXCEPT ![g] = row]
      /\ misses' = [misses EXCEPT ![g] = 0]
      /\ userLock' = [userLock EXCEPT ![g] = Free]
      /\ pinRequest' = [pinRequest EXCEPT ![r] = PinQuiet]
      /\ UNCHANGED pinLock
  BY DEF setPinCredential, deactivatePin
<1>3. row \in PinRows /\ row.failed = 0 /\ row.lockLeft = 0
  <2>1. CASE on
    BY <1>1, <2>1, FreshRow, RowKinds, PinRequestFacts DEF PinInv, PinTypeOK
  <2>2. CASE ~on
    BY <2>2, RowKinds, RowFacts
  <2> QED
    BY <2>1, <2>2
<1>4. active[g] /\ userLock[g] = r
  BY <1>1 DEF PinInv, ChangeHoldsItsAccount
<1>5. active' \in [Guardian -> BOOLEAN] /\ (\A h \in Guardian : h # g => active'[h] = active[h])
  BY DEF PinInv, PinTypeOK, setPinCredential, deactivatePin
<1>6. ~active'[g] => ~row.set
  BY <1>1, <1>4 DEF setPinCredential, deactivatePin, NoPin
<1> HIDE DEF row
<1>7. /\ \A s \in PinRequest : s # r => pinRequest'[s] = pinRequest[s]
      /\ pinRequest'[r] = PinQuiet
      /\ pinCredential'[g] = row /\ misses'[g] = 0
      /\ \A h \in Guardian : h # g => /\ pinCredential'[h] = pinCredential[h]
                                      /\ misses'[h] = misses[h] /\ userLock'[h] = userLock[h]
  BY <1>1, <1>2 DEF PinInv, PinTypeOK
<1>8. PinTypeOK'
  BY <1>2, <1>3, <1>5, RowKinds, PinRequestKinds DEF PinInv, PinTypeOK
<1>9. GuessHoldsItsRow'
  <2> SUFFICES ASSUME NEW s \in PinRequest, pinRequest'[s].op = "verify", pinRequest'[s].at # Free
               PROVE  /\ pinLock'[pinRequest'[s].at] = s
                      /\ pinCredential'[pinRequest'[s].at] \in SetRows
                      /\ ~(pinCredential'[pinRequest'[s].at].lockLeft > 0)
    BY DEF GuessHoldsItsRow, PinLocked
  <2>1. s # r
    BY <1>7 DEF PinQuiet
  <2>2. pinRequest'[s] = pinRequest[s] /\ pinLock[pinRequest[s].at] = s
    BY <1>7, <2>1 DEF PinInv, GuessHoldsItsRow
  <2>3. pinRequest[s].at \in Guardian /\ pinRequest[s].at # g
    BY <1>2, <2>2, PinRequestFacts DEF PinInv, PinTypeOK
  <2> HIDE DEF g
  <2> QED
    BY <1>2, <1>7, <2>2, <2>3 DEF PinInv, GuessHoldsItsRow, PinLocked
<1>10. ChangeHoldsItsAccount'
  <2> SUFFICES ASSUME NEW s \in PinRequest, pinRequest'[s].op \in {"set", "deactivate"}
               PROVE  userLock'[pinRequest'[s].at] = s /\ active'[pinRequest'[s].at]
    BY DEF ChangeHoldsItsAccount
  <2>1. s # r
    BY <1>7 DEF PinQuiet
  <2>2. /\ pinRequest'[s] = pinRequest[s]
        /\ userLock[pinRequest[s].at] = s /\ active[pinRequest[s].at]
    BY <1>7, <2>1 DEF PinInv, ChangeHoldsItsAccount
  <2>3. pinRequest[s].at \in Guardian /\ pinRequest[s].at # g
    BY <1>4, <2>1, <2>2, PinRequestFacts DEF PinInv, PinTypeOK
  <2> HIDE DEF g
  <2> QED
    BY <1>5, <1>7, <2>2, <2>3
<1>11. CounterIsMisses'
  BY <1>3, <1>7 DEF PinInv, CounterIsMisses, PinLocked
<1>12. NoPinAfterDeactivation'
  BY <1>5, <1>6, <1>7 DEF PinInv, NoPinAfterDeactivation
<1> QED
  BY <1>8, <1>9, <1>10, <1>11, <1>12 DEF PinInv

\* Time only shortens locks, and the slate is clean when one ends.
LEMMA TickKeepsPinInv ==
  ASSUME PinInv, PinTick
  PROVE  PinInv'
<1>1. /\ pinCredential' = [h \in Guardian |->
             IF PinLocked(h) THEN [pinCredential[h] EXCEPT !.lockLeft = @ - 1] ELSE pinCredential[h]]
      /\ misses' = [h \in Guardian |-> IF pinCredential[h].lockLeft = 1 THEN 0 ELSE misses[h]]
      /\ UNCHANGED <<pinLock, active, userLock, pinRequest>>
  BY DEF PinTick
<1>2. ASSUME NEW h \in Guardian, PinLocked(h)
      PROVE  /\ pinCredential[h] \in SetRows /\ pinCredential'[h] \in SetRows
             /\ pinCredential'[h].lockLeft = pinCredential[h].lockLeft - 1
             /\ pinCredential'[h].failed = pinCredential[h].failed
             /\ pinCredential'[h].set = pinCredential[h].set
  <2>1. pinCredential[h] \in SetRows
    BY <1>2, RowKinds, RowFacts DEF PinInv, PinTypeOK, PinLocked
  <2>2. pinCredential'[h] = [pinCredential[h] EXCEPT !.lockLeft = pinCredential[h].lockLeft - 1]
    BY <1>1, <1>2
  <2>3. pinCredential[h].lockLeft - 1 \in 0..PIN_LOCKOUT
    BY <1>2, <2>1, RowFacts DEF PinLocked
  <2> QED
    BY <2>1, <2>2, <2>3, TimedRow, RowFacts
<1>3. ASSUME NEW h \in Guardian, ~PinLocked(h)
      PROVE  pinCredential'[h] = pinCredential[h]
  BY <1>1, <1>3
<1>4. PinTypeOK'
  <2>1. \A h \in Guardian : pinCredential'[h] \in PinRows
    BY <1>2, <1>3, RowKinds DEF PinInv, PinTypeOK
  <2>2. pinCredential' \in [Guardian -> PinRows]
    BY <1>1, <2>1
  <2>3. misses' \in [Guardian -> Nat]
    BY <1>1 DEF PinInv, PinTypeOK
  <2> QED
    BY <1>1, <2>2, <2>3 DEF PinInv, PinTypeOK
<1>5. GuessHoldsItsRow'
  <2> SUFFICES ASSUME NEW s \in PinRequest, pinRequest[s].op = "verify", pinRequest[s].at # Free
               PROVE  /\ pinLock[pinRequest[s].at] = s
                      /\ pinCredential'[pinRequest[s].at] \in SetRows
                      /\ ~(pinCredential'[pinRequest[s].at].lockLeft > 0)
    BY <1>1 DEF GuessHoldsItsRow, PinLocked
  <2>1. pinRequest[s].at \in Guardian
    BY PinRequestFacts DEF PinInv, PinTypeOK
  <2> QED
    BY <1>3, <2>1 DEF PinInv, GuessHoldsItsRow, PinLocked
<1>6. ChangeHoldsItsAccount'
  BY <1>1 DEF PinInv, ChangeHoldsItsAccount
<1>7. CounterIsMisses'
  <2> SUFFICES ASSUME NEW h \in Guardian
               PROVE  IF PinLocked(h)' THEN misses'[h] = PIN_MAX_ATTEMPTS /\ pinCredential'[h].failed = 0
                      ELSE misses'[h] = pinCredential'[h].failed
    BY DEF CounterIsMisses
  <2>1. misses'[h] = IF pinCredential[h].lockLeft = 1 THEN 0 ELSE misses[h]
    BY <1>1
  <2>2. CASE PinLocked(h)
    BY <2>1, <2>2, <1>2, RowFacts DEF PinInv, CounterIsMisses, PinLocked
  <2>3. CASE ~PinLocked(h)
    BY <2>1, <2>3, <1>3 DEF PinInv, CounterIsMisses, PinLocked
  <2> QED
    BY <2>2, <2>3
<1>8. NoPinAfterDeactivation'
  <2>1. \A h \in Guardian : pinCredential'[h].set = pinCredential[h].set
    BY <1>2, <1>3
  <2> QED
    BY <1>1, <2>1 DEF PinInv, NoPinAfterDeactivation
<1> QED
  BY <1>4, <1>5, <1>6, <1>7, <1>8 DEF PinInv

\* Every step of every request, and time, keep the invariant.
LEMMA PinInvStep == PinInv /\ [PinNext]_pinVars => PinInv'
<1> SUFFICES ASSUME PinInv, [PinNext]_pinVars
             PROVE  PinInv'
  OBVIOUS
<1>1. ASSUME NEW r \in PinRequest, PinServe(r)
      PROVE  PinInv'
  BY <1>1, SelectKeepsPinInv, RecordKeepsPinInv, ReplyKeepsPinInv, ChangeKeepsPinInv DEF PinServe
<1>2. ASSUME NEW r \in PinRequest, NEW p \in Pin, KioskPinVerify(r, p)
      PROVE  PinInv'
  BY <1>2, AskKeepsPinInv DEF KioskPinVerify
<1>3. ASSUME NEW r \in PinRequest, NEW p \in Pin, NEW g \in Guardian, VerifyControlsPin(r, g, p)
      PROVE  PinInv'
  <2>1. {g} \in SUBSET Guardian
    OBVIOUS
  <2> QED
    BY <1>3, <2>1, AskKeepsPinInv DEF VerifyControlsPin, requireOwnPin
<1>4. ASSUME NEW r \in PinRequest, NEW p \in Pin, NEW g \in Guardian, MePin(r, g, p) \/ MeDelete(r, g, p)
      PROVE  PinInv'
  BY <1>4, LockUserKeepsPinInv DEF MePin, MeDelete
<1>5. ASSUME UNCHANGED pinVars
      PROVE  PinInv'
  BY <1>5 DEF pinVars, PinInv, PinTypeOK, GuessHoldsItsRow, ChangeHoldsItsAccount, CounterIsMisses,
              NoPinAfterDeactivation, PinLocked
<1> QED
  BY <1>1, <1>2, <1>3, <1>4, <1>5, TickKeepsPinInv DEF PinNext

-----------------------------------------------------------------------------
(* Theorems. *)

\* The inductive invariant holds in every behaviour.
THEOREM PinInvariant == PinSpec => []PinInv
BY PinInvInit, PinInvStep, PTL DEF PinSpec

LEMMA PinHeld == PinInv => PinHolds
BY CountedIsBounded DEF PinInv, PinHolds

\* pool.ts: whatever is guessed, however many guesses arrive at once, at most
\* PIN_MAX_ATTEMPTS are verified before a lock; a PIN goes with its account.
THEOREM PinAlwaysHolds == PinSpec => []PinHolds
BY PinHeld, PinInvariant, PTL

\* Types of the PIN gate, locks and requests in flight included.
THEOREM PinTypesHold == PinSpec => []PinTypeOK
<1>1. PinInv => PinTypeOK
  BY DEF PinInv
<1> QED
  BY PinInvariant, <1>1, PTL

-----------------------------------------------------------------------------
(* Passkeys. *)

Unissued == [state : {"unissued"}]
IssuedRows == [state : {"live", "consumed", "deleted"}, user : User,
               purpose : {"register", "login"}, age : Nat]
Quiet == [pc : {"idle"}]
Busy == [pc : KeyPcs \ {"idle"}, user : User, ch : Challenge, key : Key, count : 0..MaxCount]
Tokens == [user : User, by : LoginRequest, ch : Challenge, key : Key, count : 0..MaxCount, left : Nat]
KeyRows == [owner : User \cup {Nobody}, count : 0..MaxCount]

PasskeyTypes ==
  /\ accountActive \in [User -> BOOLEAN]
  /\ accountLock \in [User -> KeyRequest \cup {Nobody}]
  /\ challenge \in [Challenge -> Unissued \cup IssuedRows]
  /\ passkey \in [Key -> KeyRows]
  /\ login \in [KeyRequest -> Quiet \cup Busy]
  /\ sessions \subseteq Tokens

Spent == {"consumed", "verified", "advanced", "attested", "storing", "done"}
Counted == {"advanced", "done"}

\* auth.ts and pool.ts, consumeChallenge: a request past the challenge spent one of its
\* own account's, made for what it does, that no other request spent.
SpentAlone ==
  \A r \in KeyRequest : login[r].pc \in Spent =>
    /\ challenge[login[r].ch].state \in {"consumed", "deleted"}
    /\ challenge[login[r].ch].user = login[r].user
    /\ r \in LoginRequest => challenge[login[r].ch].purpose = "login"
    /\ \A p \in KeyRequest :
         login[p].pc \in Spent /\ login[p].ch = login[r].ch => p = r

\* auth.ts: a session is what one login earned, and a login earns one.
OneSessionPerLogin ==
  /\ \A s \in sessions :
       LET q == login[s.by] IN
       q.pc = "done" /\ q.user = s.user /\ q.ch = s.ch /\ q.key = s.key /\ q.count = s.count
  /\ \A s, t \in sessions : s.by = t.by => s = t

\* pool.ts: a key that was verified is still its account's, or the account is gone;
\* it does not come back.
VerifiedKeyIsOwn ==
  \A r \in LoginRequest :
    login[r].pc \in {"verified", "advanced", "done"} =>
      \/ passkey[login[r].key].owner = login[r].user
      \/ ~accountActive[login[r].user]

UncountedLogin == \E z \in LoginRequest : login[z].pc \in Counted /\ login[z].count = 0

\* pool.ts, updateWebauthnSignCount: unless some login reported no counter, the
\* counter of a key is no less than any login advanced it to, and no two logins
\* advanced it to the same.
CountersGrow ==
  \A r \in LoginRequest :
    LET q == login[r] IN
    q.pc \in Counted /\ q.count > 0 /\ passkey[q.key].owner = q.user =>
      \/ UncountedLogin
      \/ /\ q.count <= passkey[q.key].count
         /\ \A p \in LoginRequest :
              /\ login[p].pc \in Counted /\ login[p].key = q.key
              /\ login[p].user = q.user /\ login[p].count = q.count
              => p = r

\* pool.ts, storeWebauthnCredential: between SELECT ... FOR UPDATE and the INSERT the
\* account's row is held and the account active.
StoringHoldsAccount ==
  \A r \in RegisterRequest : login[r].pc = "storing" =>
    accountLock[login[r].user] = r /\ accountActive[login[r].user]

\* pool.ts: whoever holds an account's row is storing a passkey for it.
HolderIsStoring ==
  \A u \in User : accountLock[u] # Nobody =>
    LET r == accountLock[u] IN
    r \in RegisterRequest /\ login[r].pc = "storing" /\ login[r].user = u /\ accountActive[u]

PasskeyInv ==
  /\ PasskeyTypes /\ SpentAlone /\ OneSessionPerLogin /\ VerifiedKeyIsOwn /\ CountersGrow
  /\ StoringHoldsAccount /\ HolderIsStoring /\ NoKeyAfterDeactivation

HIDE PinAssumption
USE PasskeyAssumption

-----------------------------------------------------------------------------
(* Requests and rows. *)

\* A request is idle or knows whom, with what and by which key.
LEMMA BusyFacts ==
  ASSUME NEW q \in Quiet \cup Busy, q.pc # "idle"
  PROVE  /\ q \in Busy /\ q.pc \in KeyPcs /\ q.user \in User /\ q.ch \in Challenge
         /\ q.key \in Key /\ q.count \in 0..MaxCount
BY DEF Quiet, Busy

\* Moving on leaves what a request knows.
LEMMA MovedRequest ==
  ASSUME NEW q \in Busy, NEW pc \in KeyPcs \ {"idle"}
  PROVE  LET p == [q EXCEPT !.pc = pc] IN
         /\ p \in Busy /\ p.pc = pc /\ p.user = q.user /\ p.ch = q.ch
         /\ p.key = q.key /\ p.count = q.count
BY DEF Busy

\* One step of a request: it moves to pc and the others stay.
LEMMA GotoFacts ==
  ASSUME PasskeyTypes, NEW r \in KeyRequest, NEW pc \in KeyPcs \ {"idle"},
         login[r].pc # "idle", KeyGoto(r, pc)
  PROVE  /\ login' \in [KeyRequest -> Quiet \cup Busy]
         /\ login'[r].pc = pc /\ login'[r].user = login[r].user /\ login'[r].ch = login[r].ch
         /\ login'[r].key = login[r].key /\ login'[r].count = login[r].count
         /\ \A p \in KeyRequest : p # r => login'[p] = login[p]
<1> DEFINE T == Quiet \cup Busy
           q == [login[r] EXCEPT !.pc = pc]
<1>1. login \in [KeyRequest -> T]
  BY DEF PasskeyTypes
<1>2. login[r] \in Busy
  BY <1>1, BusyFacts
<1>3. /\ q \in Busy /\ q.pc = pc /\ q.user = login[r].user /\ q.ch = login[r].ch
      /\ q.key = login[r].key /\ q.count = login[r].count
  BY <1>2, MovedRequest
<1>4. q \in T /\ login' = [login EXCEPT ![r] = q]
  BY <1>3 DEF KeyGoto
<1> HIDE DEF T, q
<1>5. /\ login' \in [KeyRequest -> T] /\ login'[r] = q
      /\ \A p \in KeyRequest : p # r => login'[p] = login[p]
  BY <1>1, <1>4
<1> QED
  BY <1>3, <1>5 DEF T

LEMMA RequestSets ==
  /\ \A r \in LoginRequest : r \in KeyRequest /\ r \notin RegisterRequest /\ r # Nobody
  /\ \A r \in RegisterRequest : r \in KeyRequest /\ r \notin LoginRequest /\ r # Nobody
BY DEF KeyRequest

-----------------------------------------------------------------------------
(* What a step must leave alone to keep each part. *)

LEMMA KeepSpent ==
  ASSUME PasskeyInv,
         \A p \in KeyRequest : login'[p].pc \in Spent =>
           login[p].pc \in Spent /\ login'[p].ch = login[p].ch /\ login'[p].user = login[p].user,
         \A p \in KeyRequest : login[p].pc \in Spent /\ challenge[login[p].ch].state \in {"consumed", "deleted"} =>
           /\ challenge'[login[p].ch].state \in {"consumed", "deleted"}
           /\ challenge'[login[p].ch].user = challenge[login[p].ch].user
           /\ challenge'[login[p].ch].purpose = challenge[login[p].ch].purpose
  PROVE  SpentAlone'
BY DEF PasskeyInv, SpentAlone

LEMMA KeepSessions ==
  ASSUME PasskeyInv, UNCHANGED sessions,
         \A p \in LoginRequest : login[p].pc = "done" => login'[p] = login[p]
  PROVE  OneSessionPerLogin'
<1>1. \A s \in sessions : s.by \in LoginRequest
  BY DEF PasskeyInv, PasskeyTypes, Tokens
<1> QED
  BY <1>1 DEF PasskeyInv, OneSessionPerLogin

LEMMA KeepVerified ==
  ASSUME PasskeyInv, UNCHANGED <<passkey, accountActive>>,
         \A p \in LoginRequest : login'[p].pc \in {"verified", "advanced", "done"} =>
           /\ login'[p].key = login[p].key /\ login'[p].user = login[p].user
           /\ \/ login[p].pc \in {"verified", "advanced", "done"}
              \/ passkey[login[p].key].owner = login[p].user
  PROVE  VerifiedKeyIsOwn'
BY DEF PasskeyInv, VerifiedKeyIsOwn

LEMMA KeepCounters ==
  ASSUME PasskeyInv, UNCHANGED passkey,
         \A p \in LoginRequest :
           /\ login'[p].pc \in Counted <=> login[p].pc \in Counted
           /\ login[p].pc \in Counted =>
                /\ login'[p].user = login[p].user /\ login'[p].key = login[p].key
                /\ login'[p].count = login[p].count
  PROVE  CountersGrow'
<1>1. UncountedLogin' <=> UncountedLogin
  BY DEF UncountedLogin
<1> QED
  BY <1>1 DEF PasskeyInv, CountersGrow

LEMMA KeepStoring ==
  ASSUME PasskeyInv, UNCHANGED <<accountLock, accountActive>>,
         \A p \in RegisterRequest :
           /\ login'[p].pc = "storing" <=> login[p].pc = "storing"
           /\ login[p].pc = "storing" => login'[p].user = login[p].user
  PROVE  StoringHoldsAccount' /\ HolderIsStoring'
<1>1. StoringHoldsAccount'
  BY DEF PasskeyInv, StoringHoldsAccount
<1>2. HolderIsStoring'
  BY DEF PasskeyInv, HolderIsStoring
<1> QED
  BY <1>1, <1>2

LEMMA KeepKeys ==
  ASSUME PasskeyInv, UNCHANGED <<passkey, accountActive>>
  PROVE  NoKeyAfterDeactivation'
BY DEF PasskeyInv, NoKeyAfterDeactivation

-----------------------------------------------------------------------------
(* Initial states. *)

LEMMA InitPasskeys == PasskeyInit => PasskeyInv
<1> SUFFICES ASSUME PasskeyInit PROVE PasskeyInv
  OBVIOUS
<1>1. \A r \in KeyRequest : login[r].pc = "idle"
  BY DEF PasskeyInit
<1>2. PasskeyTypes
  <2>1. [state |-> "unissued"] \in Unissued /\ [pc |-> "idle"] \in Quiet
    BY DEF Unissued, Quiet
  <2>2. challenge \in [Challenge -> Unissued \cup IssuedRows] /\ login \in [KeyRequest -> Quiet \cup Busy]
    BY <2>1 DEF PasskeyInit
  <2>3. accountActive \in [User -> BOOLEAN]
    BY DEF PasskeyInit
  <2>4. accountLock \in [User -> KeyRequest \cup {Nobody}] /\ sessions \subseteq Tokens
    BY DEF PasskeyInit
  <2>5. passkey \in [Key -> KeyRows]
    <3>1. {NoKey} \cup {[owner |-> u, count |-> 0] : u \in User} \subseteq KeyRows
      BY DEF NoKey, KeyRows
    <3> QED
      BY <3>1 DEF PasskeyInit
  <2> QED
    BY <2>2, <2>3, <2>4, <2>5 DEF PasskeyTypes
<1>3. SpentAlone
  BY <1>1 DEF SpentAlone, Spent
<1>4. OneSessionPerLogin
  BY DEF PasskeyInit, OneSessionPerLogin
<1>5. VerifiedKeyIsOwn /\ CountersGrow
  BY <1>1, RequestSets DEF VerifiedKeyIsOwn, CountersGrow, Counted
<1>6. StoringHoldsAccount /\ HolderIsStoring
  BY <1>1, RequestSets DEF PasskeyInit, StoringHoldsAccount, HolderIsStoring
<1>7. NoKeyAfterDeactivation
  <2> SUFFICES ASSUME NEW k \in Key, passkey[k].owner # Nobody
               PROVE  accountActive[passkey[k].owner]
    BY DEF NoKeyAfterDeactivation
  <2>1. passkey[k] = NoKey \/ \E u \in User : passkey[k] = [owner |-> u, count |-> 0]
    BY DEF PasskeyInit
  <2>2. passkey[k].owner \in User
    <3>1. CASE passkey[k] = NoKey
      BY <3>1 DEF NoKey
    <3>2. CASE \E u \in User : passkey[k] = [owner |-> u, count |-> 0]
      BY <3>2
    <3> QED
      BY <2>1, <3>1, <3>2
  <2>3. \A u \in User : accountActive[u]
    BY Zenon DEF PasskeyInit
  <2> QED
    BY <2>2, <2>3, Zenon
<1> QED
  BY <1>2, <1>3, <1>4, <1>5, <1>6, <1>7 DEF PasskeyInv

-----------------------------------------------------------------------------
(* Steps that take nothing: the start of a request, a refusal, a reading. *)

\* A step of r alone, that neither advances a counter nor stores, before or after.
LEMMA PasskeyQuietStep ==
  ASSUME PasskeyInv, NEW r \in KeyRequest, login' \in [KeyRequest -> Quiet \cup Busy],
         \A p \in KeyRequest : p # r => login'[p] = login[p],
         login[r].pc \notin {"advanced", "done", "storing"},
         login'[r].pc \notin {"advanced", "done", "storing"},
         login'[r].pc \in Spent =>
           login[r].pc \in Spent /\ login'[r].ch = login[r].ch /\ login'[r].user = login[r].user,
         login'[r].pc = "verified" =>
           /\ login'[r].key = login[r].key /\ login'[r].user = login[r].user
           /\ passkey[login[r].key].owner = login[r].user,
         UNCHANGED <<accountActive, accountLock, challenge, passkey, sessions>>
  PROVE  PasskeyInv'
<1>1. PasskeyTypes'
  BY DEF PasskeyInv, PasskeyTypes
<1>2. SpentAlone'
  BY KeepSpent
<1>3. OneSessionPerLogin'
  <2>1. \A p \in LoginRequest : login[p].pc = "done" => login'[p] = login[p]
    BY RequestSets
  <2> QED
    BY <2>1, KeepSessions
<1>4. VerifiedKeyIsOwn'
  <2>1. \A p \in LoginRequest : login'[p].pc \in {"verified", "advanced", "done"} =>
          /\ login'[p].key = login[p].key /\ login'[p].user = login[p].user
          /\ \/ login[p].pc \in {"verified", "advanced", "done"}
             \/ passkey[login[p].key].owner = login[p].user
    BY RequestSets
  <2> QED
    BY <2>1, KeepVerified
<1>5. CountersGrow'
  <2>1. \A p \in LoginRequest :
          /\ login'[p].pc \in Counted <=> login[p].pc \in Counted
          /\ login[p].pc \in Counted => login'[p] = login[p]
    BY RequestSets DEF Counted
  <2> QED
    BY <2>1, KeepCounters
<1>6. StoringHoldsAccount' /\ HolderIsStoring'
  <2>1. \A p \in RegisterRequest :
          /\ login'[p].pc = "storing" <=> login[p].pc = "storing"
          /\ login[p].pc = "storing" => login'[p] = login[p]
    BY RequestSets
  <2> QED
    BY <2>1, KeepStoring
<1>7. NoKeyAfterDeactivation'
  BY KeepKeys
<1> QED
  BY <1>1, <1>2, <1>3, <1>4, <1>5, <1>6, <1>7 DEF PasskeyInv

\* A refusal.
LEMMA RefusedStep ==
  ASSUME PasskeyInv, NEW r \in KeyRequest, login[r].pc \notin {"idle", "advanced", "done", "storing"},
         KeyGoto(r, "refused"),
         UNCHANGED <<accountActive, accountLock, challenge, passkey, sessions>>
  PROVE  PasskeyInv'
<1>1. /\ login' \in [KeyRequest -> Quiet \cup Busy] /\ login'[r].pc = "refused"
      /\ \A p \in KeyRequest : p # r => login'[p] = login[p]
  <2>1. "refused" \in KeyPcs \ {"idle"}
    BY DEF KeyPcs
  <2> QED
    BY <2>1, GotoFacts DEF PasskeyInv
<1>2. login'[r].pc \notin Spent
  BY <1>1 DEF Spent
<1> QED
  BY <1>1, <1>2, PasskeyQuietStep

LEMMA VerifyStep ==
  ASSUME PasskeyInv, NEW r \in KeyRequest, NEW u \in User, NEW c \in Challenge, NEW k \in Key,
         NEW n \in 0..MaxCount, login[r].pc = "idle",
         login' = [login EXCEPT ![r] = [pc |-> "known", user |-> u, ch |-> c, key |-> k, count |-> n]],
         UNCHANGED <<accountActive, accountLock, challenge, passkey, sessions>>
  PROVE  PasskeyInv'
<1> DEFINE T == Quiet \cup Busy
           q == [pc |-> "known", user |-> u, ch |-> c, key |-> k, count |-> n]
<1>1. q \in T /\ q.pc = "known"
  BY DEF Busy, KeyPcs
<1>2. login \in [KeyRequest -> T]
  BY DEF PasskeyInv, PasskeyTypes
<1> HIDE DEF T, q
<1>3. login' = [login EXCEPT ![r] = q]
  BY DEF q
<1>4. /\ login' \in [KeyRequest -> T] /\ login'[r].pc = "known"
      /\ \A p \in KeyRequest : p # r => login'[p] = login[p]
  BY <1>1, <1>2, <1>3
<1>5. login'[r].pc \notin Spent
  BY <1>4 DEF Spent
<1> QED
  BY <1>4, <1>5, PasskeyQuietStep DEF T

LEMMA AssertStep ==
  ASSUME PasskeyInv, NEW r \in LoginRequest, LoginAssert(r)
  PROVE  PasskeyInv'
<1>1. r \in KeyRequest /\ login[r].pc = "consumed"
  BY RequestSets DEF LoginAssert
<1>2. UNCHANGED <<accountActive, accountLock, challenge, passkey, sessions>>
  BY DEF LoginAssert
<1>3. CASE KeyGoto(r, "verified") /\ passkey[login[r].key].owner = login[r].user
  <2>1. "verified" \in KeyPcs \ {"idle"} /\ "verified" \in Spent /\ "consumed" \in Spent
    BY DEF KeyPcs, Spent
  <2>2. /\ login' \in [KeyRequest -> Quiet \cup Busy] /\ login'[r].pc = "verified"
        /\ login'[r].user = login[r].user /\ login'[r].ch = login[r].ch /\ login'[r].key = login[r].key
        /\ \A p \in KeyRequest : p # r => login'[p] = login[p]
    BY <1>1, <1>3, <2>1, GotoFacts DEF PasskeyInv
  <2> QED
    BY <1>1, <1>2, <1>3, <2>1, <2>2, PasskeyQuietStep
<1>4. CASE KeyGoto(r, "refused")
  BY <1>1, <1>2, <1>4, RefusedStep
<1> QED
  BY <1>3, <1>4 DEF LoginAssert

-----------------------------------------------------------------------------
(* Steps that take something. *)

LEMMA ChallengeStep ==
  ASSUME PasskeyInv, NEW u \in User, NEW c \in Challenge, NEW purpose \in {"register", "login"},
         createChallenge(u, c, purpose)
  PROVE  PasskeyInv'
<1> DEFINE T == Unissued \cup IssuedRows
           row == [state |-> "live", user |-> u, purpose |-> purpose, age |-> 0]
<1>1. /\ challenge[c].state = "unissued" /\ challenge' = [challenge EXCEPT ![c] = row]
      /\ UNCHANGED <<accountActive, accountLock, passkey, login, sessions>>
  BY DEF createChallenge
<1>2. row \in T /\ challenge \in [Challenge -> T]
  BY DEF IssuedRows, PasskeyInv, PasskeyTypes
<1> HIDE DEF row, T
<1>3. /\ challenge' \in [Challenge -> T]
      /\ \A d \in Challenge : d # c => challenge'[d] = challenge[d]
  BY <1>1, <1>2
<1>4. PasskeyTypes'
  BY <1>1, <1>3 DEF T, PasskeyInv, PasskeyTypes
<1>5. SpentAlone'
  <2>1. \A p \in KeyRequest : login[p].pc \in Spent => login[p].ch \in Challenge
    BY BusyFacts DEF PasskeyInv, PasskeyTypes, Spent
  <2>2. \A p \in KeyRequest : login[p].pc \in Spent /\ challenge[login[p].ch].state \in {"consumed", "deleted"} =>
          challenge'[login[p].ch] = challenge[login[p].ch]
    BY <1>1, <1>3, <2>1
  <2> QED
    BY <1>1, <2>2, KeepSpent
<1>6. OneSessionPerLogin' /\ VerifiedKeyIsOwn' /\ CountersGrow'
  BY <1>1, KeepSessions, KeepVerified, KeepCounters
<1>7. StoringHoldsAccount' /\ HolderIsStoring' /\ NoKeyAfterDeactivation'
  BY <1>1, KeepStoring, KeepKeys
<1> QED
  BY <1>4, <1>5, <1>6, <1>7 DEF PasskeyInv

\* auth.ts, consumeChallenge: the row was live, so no request had spent it.
LEMMA ConsumeStep ==
  ASSUME PasskeyInv, NEW r \in KeyRequest, login[r].pc = "known",
         NEW purpose \in {"register", "login"}, NEW next \in {"consumed", "attested"},
         r \in LoginRequest => purpose = "login",
         consumeChallenge(r, purpose, next)
  PROVE  PasskeyInv'
<1> DEFINE c == login[r].ch
           T == Unissued \cup IssuedRows
           row == [challenge[c] EXCEPT !.state = "consumed"]
<1>1. UNCHANGED <<accountActive, accountLock, passkey, sessions>>
  BY DEF consumeChallenge
<1>2. CASE ~Consumable(login[r].user, c, purpose)
  <2>1. KeyGoto(r, "refused") /\ UNCHANGED challenge
    BY <1>2 DEF consumeChallenge
  <2> QED
    BY <1>1, <2>1, RefusedStep
<1>3. CASE Consumable(login[r].user, c, purpose)
  <2>1. challenge' = [challenge EXCEPT ![c] = row] /\ KeyGoto(r, next)
    BY <1>3 DEF consumeChallenge
  <2>2. next \in KeyPcs \ {"idle"} /\ next \notin {"verified", "advanced", "done", "storing"}
    BY DEF KeyPcs
  <2>3. /\ login' \in [KeyRequest -> Quiet \cup Busy] /\ login'[r].pc = next
        /\ login'[r].user = login[r].user /\ login'[r].ch = c /\ login'[r].key = login[r].key
        /\ \A p \in KeyRequest : p # r => login'[p] = login[p]
    BY <2>1, <2>2, GotoFacts DEF PasskeyInv
  <2>4. c \in Challenge /\ challenge \in [Challenge -> T]
    BY BusyFacts DEF PasskeyInv, PasskeyTypes
  <2>5. /\ challenge[c].state = "live" /\ challenge[c].user = login[r].user
        /\ challenge[c].purpose = purpose
    BY <1>3 DEF Consumable
  <2>6. challenge[c] \in IssuedRows
    BY <2>4, <2>5 DEF Unissued
  <2>7. row \in T /\ row.state = "consumed" /\ row.user = login[r].user /\ row.purpose = purpose
    BY <2>5, <2>6 DEF IssuedRows
  <2> HIDE DEF row, c, T
  <2>8. /\ challenge' \in [Challenge -> T] /\ challenge'[c] = row
        /\ \A d \in Challenge : d # c => challenge'[d] = challenge[d]
    BY <2>1, <2>4, <2>7
  <2>9. PasskeyTypes'
    BY <1>1, <2>3, <2>8 DEF T, PasskeyInv, PasskeyTypes
  <2>10. \A p \in KeyRequest : login[p].pc \in Spent => login[p].ch \in Challenge /\ login[p].ch # c
    <3>1. \A p \in KeyRequest : login[p].pc \in Spent => login[p].ch \in Challenge
      BY BusyFacts DEF PasskeyInv, PasskeyTypes, Spent
    <3> QED
      BY <2>5, <3>1 DEF PasskeyInv, SpentAlone
  <2>11. SpentAlone'
    <3> SUFFICES ASSUME NEW p \in KeyRequest, login'[p].pc \in Spent
                 PROVE  /\ challenge'[login'[p].ch].state \in {"consumed", "deleted"}
                        /\ challenge'[login'[p].ch].user = login'[p].user
                        /\ p \in LoginRequest => challenge'[login'[p].ch].purpose = "login"
                        /\ \A o \in KeyRequest :
                             login'[o].pc \in Spent /\ login'[o].ch = login'[p].ch => o = p
      BY DEF SpentAlone
    <3>1. CASE p = r
      BY <2>3, <2>7, <2>8, <2>10, <3>1
    <3>2. CASE p # r
      <4>1. login'[p] = login[p] /\ challenge'[login[p].ch] = challenge[login[p].ch] /\ login[p].ch # c
        BY <2>3, <2>8, <2>10, <3>2
      <4>2. /\ challenge[login[p].ch].state \in {"consumed", "deleted"}
            /\ challenge[login[p].ch].user = login[p].user
            /\ p \in LoginRequest => challenge[login[p].ch].purpose = "login"
            /\ \A o \in KeyRequest : login[o].pc \in Spent /\ login[o].ch = login[p].ch => o = p
        BY <4>1 DEF PasskeyInv, SpentAlone
      <4> QED
        BY <2>3, <4>1, <4>2
    <3> QED
      BY <3>1, <3>2
  <2>12. OneSessionPerLogin'
    <3>1. \A p \in LoginRequest : login[p].pc = "done" => login'[p] = login[p]
      BY <2>3, RequestSets
    <3> QED
      BY <1>1, <3>1, KeepSessions
  <2>13. VerifiedKeyIsOwn'
    <3>1. \A p \in LoginRequest : login'[p].pc \in {"verified", "advanced", "done"} => login'[p] = login[p]
      BY <2>2, <2>3, RequestSets
    <3> QED
      BY <1>1, <3>1, KeepVerified
  <2>14. CountersGrow'
    <3>1. \A p \in LoginRequest :
            /\ login'[p].pc \in Counted <=> login[p].pc \in Counted
            /\ login[p].pc \in Counted => login'[p] = login[p]
      BY <2>2, <2>3, RequestSets DEF Counted
    <3> QED
      BY <1>1, <3>1, KeepCounters
  <2>15. StoringHoldsAccount' /\ HolderIsStoring'
    <3>1. \A p \in RegisterRequest :
            /\ login'[p].pc = "storing" <=> login[p].pc = "storing"
            /\ login[p].pc = "storing" => login'[p] = login[p]
      BY <2>2, <2>3, RequestSets
    <3> QED
      BY <1>1, <3>1, KeepStoring
  <2>16. NoKeyAfterDeactivation'
    BY <1>1, KeepKeys
  <2> QED
    BY <2>9, <2>11, <2>12, <2>13, <2>14, <2>15, <2>16 DEF PasskeyInv
<1> QED
  BY <1>2, <1>3

\* pool.ts, updateWebauthnSignCount: the counter moved past every one a login of this
\* account's key had advanced it to.
LEMMA CountStep ==
  ASSUME PasskeyInv, NEW r \in LoginRequest, updateWebauthnSignCount(r)
  PROVE  PasskeyInv'
<1> DEFINE k == login[r].key
           n == login[r].count
<1>1. r \in KeyRequest /\ login[r].pc = "verified" /\ UNCHANGED <<accountActive, accountLock, challenge, sessions>>
  BY RequestSets DEF updateWebauthnSignCount
<1>2. CASE ~Advances(k, n)
  <2>1. KeyGoto(r, "refused") /\ UNCHANGED passkey
    BY <1>2 DEF updateWebauthnSignCount
  <2> QED
    BY <1>1, <2>1, RefusedStep
<1>3. CASE Advances(k, n)
  <2> DEFINE row == [passkey[k] EXCEPT !.count = n]
  <2>1. passkey' = [passkey EXCEPT ![k] = row] /\ KeyGoto(r, "advanced")
    BY <1>3 DEF updateWebauthnSignCount
  <2>2. k \in Key /\ n \in 0..MaxCount /\ passkey \in [Key -> KeyRows]
    BY <1>1, BusyFacts DEF PasskeyInv, PasskeyTypes
  <2>3. row \in KeyRows /\ row.owner = passkey[k].owner /\ row.count = n /\ passkey[k].count \in 0..MaxCount
    BY <2>2 DEF KeyRows
  <2>4. n = 0 \/ passkey[k].count < n
    BY <1>3 DEF Advances
  <2>5. "advanced" \in KeyPcs \ {"idle"}
    BY DEF KeyPcs
  <2>6. /\ login' \in [KeyRequest -> Quiet \cup Busy] /\ login'[r].pc = "advanced"
        /\ login'[r].user = login[r].user /\ login'[r].ch = login[r].ch
        /\ login'[r].key = k /\ login'[r].count = n
        /\ \A p \in KeyRequest : p # r => login'[p] = login[p]
    BY <1>1, <2>1, <2>5, GotoFacts DEF PasskeyInv
  <2> HIDE DEF row, k, n
  <2>7. /\ passkey' \in [Key -> KeyRows] /\ passkey'[k] = row
        /\ \A j \in Key : j # k => passkey'[j] = passkey[j]
    BY <2>1, <2>2, <2>3
  <2>8. \A j \in Key : passkey'[j].owner = passkey[j].owner
    BY <2>3, <2>7
  <2>9. PasskeyTypes'
    BY <1>1, <2>6, <2>7 DEF PasskeyInv, PasskeyTypes
  <2>10. SpentAlone'
    <3>1. \A p \in KeyRequest : login'[p].pc \in Spent =>
            login[p].pc \in Spent /\ login'[p].ch = login[p].ch /\ login'[p].user = login[p].user
      BY <1>1, <2>6 DEF Spent
    <3> QED
      BY <1>1, <3>1, KeepSpent
  <2>11. OneSessionPerLogin'
    <3>1. \A p \in LoginRequest : login[p].pc = "done" => login'[p] = login[p]
      BY <1>1, <2>6, RequestSets
    <3> QED
      BY <1>1, <3>1, KeepSessions
  <2>12. VerifiedKeyIsOwn'
    <3> SUFFICES ASSUME NEW p \in LoginRequest, login'[p].pc \in {"verified", "advanced", "done"}
                 PROVE  \/ passkey'[login'[p].key].owner = login'[p].user
                        \/ ~accountActive'[login'[p].user]
      BY DEF VerifiedKeyIsOwn
    <3>1. /\ login[p].pc \in {"verified", "advanced", "done"}
          /\ login'[p].key = login[p].key /\ login'[p].user = login[p].user
      BY <1>1, <2>6, RequestSets DEF k
    <3>2. login[p].key \in Key
      BY <3>1, RequestSets, BusyFacts DEF PasskeyInv, PasskeyTypes
    <3>3. passkey[login[p].key].owner = login[p].user \/ ~accountActive[login[p].user]
      BY <3>1 DEF PasskeyInv, VerifiedKeyIsOwn
    <3> QED
      BY <1>1, <2>8, <3>1, <3>2, <3>3
  <2>13. CountersGrow'
    <3>1. UncountedLogin => UncountedLogin'
      BY <1>1, <2>6, RequestSets DEF UncountedLogin, Counted
    <3>2. CASE n = 0
      <4>1. UncountedLogin'
        BY <2>6, <3>2 DEF UncountedLogin, Counted
      <4> QED
        BY <4>1 DEF CountersGrow
    <3>3. CASE UncountedLogin
      BY <3>1, <3>3 DEF CountersGrow
    <3>4. CASE n # 0 /\ ~UncountedLogin
      <4>1. passkey[k].count < n
        BY <2>4, <3>4
      <4>2. ASSUME NEW p \in LoginRequest, p # r, login'[p].pc \in Counted, login'[p].count > 0,
                   passkey'[login'[p].key].owner = login'[p].user
            PROVE  /\ login'[p] = login[p] /\ login[p].key \in Key
                   /\ login[p].count <= passkey[login[p].key].count
                   /\ \A o \in LoginRequest :
                        /\ login[o].pc \in Counted /\ login[o].key = login[p].key
                        /\ login[o].user = login[p].user /\ login[o].count = login[p].count
                        => o = p
        <5>1. login'[p] = login[p]
          BY <2>6, <4>2, RequestSets
        <5>2. login[p].key \in Key
          BY <4>2, <5>1, RequestSets, BusyFacts DEF PasskeyInv, PasskeyTypes, Counted
        <5>3. passkey[login[p].key].owner = login[p].user
          BY <2>8, <4>2, <5>1, <5>2
        <5> QED
          BY <3>4, <4>2, <5>1, <5>2, <5>3 DEF PasskeyInv, CountersGrow
      <4>3. \A j \in Key : passkey[j].count \in 0..MaxCount /\ passkey'[j].count \in 0..MaxCount
        BY <2>2, <2>7 DEF KeyRows
      <4>4. \A o \in LoginRequest : o # r => login'[o] = login[o]
        BY <2>6, RequestSets
      <4> SUFFICES ASSUME NEW p \in LoginRequest, login'[p].pc \in Counted, login'[p].count > 0,
                          passkey'[login'[p].key].owner = login'[p].user
                   PROVE  /\ login'[p].count <= passkey'[login'[p].key].count
                          /\ \A o \in LoginRequest :
                               /\ login'[o].pc \in Counted /\ login'[o].key = login'[p].key
                               /\ login'[o].user = login'[p].user /\ login'[o].count = login'[p].count
                               => o = p
        BY DEF CountersGrow
      <4>5. CASE p = r
        <5>1. login'[p].count <= passkey'[login'[p].key].count
          BY <2>2, <2>3, <2>6, <2>7, <4>5
        <5>2. ASSUME NEW o \in LoginRequest, login'[o].pc \in Counted, login'[o].key = login'[p].key,
                     login'[o].user = login'[p].user, login'[o].count = login'[p].count, o # p
              PROVE  FALSE
          <6>1. passkey'[login'[o].key].owner = login'[o].user /\ login'[o].count > 0 /\ o # r
            BY <4>5, <5>2
          <6>2. login'[o] = login[o] /\ login[o].count <= passkey[login[o].key].count
            BY <4>2, <5>2, <6>1
          <6>3. login[o].key = k /\ login[o].count = n
            BY <2>6, <4>5, <5>2, <6>2
          <6> QED
            BY <2>2, <2>3, <4>1, <6>2, <6>3
        <5> QED
          BY <5>1, <5>2
      <4>6. CASE p # r
        <5>1. /\ login'[p] = login[p] /\ login[p].key \in Key
              /\ login[p].count <= passkey[login[p].key].count
          BY <4>2, <4>6
        <5>2. login[p].count \in 0..MaxCount
          BY <5>1, RequestSets, BusyFacts DEF PasskeyInv, PasskeyTypes, Counted
        <5>3. login[p].key = k => login[p].count < n
          BY <2>2, <2>3, <4>1, <5>1, <5>2
        <5>4. login'[p].count <= passkey'[login'[p].key].count
          BY <2>2, <2>3, <2>7, <5>1, <5>2, <5>3
        <5>5. ASSUME NEW o \in LoginRequest, login'[o].pc \in Counted, login'[o].key = login'[p].key,
                     login'[o].user = login'[p].user, login'[o].count = login'[p].count
              PROVE  o = p
          <6>1. o # r
            BY <2>2, <2>6, <5>1, <5>2, <5>3, <5>5
          <6>2. login'[o] = login[o]
            BY <4>4, <6>1
          <6> QED
            BY <4>2, <4>6, <5>1, <5>5, <6>2
        <5> QED
          BY <5>4, <5>5
      <4> QED
        BY <4>5, <4>6
    <3> QED
      BY <3>2, <3>3, <3>4
  <2>14. StoringHoldsAccount' /\ HolderIsStoring'
    <3>1. \A p \in RegisterRequest : login'[p] = login[p]
      BY <2>6, RequestSets
    <3> QED
      BY <1>1, <3>1, KeepStoring
  <2>15. NoKeyAfterDeactivation'
    BY <1>1, <2>8 DEF PasskeyInv, NoKeyAfterDeactivation
  <2> QED
    BY <2>9, <2>10, <2>11, <2>12, <2>13, <2>14, <2>15 DEF PasskeyInv
<1> QED
  BY <1>2, <1>3

\* auth.ts: the session is handed out once, at the end of the login that earned it.
LEMMA IssueStep ==
  ASSUME PasskeyInv, NEW r \in LoginRequest, issueSession(r)
  PROVE  PasskeyInv'
<1> DEFINE token == [user |-> login[r].user, by |-> r, ch |-> login[r].ch, key |-> login[r].key,
                     count |-> login[r].count, left |-> SESSION_TTL]
<1>1. /\ r \in KeyRequest /\ login[r].pc = "advanced" /\ KeyGoto(r, "done")
      /\ sessions' = sessions \cup {token}
      /\ UNCHANGED <<accountActive, accountLock, challenge, passkey>>
  BY RequestSets DEF issueSession
<1>2. "done" \in KeyPcs \ {"idle"}
  BY DEF KeyPcs
<1>3. /\ login' \in [KeyRequest -> Quiet \cup Busy] /\ login'[r].pc = "done"
      /\ login'[r].user = login[r].user /\ login'[r].ch = login[r].ch
      /\ login'[r].key = login[r].key /\ login'[r].count = login[r].count
      /\ \A p \in KeyRequest : p # r => login'[p] = login[p]
  BY <1>1, <1>2, GotoFacts DEF PasskeyInv
<1>4. token \in Tokens
  BY <1>1, BusyFacts DEF PasskeyInv, PasskeyTypes, Tokens
<1>5. /\ token.by = r /\ token.user = login[r].user /\ token.ch = login[r].ch
      /\ token.key = login[r].key /\ token.count = login[r].count
  OBVIOUS
<1> HIDE DEF token
<1>6. PasskeyTypes'
  BY <1>1, <1>3, <1>4 DEF PasskeyInv, PasskeyTypes
<1>7. SpentAlone'
  <2>1. \A p \in KeyRequest : login'[p].pc \in Spent =>
          login[p].pc \in Spent /\ login'[p].ch = login[p].ch /\ login'[p].user = login[p].user
    BY <1>1, <1>3 DEF Spent
  <2> QED
    BY <1>1, <2>1, KeepSpent
<1>8. OneSessionPerLogin'
  <2>1. ASSUME NEW s \in sessions
        PROVE  s.by \in LoginRequest /\ s.by # r /\ login'[s.by] = login[s.by]
    <3>1. s.by \in LoginRequest
      BY DEF PasskeyInv, PasskeyTypes, Tokens
    <3>2. login[s.by].pc = "done"
      BY DEF PasskeyInv, OneSessionPerLogin
    <3> QED
      BY <1>1, <1>3, <3>1, <3>2, RequestSets
  <2>2. ASSUME NEW s \in sessions'
        PROVE  LET q == login'[s.by] IN
               q.pc = "done" /\ q.user = s.user /\ q.ch = s.ch /\ q.key = s.key /\ q.count = s.count
    <3>1. CASE s \in sessions
      BY <2>1, <3>1 DEF PasskeyInv, OneSessionPerLogin
    <3>2. CASE s = token
      BY <1>3, <1>5, <3>2
    <3> QED
      BY <1>1, <3>1, <3>2
  <2>3. \A s, t \in sessions' : s.by = t.by => s = t
    <3>1. \A s, t \in sessions : s.by = t.by => s = t
      BY DEF PasskeyInv, OneSessionPerLogin
    <3> QED
      BY <1>1, <1>5, <2>1, <3>1
  <2> QED
    BY <2>2, <2>3 DEF OneSessionPerLogin
<1>9. VerifiedKeyIsOwn'
  <2>1. \A p \in LoginRequest : login'[p].pc \in {"verified", "advanced", "done"} =>
          /\ login'[p].key = login[p].key /\ login'[p].user = login[p].user
          /\ login[p].pc \in {"verified", "advanced", "done"}
    BY <1>1, <1>3, RequestSets
  <2> QED
    BY <1>1, <2>1, KeepVerified
<1>10. CountersGrow'
  <2>1. \A p \in LoginRequest :
          /\ login'[p].pc \in Counted <=> login[p].pc \in Counted
          /\ login[p].pc \in Counted =>
               /\ login'[p].user = login[p].user /\ login'[p].key = login[p].key
               /\ login'[p].count = login[p].count
    BY <1>1, <1>3, RequestSets DEF Counted
  <2> QED
    BY <1>1, <2>1, KeepCounters
<1>11. StoringHoldsAccount' /\ HolderIsStoring'
  <2>1. \A p \in RegisterRequest : login'[p] = login[p]
    BY <1>3, RequestSets
  <2> QED
    BY <1>1, <2>1, KeepStoring
<1>12. NoKeyAfterDeactivation'
  BY <1>1, KeepKeys
<1> QED
  BY <1>6, <1>7, <1>8, <1>9, <1>10, <1>11, <1>12 DEF PasskeyInv

\* A registration changes nothing of what logins rely on, while the keys stay.
LEMMA LoginsUntouched ==
  ASSUME PasskeyInv, NEW r \in RegisterRequest, \A p \in KeyRequest : p # r => login'[p] = login[p],
         UNCHANGED <<passkey, accountActive, sessions>>
  PROVE  OneSessionPerLogin' /\ VerifiedKeyIsOwn' /\ CountersGrow' /\ NoKeyAfterDeactivation'
<1>1. \A p \in LoginRequest : login'[p] = login[p]
  BY RequestSets
<1> QED
  BY <1>1, KeepSessions, KeepVerified, KeepCounters, KeepKeys

LEMMA StoreLockStep ==
  ASSUME PasskeyInv, NEW r \in RegisterRequest, StoreLock(r)
  PROVE  PasskeyInv'
<1> DEFINE u == login[r].user
<1>1. /\ r \in KeyRequest /\ r # Nobody /\ login[r].pc = "attested" /\ accountLock[u] = Nobody
      /\ UNCHANGED <<accountActive, challenge, passkey, sessions>>
  BY RequestSets DEF StoreLock
<1>2. CASE ~accountActive[u]
  <2>1. KeyGoto(r, "refused") /\ UNCHANGED accountLock
    BY <1>2 DEF StoreLock
  <2> QED
    BY <1>1, <2>1, RefusedStep
<1>3. CASE accountActive[u]
  <2>1. accountLock' = [accountLock EXCEPT ![u] = r] /\ KeyGoto(r, "storing")
    BY <1>3 DEF StoreLock
  <2>2. "storing" \in KeyPcs \ {"idle"}
    BY DEF KeyPcs
  <2>3. /\ login' \in [KeyRequest -> Quiet \cup Busy] /\ login'[r].pc = "storing"
        /\ login'[r].user = u /\ login'[r].ch = login[r].ch
        /\ \A p \in KeyRequest : p # r => login'[p] = login[p]
    BY <1>1, <2>1, <2>2, GotoFacts DEF PasskeyInv
  <2>4. u \in User /\ accountLock \in [User -> KeyRequest \cup {Nobody}]
    BY <1>1, BusyFacts DEF PasskeyInv, PasskeyTypes
  <2> HIDE DEF u
  <2>5. /\ accountLock' \in [User -> KeyRequest \cup {Nobody}] /\ accountLock'[u] = r
        /\ \A v \in User : v # u => accountLock'[v] = accountLock[v]
    BY <1>1, <2>1, <2>4
  <2>6. PasskeyTypes'
    BY <1>1, <2>3, <2>5 DEF PasskeyInv, PasskeyTypes
  <2>7. SpentAlone'
    <3>1. \A p \in KeyRequest : login'[p].pc \in Spent =>
            login[p].pc \in Spent /\ login'[p].ch = login[p].ch /\ login'[p].user = login[p].user
      BY <1>1, <2>3 DEF Spent, u
    <3> QED
      BY <1>1, <3>1, KeepSpent
  <2>8. OneSessionPerLogin' /\ VerifiedKeyIsOwn' /\ CountersGrow' /\ NoKeyAfterDeactivation'
    BY <1>1, <2>3, LoginsUntouched
  <2>9. StoringHoldsAccount'
    <3> SUFFICES ASSUME NEW p \in RegisterRequest, login'[p].pc = "storing"
                 PROVE  accountLock'[login'[p].user] = p /\ accountActive'[login'[p].user]
      BY DEF StoringHoldsAccount
    <3>1. CASE p = r
      <4>1. login'[p].user = u /\ accountLock'[u] = p /\ accountActive' = accountActive
        BY <1>1, <2>3, <2>5, <3>1
      <4> QED
        BY <1>3, <4>1
    <3>2. CASE p # r
      <4>1. login'[p] = login[p] /\ p \in KeyRequest /\ p # Nobody
        BY <2>3, <3>2, RequestSets
      <4>2. accountLock[login[p].user] = p /\ accountActive[login[p].user]
        BY <4>1 DEF PasskeyInv, StoringHoldsAccount
      <4>3. login[p].user \in User
        BY <4>1, BusyFacts DEF PasskeyInv, PasskeyTypes
      <4>4. login[p].user # u
        BY <1>1, <4>1, <4>2 DEF u
      <4> QED
        BY <1>1, <2>5, <4>1, <4>2, <4>3, <4>4
    <3> QED
      BY <3>1, <3>2
  <2>10. HolderIsStoring'
    <3> SUFFICES ASSUME NEW v \in User, accountLock'[v] # Nobody
                 PROVE  LET p == accountLock'[v] IN
                        /\ p \in RegisterRequest /\ login'[p].pc = "storing" /\ login'[p].user = v
                        /\ accountActive'[v]
      BY DEF HolderIsStoring
    <3>1. CASE v = u
      <4>1. accountLock'[v] = r /\ login'[r].user = v /\ accountActive' = accountActive
        BY <1>1, <2>3, <2>5, <3>1
      <4> QED
        BY <1>3, <2>3, <3>1, <4>1
    <3>2. CASE v # u
      <4>1. accountLock'[v] = accountLock[v]
        BY <2>5, <3>2
      <4>2. LET p == accountLock[v] IN
            p \in RegisterRequest /\ login[p].pc = "storing" /\ login[p].user = v /\ accountActive[v]
        BY <4>1 DEF PasskeyInv, HolderIsStoring
      <4>3. login'[accountLock[v]] = login[accountLock[v]]
        BY <1>1, <2>3, <4>2, RequestSets
      <4> QED
        BY <1>1, <4>1, <4>2, <4>3
    <3> QED
      BY <3>1, <3>2
  <2> QED
    BY <2>6, <2>7, <2>8, <2>9, <2>10 DEF PasskeyInv
<1> QED
  BY <1>2, <1>3

\* pool.ts, storeWebauthnCredential: the key goes to an account that is active, and no
\* login of that account had verified it while it was nobody's.
LEMMA StoreStep ==
  ASSUME PasskeyInv, NEW r \in RegisterRequest, storeWebauthnCredential(r)
  PROVE  PasskeyInv'
<1> DEFINE u == login[r].user
           k == login[r].key
           row == [passkey[k] EXCEPT !.owner = u]
<1>1. /\ r \in KeyRequest /\ r # Nobody /\ login[r].pc = "storing" /\ KeyGoto(r, "done")
      /\ accountLock' = [accountLock EXCEPT ![u] = Nobody]
      /\ UNCHANGED <<accountActive, challenge, sessions>>
  BY RequestSets DEF storeWebauthnCredential
<1>2. accountLock[u] = r /\ accountActive[u]
  BY <1>1 DEF PasskeyInv, StoringHoldsAccount
<1>3. "done" \in KeyPcs \ {"idle"}
  BY DEF KeyPcs
<1>4. /\ login' \in [KeyRequest -> Quiet \cup Busy] /\ login'[r].pc = "done"
      /\ login'[r].user = u /\ login'[r].ch = login[r].ch
      /\ \A p \in KeyRequest : p # r => login'[p] = login[p]
  BY <1>1, <1>3, GotoFacts DEF PasskeyInv
<1>5. /\ u \in User /\ k \in Key /\ accountLock \in [User -> KeyRequest \cup {Nobody}]
      /\ passkey \in [Key -> KeyRows]
  BY <1>1, BusyFacts DEF PasskeyInv, PasskeyTypes
<1>6. row \in KeyRows /\ row.owner = u
  BY <1>5 DEF KeyRows
<1>7. passkey' = IF passkey[k] = NoKey THEN [passkey EXCEPT ![k] = row] ELSE passkey
  BY DEF storeWebauthnCredential
<1> HIDE DEF u, k, row
<1>8. /\ passkey' \in [Key -> KeyRows]
      /\ \A j \in Key : \/ passkey'[j] = passkey[j]
                        \/ passkey[j].owner = Nobody /\ passkey'[j].owner = u
  <2>1. CASE passkey[k] = NoKey
    <3>1. passkey[k].owner = Nobody
      BY <2>1 DEF NoKey
    <3>2. passkey' = [passkey EXCEPT ![k] = row]
      BY <1>7, <2>1
    <3> QED
      BY <1>5, <1>6, <3>1, <3>2
  <2>2. CASE passkey[k] # NoKey
    BY <1>5, <1>7, <2>2
  <2> QED
    BY <2>1, <2>2
<1>9. /\ accountLock' \in [User -> KeyRequest \cup {Nobody}] /\ accountLock'[u] = Nobody
      /\ \A v \in User : v # u => accountLock'[v] = accountLock[v]
  BY <1>1, <1>5
<1>10. PasskeyTypes'
  BY <1>1, <1>4, <1>8, <1>9 DEF PasskeyInv, PasskeyTypes
<1>11. SpentAlone'
  <2>1. \A p \in KeyRequest : login'[p].pc \in Spent =>
          login[p].pc \in Spent /\ login'[p].ch = login[p].ch /\ login'[p].user = login[p].user
    BY <1>1, <1>4 DEF Spent, u
  <2> QED
    BY <1>1, <2>1, KeepSpent
<1>12. \A p \in LoginRequest : p \in KeyRequest /\ login'[p] = login[p]
  BY <1>4, RequestSets
<1>13. OneSessionPerLogin'
  BY <1>1, <1>12, KeepSessions
<1>14. ASSUME NEW p \in LoginRequest, login[p].pc \in {"verified", "advanced", "done"}
       PROVE  /\ login[p].key \in Key /\ login[p].user \in User
              /\ \/ passkey[login[p].key].owner = login[p].user
                 \/ ~accountActive[login[p].user]
  <2>1. login[p].key \in Key /\ login[p].user \in User
    BY <1>12, <1>14, BusyFacts DEF PasskeyInv, PasskeyTypes
  <2> QED
    BY <1>14, <2>1 DEF PasskeyInv, VerifiedKeyIsOwn
<1>15. VerifiedKeyIsOwn'
  <2> SUFFICES ASSUME NEW p \in LoginRequest, login'[p].pc \in {"verified", "advanced", "done"}
               PROVE  \/ passkey'[login'[p].key].owner = login'[p].user
                      \/ ~accountActive'[login'[p].user]
    BY DEF VerifiedKeyIsOwn
  <2>1. login'[p] = login[p] /\ accountActive' = accountActive
    BY <1>1, <1>12
  <2>2. passkey[login[p].key].owner = login[p].user =>
          passkey'[login[p].key].owner = login[p].user
    BY <1>8, <1>14, <2>1
  <2> QED
    BY <1>14, <2>1, <2>2
<1>16. CountersGrow'
  <2>1. UncountedLogin => UncountedLogin'
    BY <1>12 DEF UncountedLogin
  <2>2. ASSUME NEW p \in LoginRequest, login[p].pc \in Counted, passkey'[login[p].key].owner = login[p].user
        PROVE  passkey'[login[p].key] = passkey[login[p].key]
    <3>1. login[p].pc \in {"verified", "advanced", "done"}
      BY <2>2 DEF Counted
    <3>2. /\ login[p].key \in Key /\ login[p].user \in User
          /\ passkey[login[p].key].owner = login[p].user \/ ~accountActive[login[p].user]
      BY <1>14, <3>1
    <3>3. CASE passkey[login[p].key].owner = login[p].user
      <4>1. passkey[login[p].key].owner # Nobody
        BY <3>2, <3>3
      <4> QED
        BY <1>8, <3>2, <4>1
    <3>4. CASE ~accountActive[login[p].user]
      <4>1. login[p].user # u
        BY <1>2, <3>4
      <4> QED
        BY <1>8, <2>2, <3>2, <4>1
    <3> QED
      BY <3>2, <3>3, <3>4
  <2> SUFFICES ASSUME NEW p \in LoginRequest, login'[p].pc \in Counted, login'[p].count > 0,
                      passkey'[login'[p].key].owner = login'[p].user, ~UncountedLogin'
               PROVE  /\ login'[p].count <= passkey'[login'[p].key].count
                      /\ \A o \in LoginRequest :
                           /\ login'[o].pc \in Counted /\ login'[o].key = login'[p].key
                           /\ login'[o].user = login'[p].user /\ login'[o].count = login'[p].count
                           => o = p
    BY DEF CountersGrow
  <2>3. login'[p] = login[p] /\ passkey'[login[p].key] = passkey[login[p].key]
    BY <1>12, <2>2
  <2>4. /\ login[p].count <= passkey[login[p].key].count
        /\ \A o \in LoginRequest :
             /\ login[o].pc \in Counted /\ login[o].key = login[p].key
             /\ login[o].user = login[p].user /\ login[o].count = login[p].count
             => o = p
    BY <2>1, <2>3 DEF PasskeyInv, CountersGrow
  <2> QED
    BY <1>12, <2>3, <2>4
<1>17. StoringHoldsAccount'
  <2> SUFFICES ASSUME NEW p \in RegisterRequest, login'[p].pc = "storing"
               PROVE  accountLock'[login'[p].user] = p /\ accountActive'[login'[p].user]
    BY DEF StoringHoldsAccount
  <2>1. p # r
    BY <1>4
  <2>2. login'[p] = login[p] /\ p \in KeyRequest /\ p # Nobody
    BY <1>4, <2>1, RequestSets
  <2>3. accountLock[login[p].user] = p /\ accountActive[login[p].user]
    BY <2>2 DEF PasskeyInv, StoringHoldsAccount
  <2>4. login[p].user \in User /\ login[p].user # u
    BY <1>2, <2>1, <2>2, <2>3, BusyFacts DEF PasskeyInv, PasskeyTypes
  <2> QED
    BY <1>1, <1>9, <2>2, <2>3, <2>4
<1>18. HolderIsStoring'
  <2> SUFFICES ASSUME NEW v \in User, accountLock'[v] # Nobody
               PROVE  LET p == accountLock'[v] IN
                      /\ p \in RegisterRequest /\ login'[p].pc = "storing" /\ login'[p].user = v
                      /\ accountActive'[v]
    BY DEF HolderIsStoring
  <2>1. v # u /\ accountLock'[v] = accountLock[v]
    BY <1>9
  <2>2. LET p == accountLock[v] IN
        p \in RegisterRequest /\ login[p].pc = "storing" /\ login[p].user = v /\ accountActive[v]
    BY <2>1 DEF PasskeyInv, HolderIsStoring
  <2>3. accountLock[v] # r
    BY <2>1, <2>2 DEF u
  <2>4. login'[accountLock[v]] = login[accountLock[v]]
    BY <1>4, <2>2, <2>3, RequestSets
  <2> QED
    BY <1>1, <2>1, <2>2, <2>4
<1>19. NoKeyAfterDeactivation'
  <2> SUFFICES ASSUME NEW j \in Key, passkey'[j].owner # Nobody
               PROVE  accountActive[passkey'[j].owner]
    BY <1>1 DEF NoKeyAfterDeactivation
  <2> QED
    BY <1>2, <1>8 DEF PasskeyInv, NoKeyAfterDeactivation
<1> QED
  BY <1>10, <1>11, <1>13, <1>15, <1>16, <1>17, <1>18, <1>19 DEF PasskeyInv

\* pool.ts, deactivateAccount: behind the row lock, so no passkey of the account is
\* being stored; its keys go, and its challenges, while requests are in flight.
LEMMA DeactivateStep ==
  ASSUME PasskeyInv, NEW u \in User, deactivateAccount(u)
  PROVE  PasskeyInv'
<1>1. accountLock[u] = Nobody /\ UNCHANGED <<accountLock, login, sessions>>
  BY DEF deactivateAccount
<1>2. /\ accountActive' \in [User -> BOOLEAN] /\ accountActive'[u] = FALSE
      /\ \A v \in User : v # u => accountActive'[v] = accountActive[v]
  <2>1. accountActive \in [User -> BOOLEAN] /\ accountActive' = [accountActive EXCEPT ![u] = FALSE]
    BY DEF PasskeyInv, PasskeyTypes, deactivateAccount
  <2> QED
    BY <2>1
<1>3. /\ passkey' \in [Key -> KeyRows]
      /\ \A k \in Key : \/ passkey'[k] = NoKey
                        \/ passkey'[k] = passkey[k] /\ passkey[k].owner # u
  <2>1. NoKey \in KeyRows
    BY DEF NoKey, KeyRows
  <2>2. passkey \in [Key -> KeyRows]
    BY DEF PasskeyInv, PasskeyTypes
  <2>3. passkey' = [k \in Key |-> IF passkey[k].owner = u THEN NoKey ELSE passkey[k]]
    BY DEF deactivateAccount
  <2> QED
    BY <2>1, <2>2, <2>3
<1>4. NoKey.owner = Nobody
  BY DEF NoKey
<1>5. /\ challenge' \in [Challenge -> Unissued \cup IssuedRows]
      /\ \A c \in Challenge : challenge[c].state \in {"consumed", "deleted"} =>
           /\ challenge'[c].state \in {"consumed", "deleted"}
           /\ challenge'[c].user = challenge[c].user
           /\ challenge'[c].purpose = challenge[c].purpose
  <2>1. challenge \in [Challenge -> Unissued \cup IssuedRows]
    BY DEF PasskeyInv, PasskeyTypes
  <2>2. challenge' = [c \in Challenge |->
          IF challenge[c].state # "unissued" /\ challenge[c].user = u
          THEN [challenge[c] EXCEPT !.state = "deleted"] ELSE challenge[c]]
    BY DEF deactivateAccount
  <2>3. ASSUME NEW c \in Challenge, challenge[c].state # "unissued"
        PROVE  LET d == [challenge[c] EXCEPT !.state = "deleted"] IN
               /\ d \in IssuedRows /\ d.state = "deleted"
               /\ d.user = challenge[c].user /\ d.purpose = challenge[c].purpose
    <3>1. challenge[c] \in IssuedRows
      BY <2>1, <2>3 DEF Unissued
    <3> QED
      BY <3>1 DEF IssuedRows
  <2>4. ASSUME NEW c \in Challenge
        PROVE  /\ challenge'[c] \in Unissued \cup IssuedRows
               /\ challenge[c].state \in {"consumed", "deleted"} =>
                    /\ challenge'[c].state \in {"consumed", "deleted"}
                    /\ challenge'[c].user = challenge[c].user
                    /\ challenge'[c].purpose = challenge[c].purpose
    <3>1. CASE challenge[c].state # "unissued" /\ challenge[c].user = u
      <4>1. challenge'[c] = [challenge[c] EXCEPT !.state = "deleted"]
        BY <2>2, <3>1
      <4> QED
        BY <2>3, <3>1, <4>1
    <3>2. CASE ~(challenge[c].state # "unissued" /\ challenge[c].user = u)
      <4>1. challenge'[c] = challenge[c]
        BY <2>2, <3>2
      <4> QED
        BY <2>1, <4>1
    <3> QED
      BY <3>1, <3>2
  <2>5. challenge' = [c \in Challenge |-> challenge'[c]]
    BY <2>2
  <2> QED
    BY <2>4, <2>5
<1>6. PasskeyTypes'
  BY <1>1, <1>2, <1>3, <1>5 DEF PasskeyInv, PasskeyTypes
<1>7. SpentAlone'
  <2>1. \A p \in KeyRequest : login[p].pc \in Spent => login[p].ch \in Challenge
    BY BusyFacts DEF PasskeyInv, PasskeyTypes, Spent
  <2> QED
    BY <1>1, <1>5, <2>1, KeepSpent
<1>8. OneSessionPerLogin'
  BY <1>1, KeepSessions
<1>9. ASSUME NEW p \in LoginRequest, login[p].pc \in {"verified", "advanced", "done"}
      PROVE  login[p].key \in Key /\ login[p].user \in User
  BY <1>9, RequestSets, BusyFacts DEF PasskeyInv, PasskeyTypes
<1>10. VerifiedKeyIsOwn'
  <2> SUFFICES ASSUME NEW p \in LoginRequest, login[p].pc \in {"verified", "advanced", "done"}
               PROVE  \/ passkey'[login[p].key].owner = login[p].user
                      \/ ~accountActive'[login[p].user]
    BY <1>1 DEF VerifiedKeyIsOwn
  <2>1. login[p].key \in Key /\ login[p].user \in User
    BY <1>9
  <2>2. CASE login[p].user = u
    BY <1>2, <2>2
  <2>3. CASE login[p].user # u
    <3>1. accountActive'[login[p].user] = accountActive[login[p].user]
      BY <1>2, <2>1, <2>3
    <3>2. CASE passkey[login[p].key].owner = login[p].user
      <4>1. passkey'[login[p].key] = passkey[login[p].key]
        <5>1. passkey[login[p].key].owner # u
          BY <2>3, <3>2
        <5>2. passkey' = [k \in Key |-> IF passkey[k].owner = u THEN NoKey ELSE passkey[k]]
          BY DEF deactivateAccount
        <5> QED
          BY <2>1, <5>1, <5>2
      <4> QED
        BY <3>2, <4>1
    <3>3. CASE ~accountActive[login[p].user]
      BY <3>1, <3>3
    <3> QED
      BY <3>2, <3>3 DEF PasskeyInv, VerifiedKeyIsOwn
  <2> QED
    BY <2>2, <2>3
<1>11. CountersGrow'
  <2>1. UncountedLogin' <=> UncountedLogin
    BY <1>1 DEF UncountedLogin
  <2> SUFFICES ASSUME NEW p \in LoginRequest, login[p].pc \in Counted, login[p].count > 0,
                      passkey'[login[p].key].owner = login[p].user, ~UncountedLogin
               PROVE  /\ login[p].count <= passkey'[login[p].key].count
                      /\ \A o \in LoginRequest :
                           /\ login[o].pc \in Counted /\ login[o].key = login[p].key
                           /\ login[o].user = login[p].user /\ login[o].count = login[p].count
                           => o = p
    BY <1>1, <2>1 DEF CountersGrow
  <2>2. login[p].key \in Key /\ login[p].user \in User
    BY <1>9 DEF Counted
  <2>3. passkey'[login[p].key] = passkey[login[p].key]
    BY <1>3, <1>4, <2>2
  <2> QED
    BY <2>3 DEF PasskeyInv, CountersGrow
<1>12. StoringHoldsAccount'
  <2> SUFFICES ASSUME NEW p \in RegisterRequest, login[p].pc = "storing"
               PROVE  accountLock[login[p].user] = p /\ accountActive'[login[p].user]
    BY <1>1 DEF StoringHoldsAccount
  <2>1. accountLock[login[p].user] = p /\ accountActive[login[p].user]
    BY DEF PasskeyInv, StoringHoldsAccount
  <2>2. login[p].user \in User /\ login[p].user # u
    BY <1>1, <2>1, RequestSets, BusyFacts DEF PasskeyInv, PasskeyTypes
  <2>3. accountActive'[login[p].user] = accountActive[login[p].user]
    BY <1>2, <2>2
  <2> QED
    BY <2>1, <2>3
<1>13. HolderIsStoring'
  <2> SUFFICES ASSUME NEW v \in User, accountLock[v] # Nobody
               PROVE  LET r == accountLock[v] IN
                      /\ r \in RegisterRequest /\ login[r].pc = "storing" /\ login[r].user = v
                      /\ accountActive'[v]
    BY <1>1 DEF HolderIsStoring
  <2>1. accountActive'[v] = accountActive[v]
    BY <1>1, <1>2
  <2> QED
    BY <2>1 DEF PasskeyInv, HolderIsStoring
<1>14. NoKeyAfterDeactivation'
  <2> SUFFICES ASSUME NEW k \in Key, passkey'[k].owner # Nobody
               PROVE  accountActive'[passkey'[k].owner]
    BY DEF NoKeyAfterDeactivation
  <2>1. passkey'[k] = passkey[k] /\ passkey[k].owner # u
    BY <1>3, <1>4
  <2>2. passkey[k].owner \in User
    BY <2>1 DEF PasskeyInv, PasskeyTypes, KeyRows
  <2>3. accountActive[passkey[k].owner]
    BY <2>1 DEF PasskeyInv, NoKeyAfterDeactivation
  <2>4. accountActive'[passkey[k].owner] = accountActive[passkey[k].owner]
    BY <1>2, <2>1, <2>2
  <2> QED
    BY <2>1, <2>3, <2>4
<1> QED
  BY <1>6, <1>7, <1>8, <1>10, <1>11, <1>12, <1>13, <1>14 DEF PasskeyInv

\* Time: challenges and tokens age, a token at its exp is gone.
LEMMA PasskeyTickStep ==
  ASSUME PasskeyInv, PasskeyTick
  PROVE  PasskeyInv'
<1>1. UNCHANGED <<accountActive, accountLock, passkey, login>> /\ sessions' = TokensLeft
  BY DEF PasskeyTick
<1>2. challenge' = [c \in Challenge |->
        IF challenge[c].state = "live" /\ challenge[c].age < CHALLENGE_TTL
        THEN [challenge[c] EXCEPT !.age = @ + 1] ELSE challenge[c]]
  BY DEF PasskeyTick
<1>3. challenge \in [Challenge -> Unissued \cup IssuedRows]
  BY DEF PasskeyInv, PasskeyTypes
<1>4. ASSUME NEW c \in Challenge
      PROVE  /\ challenge'[c] \in Unissued \cup IssuedRows
             /\ challenge[c].state # "live" => challenge'[c] = challenge[c]
  <2>1. CASE challenge[c].state = "live" /\ challenge[c].age < CHALLENGE_TTL
    <3>1. challenge[c] \in IssuedRows
      BY <1>3, <2>1 DEF Unissued
    <3>2. [challenge[c] EXCEPT !.age = challenge[c].age + 1] \in IssuedRows
      BY <3>1 DEF IssuedRows
    <3>3. challenge'[c] = [challenge[c] EXCEPT !.age = challenge[c].age + 1]
      BY <1>2, <2>1
    <3> QED
      BY <2>1, <3>2, <3>3
  <2>2. CASE ~(challenge[c].state = "live" /\ challenge[c].age < CHALLENGE_TTL)
    <3>1. challenge'[c] = challenge[c]
      BY <1>2, <2>2
    <3> QED
      BY <1>3, <3>1
  <2> QED
    BY <2>1, <2>2
<1>5. challenge' \in [Challenge -> Unissued \cup IssuedRows]
  <2>1. challenge' = [c \in Challenge |-> challenge'[c]]
    BY <1>2
  <2> QED
    BY <1>4, <2>1
<1>6. ASSUME NEW t \in sessions'
      PROVE  /\ t \in Tokens
             /\ \E s \in sessions : /\ t = [s EXCEPT !.left = s.left - 1]
                                    /\ t.user = s.user /\ t.by = s.by /\ t.ch = s.ch
                                    /\ t.key = s.key /\ t.count = s.count
  <2>1. PICK s \in sessions : s.left > 1 /\ t = [s EXCEPT !.left = s.left - 1]
    BY <1>1 DEF TokensLeft
  <2>2. s \in Tokens
    BY DEF PasskeyInv, PasskeyTypes
  <2>3. /\ t \in Tokens /\ t.user = s.user /\ t.by = s.by /\ t.ch = s.ch
        /\ t.key = s.key /\ t.count = s.count
    BY <2>1, <2>2 DEF Tokens
  <2> QED
    BY <2>1, <2>3
<1>7. PasskeyTypes'
  BY <1>1, <1>5, <1>6 DEF PasskeyInv, PasskeyTypes
<1>8. SpentAlone'
  <2>1. \A p \in KeyRequest : login[p].pc \in Spent => login[p].ch \in Challenge
    BY BusyFacts DEF PasskeyInv, PasskeyTypes, Spent
  <2> QED
    BY <1>1, <1>4, <2>1, KeepSpent
<1>9. OneSessionPerLogin'
  <2>1. ASSUME NEW t \in sessions'
        PROVE  LET q == login[t.by] IN
               q.pc = "done" /\ q.user = t.user /\ q.ch = t.ch /\ q.key = t.key /\ q.count = t.count
    BY <1>6 DEF PasskeyInv, OneSessionPerLogin
  <2>2. ASSUME NEW s \in sessions', NEW t \in sessions', s.by = t.by
        PROVE  s = t
    <3>1. PICK s0 \in sessions : s = [s0 EXCEPT !.left = s0.left - 1] /\ s.by = s0.by
      BY <1>6
    <3>2. PICK t0 \in sessions : t = [t0 EXCEPT !.left = t0.left - 1] /\ t.by = t0.by
      BY <1>6
    <3>3. s0 = t0
      BY <2>2, <3>1, <3>2 DEF PasskeyInv, OneSessionPerLogin
    <3> QED
      BY <3>1, <3>2, <3>3
  <2> QED
    BY <1>1, <2>1, <2>2 DEF OneSessionPerLogin
<1>10. VerifiedKeyIsOwn' /\ CountersGrow' /\ NoKeyAfterDeactivation'
  BY <1>1, KeepVerified, KeepCounters, KeepKeys
<1>11. StoringHoldsAccount' /\ HolderIsStoring'
  BY <1>1, KeepStoring
<1> QED
  BY <1>7, <1>8, <1>9, <1>10, <1>11 DEF PasskeyInv

LEMMA PasskeyStutter ==
  ASSUME PasskeyInv, UNCHANGED passkeyVars
  PROVE  PasskeyInv'
<1>1. UNCHANGED <<accountActive, accountLock, challenge, passkey, login, sessions>>
  BY DEF passkeyVars
<1>2. PasskeyTypes'
  BY <1>1 DEF PasskeyInv, PasskeyTypes
<1>3. SpentAlone' /\ OneSessionPerLogin' /\ VerifiedKeyIsOwn' /\ CountersGrow' /\ NoKeyAfterDeactivation'
  BY <1>1, KeepSpent, KeepSessions, KeepVerified, KeepCounters, KeepKeys
<1>4. StoringHoldsAccount' /\ HolderIsStoring'
  BY <1>1, KeepStoring
<1> QED
  BY <1>2, <1>3, <1>4 DEF PasskeyInv

-----------------------------------------------------------------------------
(* The invariant, and what it shows. *)

LEMMA NextPasskeys ==
  ASSUME PasskeyInv, PasskeyNext
  PROVE  PasskeyInv'
<1>1. ASSUME NEW u \in User, deactivateAccount(u)
      PROVE  PasskeyInv'
  BY <1>1, DeactivateStep
<1>2. ASSUME NEW u \in User, NEW c \in Challenge, RegisterChallenge(u, c) \/ LoginChallenge(u, c)
      PROVE  PasskeyInv'
  BY <1>2, ChallengeStep DEF RegisterChallenge, LoginChallenge
<1>3. ASSUME NEW u \in User, NEW c \in Challenge, NEW k \in Key,
             NEW r \in LoginRequest, NEW n \in 0..MaxCount, LoginVerify(r, u, c, k, n)
      PROVE  PasskeyInv'
  BY <1>3, RequestSets, VerifyStep DEF LoginVerify
<1>4. ASSUME NEW u \in User, NEW c \in Challenge, NEW k \in Key,
             NEW r \in RegisterRequest, RegisterVerify(r, u, c, k)
      PROVE  PasskeyInv'
  <2>1. 0 \in 0..MaxCount
    OBVIOUS
  <2> QED
    BY <1>4, <2>1, RequestSets, VerifyStep DEF RegisterVerify
<1>5. ASSUME NEW r \in LoginRequest, LoginStep(r)
      PROVE  PasskeyInv'
  <2>1. CASE LoginConsume(r)
    BY <2>1, RequestSets, ConsumeStep DEF LoginConsume
  <2>2. CASE LoginAssert(r)
    BY <2>2, AssertStep
  <2>3. CASE updateWebauthnSignCount(r)
    BY <2>3, CountStep
  <2>4. CASE issueSession(r)
    BY <2>4, IssueStep
  <2> QED
    BY <1>5, <2>1, <2>2, <2>3, <2>4 DEF LoginStep
<1>6. ASSUME NEW r \in RegisterRequest, RegisterStep(r)
      PROVE  PasskeyInv'
  <2>1. CASE RegisterConsume(r)
    BY <2>1, RequestSets, ConsumeStep DEF RegisterConsume
  <2>2. CASE StoreLock(r)
    BY <2>2, StoreLockStep
  <2>3. CASE storeWebauthnCredential(r)
    BY <2>3, StoreStep
  <2> QED
    BY <1>6, <2>1, <2>2, <2>3 DEF RegisterStep
<1> QED
  BY <1>1, <1>2, <1>3, <1>4, <1>5, <1>6, PasskeyTickStep DEF PasskeyNext

\* auth.ts and pool.ts: what requests in flight rely on holds in every state, however
\* their steps, deactivations and time interleave.
THEOREM PasskeyInvariant == PasskeySpec => []PasskeyInv
<1>1. PasskeyInv /\ [PasskeyNext]_passkeyVars => PasskeyInv'
  BY NextPasskeys, PasskeyStutter
<1> QED
  BY <1>1, InitPasskeys, PTL DEF PasskeySpec

LEMMA LoginsAreHeld == PasskeyInv => LoginsHold
<1> SUFFICES ASSUME PasskeyInv PROVE LoginsHold
  OBVIOUS
<1>1. ASSUME NEW s \in sessions
      PROVE  /\ s.by \in LoginRequest /\ s.by \in KeyRequest
             /\ login[s.by].pc = "done" /\ login[s.by].user = s.user /\ login[s.by].ch = s.ch
             /\ login[s.by].key = s.key /\ login[s.by].count = s.count
  <2>1. s.by \in LoginRequest
    BY DEF PasskeyInv, PasskeyTypes, Tokens
  <2> QED
    BY <2>1, RequestSets DEF PasskeyInv, OneSessionPerLogin
<1>2. \A s, t \in sessions : s.by = t.by => s = t
  BY DEF PasskeyInv, OneSessionPerLogin
<1>3. OneSessionPerChallenge
  <2> SUFFICES ASSUME NEW s \in sessions
               PROVE  /\ \A t \in sessions : s.ch = t.ch => s = t
                      /\ challenge[s.ch].user = s.user /\ challenge[s.ch].purpose = "login"
                      /\ challenge[s.ch].state \in {"consumed", "deleted"}
    BY DEF OneSessionPerChallenge
  <2>1. /\ challenge[s.ch].state \in {"consumed", "deleted"}
        /\ challenge[s.ch].user = s.user /\ challenge[s.ch].purpose = "login"
        /\ \A p \in KeyRequest : login[p].pc = "done" /\ login[p].ch = s.ch => p = s.by
    BY <1>1 DEF PasskeyInv, SpentAlone, Spent
  <2> QED
    BY <1>1, <1>2, <2>1
<1>4. CloneCaught
  <2> SUFFICES ASSUME NEW s \in sessions, NEW t \in sessions,
                      s # t, s.key = t.key, s.count = t.count, s.count > 0,
                      s.user = t.user, passkey[s.key].owner = s.user
               PROVE  \E z \in LoginRequest : login[z].pc \in {"advanced", "done"} /\ login[z].count = 0
    BY DEF CloneCaught
  <2>1. s.by # t.by
    BY <1>2
  <2>2. UncountedLogin
    BY <1>1, <2>1 DEF PasskeyInv, CountersGrow, Counted
  <2> QED
    BY <2>2 DEF UncountedLogin, Counted
<1> QED
  BY <1>3, <1>4 DEF LoginsHold, PasskeyInv

\* auth.ts and pool.ts: a session was earned with a challenge nobody else used, by a key
\* that was not cloned, and a key goes with its account, for any number of accounts.
THEOREM LoginsAlwaysHold == PasskeySpec => []LoginsHold
<1> QED
  BY PasskeyInvariant, LoginsAreHeld, PTL

LEMMA PasskeyTyped == PasskeyInv => PasskeyTypeOK
<1> SUFFICES ASSUME PasskeyInv PROVE PasskeyTypeOK
  OBVIOUS
<1>1. ASSUME NEW c \in Challenge
      PROVE  challenge[c].state \in {"unissued", "live", "consumed", "deleted"}
  <2>1. challenge[c] \in Unissued \cup IssuedRows
    BY DEF PasskeyInv, PasskeyTypes
  <2> QED
    BY <2>1 DEF Unissued, IssuedRows
<1>2. ASSUME NEW r \in KeyRequest
      PROVE  login[r].pc \in KeyPcs
  <2>1. login[r] \in Quiet \cup Busy
    BY DEF PasskeyInv, PasskeyTypes
  <2> QED
    BY <2>1 DEF Quiet, Busy, KeyPcs
<1>3. \A u \in User : accountLock[u] # Nobody =>
        login[accountLock[u]].pc = "storing" /\ login[accountLock[u]].user = u /\ accountActive[u]
  BY DEF PasskeyInv, HolderIsStoring
<1> QED
  BY <1>1, <1>2, <1>3 DEF PasskeyInv, PasskeyTypes, KeyRows, PasskeyTypeOK

\* Types of passkeys: whoever holds the row of an account is storing a passkey for it,
\* and it is active.
THEOREM PasskeyTypesHold == PasskeySpec => []PasskeyTypeOK
BY PasskeyTyped, PasskeyInvariant, PTL

-----------------------------------------------------------------------------
(* Pairing. *)

CodeRows ==
  [number : Number, role : PairableRole, created_at : PairInstants,
   redeemed_at : PairInstants \cup {NotYet}, revoked_at : PairInstants \cup {NotYet},
   failed_attempts : 0..DEVICE_CODE_MAX_ATTEMPTS]
PairedRows == [via : Code, role : PairableRole, revoked_at : PairInstants \cup {NotYet}]
Creating == [op : {"create"}, role : PairableRole, number : Number]
Cancelling == [op : {"cancel"}, code : Code, now : PairInstants, held : BOOLEAN]
Redeeming == [op : {"redeem"}, rows : SUBSET Code, role : PairableRole, now : PairInstants,
              code : Code \cup {NotYet}, held : BOOLEAN]
Serving == [op : {"serve"}, device : Device]

HoldsToCancel(r) == pairReq[r].op = "cancel" /\ pairReq[r].held
HoldsToRedeem(r) == pairReq[r].op = "redeem" /\ pairReq[r].held

\* What is so of a code a device may still be paired by.
Open(c) == ~CodeCancelled(c) /\ ~CodeRedeemed(c) /\ Guessable(c)

\* pool.ts: a lock on a row is held by a request in the middle of it.
LocksAreHeld ==
  \A c \in Code : codeLock[c] # NotYet =>
    LET r == codeLock[c] IN
    \/ HoldsToCancel(r) /\ pairReq[r].code = c
    \/ HoldsToRedeem(r) /\ c \in pairReq[r].rows

\* pool.ts, cancelDevicePairingCode: whoever cancels holds a row that is there, and
\* that nobody redeemed.
CancelStands ==
  \A r \in PairRequest :
    /\ pairReq[r].op = "cancel" => Issued(pairReq[r].code)
    /\ HoldsToCancel(r) => codeLock[pairReq[r].code] = r /\ ~CodeRedeemed(pairReq[r].code)

\* pool.ts, redeemDevicePairingCode: whoever redeems holds every row matched, and the
\* one it chose is open.
RedeemStands ==
  \A r \in PairRequest :
    /\ pairReq[r].op = "redeem" => \A c \in pairReq[r].rows : Issued(c)
    /\ HoldsToRedeem(r) =>
         /\ pairReq[r].code \in pairReq[r].rows /\ Open(pairReq[r].code)
         /\ \A c \in pairReq[r].rows : codeLock[c] = r

\* A device was paired by a code that is in the table.
PairedByIssued == \A d \in Device : Paired(d) => Issued(paired_device[d].via)

PairInv ==
  /\ PairTypeOK /\ LocksAreHeld /\ CancelStands /\ RedeemStands
  /\ PairedByIssued /\ PairedOnce

HIDE PasskeyAssumption
USE PairingAssumption

-----------------------------------------------------------------------------
(* Rows and requests. *)

\* The parts of the type that are about one variable.
LEMMA PairTypes ==
  ASSUME PairTypeOK
  PROVE  /\ device_pairing_code \in [Code -> {NoCode} \cup CodeRows]
         /\ codeLock \in [Code -> PairRequest \cup {NotYet}]
         /\ paired_device \in [Device -> {NoDevice} \cup PairedRows]
         /\ pairReq \in [PairRequest -> PairRequests] /\ pairClock \in PairInstants
BY DEF PairTypeOK, CodeRows, PairedRows

\* No row is told from a row by the columns it lacks.
LEMMA NoRows == NoCode \notin CodeRows /\ NoDevice \notin PairedRows
<1>1. NoCode \notin CodeRows
  <2> SUFFICES ASSUME NoCode \in CodeRows PROVE FALSE
    OBVIOUS
  <2>1. DOMAIN NoCode = {"number"}
    BY DEF NoCode
  <2>2. DOMAIN NoCode = {"number", "role", "created_at", "redeemed_at", "revoked_at", "failed_attempts"}
    BY DEF CodeRows
  <2> QED
    BY <2>1, <2>2
<1>2. NoDevice \notin PairedRows
  <2> SUFFICES ASSUME NoDevice \in PairedRows PROVE FALSE
    OBVIOUS
  <2>1. DOMAIN NoDevice = {"via"}
    BY DEF NoDevice
  <2>2. DOMAIN NoDevice = {"via", "role", "revoked_at"}
    BY DEF PairedRows
  <2> QED
    BY <2>1, <2>2
<1> QED
  BY <1>1, <1>2

LEMMA NotYetIsNoInstant == NotYet \notin PairInstants /\ NotYet \notin PairRequest
BY DEF PairInstants

LEMMA RequestKinds == PairRequests = {PairIdle} \cup Creating \cup Cancelling \cup Redeeming \cup Serving
BY DEF PairRequests, Creating, Cancelling, Redeeming, Serving

\* A request is of one kind, told from the others by its op.
LEMMA RequestFacts ==
  ASSUME NEW q \in PairRequests
  PROVE  /\ q.op = "create" => q \in Creating
         /\ q.op = "cancel" => q \in Cancelling
         /\ q.op = "redeem" => q \in Redeeming
         /\ q = PairIdle => q.op = "none"
<1>1. CASE q = PairIdle
  BY <1>1 DEF PairIdle
<1>2. CASE q \in Creating
  BY <1>2 DEF Creating, PairIdle
<1>3. CASE q \in Cancelling
  BY <1>3 DEF Cancelling, PairIdle
<1>4. CASE q \in Redeeming
  BY <1>4 DEF Redeeming, PairIdle
<1>5. CASE q \in Serving
  BY <1>5 DEF Serving, PairIdle
<1> QED
  BY <1>1, <1>2, <1>3, <1>4, <1>5, RequestKinds

LEMMA CancelFacts ==
  ASSUME NEW q \in Cancelling
  PROVE  /\ q.op = "cancel" /\ q.code \in Code /\ q.now \in PairInstants
         /\ LET p == [q EXCEPT !.held = TRUE] IN
            p \in Cancelling /\ p.op = "cancel" /\ p.code = q.code
<1>1. q.op = "cancel" /\ q.code \in Code /\ q.now \in PairInstants
  BY DEF Cancelling
<1>2. [q EXCEPT !.held = TRUE] \in Cancelling
  BY Zenon DEF Cancelling
<1>3. [q EXCEPT !.held = TRUE].op = q.op /\ [q EXCEPT !.held = TRUE].code = q.code
  BY DEF Cancelling
<1> QED
  BY <1>1, <1>2, <1>3

LEMMA RedeemFacts ==
  ASSUME NEW q \in Redeeming
  PROVE  /\ q.op = "redeem" /\ q.rows \subseteq Code /\ q.role \in PairableRole /\ q.now \in PairInstants
         /\ \A c \in Code :
              LET p == [q EXCEPT !.held = TRUE, !.code = c] IN
              p \in Redeeming /\ p.op = "redeem" /\ p.rows = q.rows /\ p.code = c
<1>1. q.op = "redeem" /\ q.rows \subseteq Code /\ q.role \in PairableRole /\ q.now \in PairInstants
  BY DEF Redeeming
<1> SUFFICES ASSUME NEW c \in Code
             PROVE  LET p == [q EXCEPT !.held = TRUE, !.code = c] IN
                    p \in Redeeming /\ p.op = "redeem" /\ p.rows = q.rows /\ p.code = c
  BY <1>1
<1>2. [q EXCEPT !.held = TRUE, !.code = c] \in Redeeming
  BY DEF Redeeming
<1>3. /\ [q EXCEPT !.held = TRUE, !.code = c].op = q.op
      /\ [q EXCEPT !.held = TRUE, !.code = c].rows = q.rows
      /\ [q EXCEPT !.held = TRUE, !.code = c].code = c
  BY DEF Redeeming
<1> QED
  BY <1>1, <1>2, <1>3

-----------------------------------------------------------------------------
(* Initial states. *)

LEMMA InitPairing == PairInit => PairInv
<1> SUFFICES ASSUME PairInit PROVE PairInv
  OBVIOUS
<1> USE DEF PairInit
<1>1. \A c \in Code : codeLock[c] = NotYet
  OBVIOUS
<1>2. \A r \in PairRequest : pairReq[r].op = "none"
  BY DEF PairIdle
<1>3. \A d \in Device : ~Paired(d)
  BY DEF Paired
<1>4. PairTypeOK
  <2>1. PairIdle \in PairRequests /\ 0 \in PairInstants
    BY DEF PairRequests, PairInstants
  <2>2. pairReq \in [PairRequest -> PairRequests] /\ pairClock \in PairInstants
    BY <2>1
  <2> QED
    BY <1>1, <2>2 DEF PairTypeOK
<1>5. LocksAreHeld /\ CancelStands /\ RedeemStands
  BY <1>1, <1>2 DEF LocksAreHeld, CancelStands, RedeemStands, HoldsToCancel, HoldsToRedeem
<1>6. PairedByIssued /\ PairedOnce
  BY <1>3 DEF PairedByIssued, PairedOnce
<1> QED
  BY <1>4, <1>5, <1>6 DEF PairInv

-----------------------------------------------------------------------------
(* Steps. *)

\* What is true of devices depends on the two tables alone.
LEMMA TablesUntouched ==
  ASSUME PairInv, UNCHANGED <<device_pairing_code, paired_device>>
  PROVE  PairedByIssued' /\ PairedOnce'
BY DEF PairInv, PairedByIssued, PairedOnce, Paired, Issued, CodeRedeemed, CodeCancelled

\* A step of a request that holds no row, before and after.
LEMMA QuietStep ==
  ASSUME PairInv, NEW r \in PairRequest, NEW q \in PairRequests,
         pairReq' = [pairReq EXCEPT ![r] = q],
         ~HoldsToCancel(r), ~HoldsToRedeem(r),
         q.op = "cancel" => ~q.held /\ Issued(q.code),
         q.op = "redeem" => ~q.held /\ \A c \in q.rows : Issued(c),
         UNCHANGED <<device_pairing_code, codeLock, paired_device, pairClock>>
  PROVE  PairInv'
<1>1. pairReq \in [PairRequest -> PairRequests]
  BY PairTypes DEF PairInv
<1>2. /\ pairReq' \in [PairRequest -> PairRequests] /\ pairReq'[r] = q
      /\ \A p \in PairRequest : p # r => pairReq'[p] = pairReq[p]
  BY <1>1
<1>3. ASSUME NEW p \in PairRequest
      PROVE  /\ HoldsToCancel(p)' => p # r /\ HoldsToCancel(p) /\ pairReq'[p] = pairReq[p]
             /\ HoldsToRedeem(p)' => p # r /\ HoldsToRedeem(p) /\ pairReq'[p] = pairReq[p]
  <2>1. CASE p = r
    <3>1. pairReq'[p] = q
      BY <1>2, <2>1
    <3> QED
      BY <3>1, Zenon DEF HoldsToCancel, HoldsToRedeem
  <2>2. CASE p # r
    <3>1. pairReq'[p] = pairReq[p]
      BY <1>2, <2>2
    <3> QED
      BY <3>1, <2>2, Zenon DEF HoldsToCancel, HoldsToRedeem
  <2> QED
    BY <2>1, <2>2
<1>4. LocksAreHeld'
  <2> SUFFICES ASSUME NEW c \in Code, codeLock'[c] # NotYet
               PROVE  LET p == codeLock'[c] IN
                      \/ pairReq'[p].op = "cancel" /\ pairReq'[p].held /\ pairReq'[p].code = c
                      \/ pairReq'[p].op = "redeem" /\ pairReq'[p].held /\ c \in pairReq'[p].rows
    BY DEF LocksAreHeld, HoldsToCancel, HoldsToRedeem
  <2>1. PICK p \in PairRequest : codeLock[c] = p /\ codeLock'[c] = p
    BY PairTypes DEF PairInv
  <2>2. \/ HoldsToCancel(p) /\ pairReq[p].code = c
        \/ HoldsToRedeem(p) /\ c \in pairReq[p].rows
    <3>1. codeLock[c] # NotYet /\ LocksAreHeld
      BY <2>1 DEF PairInv
    <3>2. LET o == codeLock[c] IN
          \/ HoldsToCancel(o) /\ pairReq[o].code = c
          \/ HoldsToRedeem(o) /\ c \in pairReq[o].rows
      BY <3>1 DEF LocksAreHeld
    <3> QED
      BY <2>1, <3>2
  <2>3. p # r
    BY <2>2
  <2>4. pairReq'[p] = pairReq[p]
    BY <1>2, <2>1, <2>3
  <2>5. (HoldsToCancel(p) => HoldsToCancel(p)') /\ (HoldsToRedeem(p) => HoldsToRedeem(p)')
    BY <2>4, Zenon DEF HoldsToCancel, HoldsToRedeem
  <2>6. \/ HoldsToCancel(p)' /\ pairReq'[p].code = c
        \/ HoldsToRedeem(p)' /\ c \in pairReq'[p].rows
    BY <2>2, <2>4, <2>5
  <2> QED
    BY <2>1, <2>6 DEF HoldsToCancel, HoldsToRedeem
<1>5. CancelStands'
  <2> SUFFICES ASSUME NEW p \in PairRequest
               PROVE  /\ pairReq'[p].op = "cancel" => device_pairing_code'[pairReq'[p].code] # NoCode
                      /\ HoldsToCancel(p)' => /\ codeLock'[pairReq'[p].code] = p
                                              /\ ~(device_pairing_code'[pairReq'[p].code].redeemed_at # NotYet)
    BY DEF CancelStands, Issued, CodeRedeemed
  <2>1. pairReq'[p].op = "cancel" => device_pairing_code'[pairReq'[p].code] # NoCode
    BY <1>2 DEF PairInv, CancelStands, Issued
  <2>2. ASSUME HoldsToCancel(p)'
        PROVE  /\ codeLock'[pairReq'[p].code] = p
               /\ ~(device_pairing_code'[pairReq'[p].code].redeemed_at # NotYet)
    <3>1. HoldsToCancel(p) /\ pairReq'[p] = pairReq[p]
      BY <1>3, <2>2
    <3> QED
      BY <3>1 DEF PairInv, CancelStands, CodeRedeemed
  <2> QED
    BY <2>1, <2>2
<1>6. RedeemStands'
  <2>1. ASSUME NEW p \in PairRequest, pairReq'[p].op = "redeem", NEW c \in pairReq'[p].rows
        PROVE  device_pairing_code'[c] # NoCode
    BY <1>2, <2>1 DEF PairInv, RedeemStands, Issued
  <2>2. ASSUME NEW p \in PairRequest, HoldsToRedeem(p)'
        PROVE  /\ pairReq'[p].code \in pairReq'[p].rows /\ Open(pairReq[p].code)
               /\ pairReq'[p] = pairReq[p]
               /\ \A c \in pairReq'[p].rows : codeLock'[c] = p
    BY <1>3, <2>2 DEF PairInv, RedeemStands
  <2> QED
    BY <2>1, <2>2 DEF RedeemStands, Issued, Open, CodeCancelled, CodeRedeemed, Guessable
<1>7. PairedByIssued' /\ PairedOnce'
  BY TablesUntouched
<1>8. PairTypeOK'
  BY <1>2, <1>4 DEF PairInv, PairTypeOK, LocksAreHeld, HoldsToCancel, HoldsToRedeem
<1> QED
  BY <1>4, <1>5, <1>6, <1>7, <1>8 DEF PairInv

LEMMA IdleFacts == PairIdle \in PairRequests /\ PairIdle.op = "none"
BY DEF PairRequests, PairIdle

LEMMA AskStep ==
  ASSUME PairInv, NEW r \in PairRequest, PairAsk(r)
  PROVE  PairInv'
<1>1. ASSUME pairReq[r] = PairIdle
      PROVE  ~HoldsToCancel(r) /\ ~HoldsToRedeem(r)
  BY <1>1, IdleFacts DEF HoldsToCancel, HoldsToRedeem
<1>2. ASSUME NEW role \in PairableRole, NEW n \in Number, PickNumber(r, role, n)
      PROVE  PairInv'
  <2> DEFINE q == [op |-> "create", role |-> role, number |-> n]
  <2>1. q \in PairRequests /\ q.op = "create"
    BY DEF PairRequests
  <2>2. /\ pairReq' = [pairReq EXCEPT ![r] = q] /\ pairReq[r] = PairIdle
        /\ UNCHANGED <<device_pairing_code, codeLock, paired_device, pairClock>>
    BY <1>2 DEF PickNumber, PairGo
  <2> HIDE DEF q
  <2> QED
    BY <1>1, <2>1, <2>2, QuietStep
<1>3. ASSUME NEW rows \in SUBSET Code, NEW role \in PairableRole, AskRedeem(r, rows, role),
             \A c \in rows : Issued(c)
      PROVE  PairInv'
  <2> DEFINE q == [op |-> "redeem", rows |-> rows, role |-> role, now |-> pairClock,
                   code |-> NotYet, held |-> FALSE]
  <2>1. q \in PairRequests
    BY PairTypes DEF PairRequests, PairInv
  <2>2. q.op = "redeem" /\ q.rows = rows /\ ~q.held
    OBVIOUS
  <2>3. /\ pairReq' = [pairReq EXCEPT ![r] = q] /\ pairReq[r] = PairIdle
        /\ UNCHANGED <<device_pairing_code, codeLock, paired_device, pairClock>>
    BY <1>3 DEF AskRedeem, PairGo
  <2> HIDE DEF q
  <2>4. q.op # "cancel" /\ \A c \in q.rows : Issued(c)
    BY <1>3, <2>2
  <2> QED
    BY <1>1, <2>1, <2>2, <2>3, <2>4, QuietStep
<1>4. ASSUME NEW c \in Code, AskCancel(r, c)
      PROVE  PairInv'
  <2> DEFINE q == [op |-> "cancel", code |-> c, now |-> pairClock, held |-> FALSE]
  <2>1. q \in PairRequests
    BY PairTypes DEF PairRequests, PairInv
  <2>2. q.op = "cancel" /\ q.code = c /\ ~q.held
    OBVIOUS
  <2>3. /\ pairReq' = [pairReq EXCEPT ![r] = q] /\ pairReq[r] = PairIdle /\ Issued(c)
        /\ UNCHANGED <<device_pairing_code, codeLock, paired_device, pairClock>>
    BY <1>4 DEF AskCancel, PairGo
  <2> HIDE DEF q
  <2>4. q.op # "redeem" /\ Issued(q.code)
    BY <2>2, <2>3
  <2> QED
    BY <1>1, <2>1, <2>2, <2>3, <2>4, QuietStep
<1>5. ASSUME NEW d \in Device, DeviceAsks(r, d)
      PROVE  PairInv'
  <2> DEFINE q == [op |-> "serve", device |-> d]
  <2>1. q \in PairRequests /\ q.op = "serve"
    BY DEF PairRequests
  <2>2. /\ pairReq' = [pairReq EXCEPT ![r] = q] /\ pairReq[r] = PairIdle
        /\ UNCHANGED <<device_pairing_code, codeLock, paired_device, pairClock>>
    BY <1>5 DEF DeviceAsks, PairGo
  <2> HIDE DEF q
  <2> QED
    BY <1>1, <2>1, <2>2, QuietStep
<1>6. \A n \in Number : Matches(n) \in SUBSET Code /\ \A c \in Matches(n) : Issued(c)
  BY DEF Matches
<1>7. "child" \in PairableRole /\ "guardian" \in PairableRole
  BY DEF PairableRole
<1>8. CASE \E n \in Number : ChildCodeRoute(r, n) \/ MeCodeRoute(r, n)
  BY <1>2, <1>7, <1>8 DEF ChildCodeRoute, MeCodeRoute
<1>9. CASE \E role \in PairableRole :
             \/ \E n \in Number : Matches(n) # {} /\ AskRedeem(r, Matches(n), role)
             \/ \E c \in Code : Issued(c) /\ AskRedeem(r, {c}, role)
  BY <1>3, <1>6, <1>9, ZenonT(40)
<1> QED
  BY <1>4, <1>5, <1>8, <1>9 DEF PairAsk

LEMMA ServedStep ==
  ASSUME PairInv, NEW r \in PairRequest, DeviceServed(r)
  PROVE  PairInv'
<1>1. ~HoldsToCancel(r) /\ ~HoldsToRedeem(r)
  BY DEF DeviceServed, HoldsToCancel, HoldsToRedeem
<1>2. /\ pairReq' = [pairReq EXCEPT ![r] = PairIdle]
      /\ UNCHANGED <<device_pairing_code, codeLock, paired_device, pairClock>>
  BY DEF DeviceServed, PairGo
<1>3. PairIdle \in PairRequests /\ PairIdle.op # "cancel" /\ PairIdle.op # "redeem"
  BY IdleFacts
<1> QED
  BY <1>1, <1>2, <1>3, QuietStep

\* pool.ts: a request locks the rows it will decide by, all of them free.
LEMMA TakeStep ==
  ASSUME PairInv, NEW r \in PairRequest, NEW q \in PairRequests, NEW L \in SUBSET Code,
         pairReq' = [pairReq EXCEPT ![r] = q],
         codeLock' = [c \in Code |-> IF c \in L THEN r ELSE codeLock[c]],
         \A c \in L : codeLock[c] = NotYet,
         ~HoldsToCancel(r), ~HoldsToRedeem(r),
         q.held, q.op \in {"cancel", "redeem"},
         q.op = "cancel" => L = {q.code} /\ Issued(q.code) /\ ~CodeRedeemed(q.code),
         q.op = "redeem" => L = q.rows /\ q.code \in q.rows /\ Open(q.code) /\ \A c \in q.rows : Issued(c),
         UNCHANGED <<device_pairing_code, paired_device, pairClock>>
  PROVE  PairInv'
<1>1. pairReq \in [PairRequest -> PairRequests] /\ codeLock \in [Code -> PairRequest \cup {NotYet}]
  BY PairTypes DEF PairInv
<1>2. /\ pairReq' \in [PairRequest -> PairRequests] /\ pairReq'[r] = q
      /\ \A p \in PairRequest : p # r => pairReq'[p] = pairReq[p]
  BY <1>1
<1>3. /\ codeLock' \in [Code -> PairRequest \cup {NotYet}]
      /\ \A c \in L : codeLock'[c] = r
      /\ \A c \in Code : c \notin L => codeLock'[c] = codeLock[c]
  BY <1>1
<1>4. ASSUME NEW p \in PairRequest, p # r
      PROVE  /\ HoldsToCancel(p)' => HoldsToCancel(p) /\ pairReq'[p] = pairReq[p]
             /\ HoldsToRedeem(p)' => HoldsToRedeem(p) /\ pairReq'[p] = pairReq[p]
  <2>1. pairReq'[p] = pairReq[p]
    BY <1>2, <1>4
  <2> QED
    BY <2>1, Zenon DEF HoldsToCancel, HoldsToRedeem
<1>5. LocksAreHeld'
  <2> SUFFICES ASSUME NEW c \in Code, codeLock'[c] # NotYet
               PROVE  LET p == codeLock'[c] IN
                      \/ pairReq'[p].op = "cancel" /\ pairReq'[p].held /\ pairReq'[p].code = c
                      \/ pairReq'[p].op = "redeem" /\ pairReq'[p].held /\ c \in pairReq'[p].rows
    BY DEF LocksAreHeld, HoldsToCancel, HoldsToRedeem
  <2>1. CASE c \in L
    <3>1. codeLock'[c] = r /\ pairReq'[r] = q
      BY <1>2, <1>3, <2>1
    <3>2. CASE q.op = "cancel"
      <4>1. q.code = c
        BY <2>1, <3>2
      <4> QED
        BY <3>1, <3>2, <4>1, Zenon
    <3>3. CASE q.op = "redeem"
      <4>1. c \in q.rows
        BY <2>1, <3>3
      <4> QED
        BY <3>1, <3>3, <4>1, Zenon
    <3> QED
      BY <3>2, <3>3
  <2>2. CASE c \notin L
    <3>1. PICK p \in PairRequest : codeLock[c] = p /\ codeLock'[c] = p
      BY <1>1, <1>3, <2>2
    <3>2. \/ HoldsToCancel(p) /\ pairReq[p].code = c
          \/ HoldsToRedeem(p) /\ c \in pairReq[p].rows
      <4>1. codeLock[c] # NotYet /\ LocksAreHeld
        BY <3>1 DEF PairInv
      <4>2. LET o == codeLock[c] IN
            \/ HoldsToCancel(o) /\ pairReq[o].code = c
            \/ HoldsToRedeem(o) /\ c \in pairReq[o].rows
        BY <4>1 DEF LocksAreHeld
      <4> QED
        BY <3>1, <4>2
    <3>3. p # r
      BY <3>2
    <3>4. pairReq'[p] = pairReq[p]
      BY <1>2, <3>3
    <3> QED
      BY <3>1, <3>2, <3>4, Zenon DEF HoldsToCancel, HoldsToRedeem
  <2> QED
    BY <2>1, <2>2
<1>6. CancelStands'
  <2> SUFFICES ASSUME NEW p \in PairRequest
               PROVE  /\ pairReq'[p].op = "cancel" => device_pairing_code'[pairReq'[p].code] # NoCode
                      /\ HoldsToCancel(p)' => /\ codeLock'[pairReq'[p].code] = p
                                              /\ ~(device_pairing_code'[pairReq'[p].code].redeemed_at # NotYet)
    BY DEF CancelStands, Issued, CodeRedeemed
  <2>1. CASE p = r
    <3>1. pairReq'[p] = q /\ (HoldsToCancel(p)' => q.op = "cancel")
      BY <1>2, <2>1 DEF HoldsToCancel
    <3>2. q.op = "cancel" => q.code \in L
      OBVIOUS
    <3> QED
      BY <1>3, <2>1, <3>1, <3>2 DEF Issued, CodeRedeemed
  <2>2. CASE p # r
    <3>1. pairReq'[p].op = "cancel" => device_pairing_code'[pairReq'[p].code] # NoCode
      BY <1>2, <2>2 DEF PairInv, CancelStands, Issued
    <3>2. ASSUME HoldsToCancel(p)'
          PROVE  /\ codeLock'[pairReq'[p].code] = p
                 /\ ~(device_pairing_code'[pairReq'[p].code].redeemed_at # NotYet)
      <4>1. HoldsToCancel(p) /\ pairReq'[p] = pairReq[p]
        BY <1>4, <2>2, <3>2
      <4>2. codeLock[pairReq[p].code] = p /\ ~CodeRedeemed(pairReq[p].code)
        BY <4>1 DEF PairInv, CancelStands
      <4>3. pairReq[p].code \in Code
        BY <1>1, <4>1, RequestFacts, CancelFacts DEF HoldsToCancel
      <4>4. pairReq[p].code \notin L
        BY <4>2, NotYetIsNoInstant
      <4> QED
        BY <1>3, <4>1, <4>2, <4>3, <4>4 DEF CodeRedeemed
    <3> QED
      BY <3>1, <3>2
  <2> QED
    BY <2>1, <2>2
<1>7. RedeemStands'
  <2>1. ASSUME NEW p \in PairRequest, pairReq'[p].op = "redeem", NEW c \in pairReq'[p].rows
        PROVE  device_pairing_code'[c] # NoCode
    BY <1>2, <2>1 DEF PairInv, RedeemStands, Issued
  <2>2. ASSUME NEW p \in PairRequest, HoldsToRedeem(p)'
        PROVE  /\ pairReq'[p].code \in pairReq'[p].rows
               /\ \A c : c = pairReq'[p].code => Open(c)
               /\ \A c \in pairReq'[p].rows : codeLock'[c] = p
    <3>1. CASE p = r
      <4>1. pairReq'[p] = q /\ q.op = "redeem"
        BY <1>2, <2>2, <3>1 DEF HoldsToRedeem
      <4> QED
        BY <1>3, <3>1, <4>1
    <3>2. CASE p # r
      <4>1. HoldsToRedeem(p) /\ pairReq'[p] = pairReq[p]
        BY <1>4, <2>2, <3>2
      <4>2. /\ pairReq[p].code \in pairReq[p].rows /\ Open(pairReq[p].code)
            /\ \A c \in pairReq[p].rows : codeLock[c] = p
        BY <4>1 DEF PairInv, RedeemStands
      <4>3. pairReq[p].rows \subseteq Code
        BY <1>1, <4>1, RequestFacts, RedeemFacts DEF HoldsToRedeem
      <4>4. \A c \in pairReq[p].rows : c \notin L
        BY <4>2, NotYetIsNoInstant
      <4> QED
        BY <1>3, <4>1, <4>2, <4>3, <4>4
    <3> QED
      BY <3>1, <3>2
  <2> QED
    BY <2>1, <2>2 DEF RedeemStands, Issued, Open, CodeCancelled, CodeRedeemed, Guessable
<1>8. PairedByIssued' /\ PairedOnce'
  BY TablesUntouched
<1>9. PairTypeOK'
  BY <1>2, <1>3, <1>5 DEF PairInv, PairTypeOK, LocksAreHeld, HoldsToCancel, HoldsToRedeem
<1> QED
  BY <1>5, <1>6, <1>7, <1>8, <1>9 DEF PairInv

\* A request that holds rows writes the one it decided on and commits: what the
\* others hold is not touched.
LEMMA CommitStep ==
  ASSUME PairInv, NEW r \in PairRequest, PairCommit(r), HoldsToCancel(r) \/ HoldsToRedeem(r),
         NEW row \in CodeRows,
         device_pairing_code' = [device_pairing_code EXCEPT ![pairReq[r].code] = row]
  PROVE  /\ LocksAreHeld' /\ CancelStands' /\ RedeemStands'
         /\ device_pairing_code' \in [Code -> {NoCode} \cup CodeRows]
         /\ codeLock' \in [Code -> PairRequest \cup {NotYet}]
         /\ pairReq' \in [PairRequest -> PairRequests]
<1> DEFINE k == pairReq[r].code
<1>1. /\ pairReq \in [PairRequest -> PairRequests]
      /\ codeLock \in [Code -> PairRequest \cup {NotYet}]
      /\ device_pairing_code \in [Code -> {NoCode} \cup CodeRows]
  BY PairTypes DEF PairInv
<1>2. k \in Code /\ codeLock[k] = r
  <2>1. CASE HoldsToCancel(r)
    BY <1>1, <2>1, RequestFacts, CancelFacts DEF PairInv, CancelStands, HoldsToCancel
  <2>2. CASE HoldsToRedeem(r)
    BY <1>1, <2>2, RequestFacts, RedeemFacts, ZenonT(40) DEF PairInv, RedeemStands, HoldsToRedeem
  <2> QED
    BY <2>1, <2>2
<1>3. device_pairing_code' = [device_pairing_code EXCEPT ![k] = row]
  OBVIOUS
<1> HIDE DEF k
<1>4. /\ device_pairing_code' \in [Code -> {NoCode} \cup CodeRows] /\ device_pairing_code'[k] = row
      /\ \A c \in Code : c # k => device_pairing_code'[c] = device_pairing_code[c]
  <2> DEFINE T == {NoCode} \cup CodeRows
  <2>1. row \in T /\ device_pairing_code \in [Code -> T]
    BY <1>1
  <2> HIDE DEF T
  <2>2. /\ device_pairing_code' \in [Code -> T] /\ device_pairing_code'[k] = row
        /\ \A c \in Code : c # k => device_pairing_code'[c] = device_pairing_code[c]
    BY <1>2, <1>3, <2>1
  <2> QED
    BY <2>2 DEF T
<1>5. /\ pairReq' \in [PairRequest -> PairRequests] /\ pairReq'[r] = PairIdle
      /\ \A p \in PairRequest : p # r => pairReq'[p] = pairReq[p]
  BY <1>1, IdleFacts DEF PairCommit, PairGo
<1>6. codeLock' = [c \in Code |-> IF codeLock[c] = r THEN NotYet ELSE codeLock[c]]
  BY DEF PairCommit
<1>7. /\ codeLock' \in [Code -> PairRequest \cup {NotYet}]
      /\ \A c \in Code : codeLock[c] # r => codeLock'[c] = codeLock[c]
      /\ \A c \in Code : codeLock'[c] # NotYet => codeLock'[c] = codeLock[c] /\ codeLock[c] # r
  BY <1>1, <1>6
<1>8. ASSUME NEW p \in PairRequest
      PROVE  /\ HoldsToCancel(p)' => p # r /\ HoldsToCancel(p) /\ pairReq'[p] = pairReq[p]
             /\ HoldsToRedeem(p)' => p # r /\ HoldsToRedeem(p) /\ pairReq'[p] = pairReq[p]
  <2>1. CASE p = r
    <3>1. pairReq'[p].op = "none"
      BY <1>5, <2>1, IdleFacts
    <3> QED
      BY <3>1 DEF HoldsToCancel, HoldsToRedeem
  <2>2. CASE p # r
    <3>1. pairReq'[p] = pairReq[p]
      BY <1>5, <2>2
    <3> QED
      BY <3>1, <2>2, Zenon DEF HoldsToCancel, HoldsToRedeem
  <2> QED
    BY <2>1, <2>2
<1>9. \A c \in Code : Issued(c) => device_pairing_code'[c] # NoCode
  BY <1>4, NoRows DEF Issued
<1>10. LocksAreHeld'
  <2> SUFFICES ASSUME NEW c \in Code, codeLock'[c] # NotYet
               PROVE  LET p == codeLock'[c] IN
                      \/ pairReq'[p].op = "cancel" /\ pairReq'[p].held /\ pairReq'[p].code = c
                      \/ pairReq'[p].op = "redeem" /\ pairReq'[p].held /\ c \in pairReq'[p].rows
    BY DEF LocksAreHeld, HoldsToCancel, HoldsToRedeem
  <2>1. PICK p \in PairRequest : codeLock[c] = p /\ codeLock'[c] = p /\ p # r
    BY <1>7
  <2>2. \/ HoldsToCancel(p) /\ pairReq[p].code = c
        \/ HoldsToRedeem(p) /\ c \in pairReq[p].rows
    <3>1. codeLock[c] # NotYet /\ LocksAreHeld
      BY <2>1 DEF PairInv
    <3>2. LET o == codeLock[c] IN
          \/ HoldsToCancel(o) /\ pairReq[o].code = c
          \/ HoldsToRedeem(o) /\ c \in pairReq[o].rows
      BY <3>1 DEF LocksAreHeld
    <3> QED
      BY <2>1, <3>2
  <2>3. pairReq'[p] = pairReq[p]
    BY <1>5, <2>1
  <2> QED
    BY <2>1, <2>2, <2>3, Zenon DEF HoldsToCancel, HoldsToRedeem
<1>11. CancelStands'
  <2> SUFFICES ASSUME NEW p \in PairRequest
               PROVE  /\ pairReq'[p].op = "cancel" => device_pairing_code'[pairReq'[p].code] # NoCode
                      /\ HoldsToCancel(p)' => /\ codeLock'[pairReq'[p].code] = p
                                              /\ ~(device_pairing_code'[pairReq'[p].code].redeemed_at # NotYet)
    BY DEF CancelStands, Issued, CodeRedeemed
  <2>1. ASSUME pairReq'[p].op = "cancel"
        PROVE  device_pairing_code'[pairReq'[p].code] # NoCode
    <3>1. pairReq'[p] = pairReq[p]
      BY <1>5, <2>1, IdleFacts
    <3>2. pairReq[p].code \in Code /\ Issued(pairReq[p].code)
      BY <1>1, <2>1, <3>1, RequestFacts, CancelFacts DEF PairInv, CancelStands
    <3> QED
      BY <1>9, <3>1, <3>2
  <2>2. ASSUME HoldsToCancel(p)'
        PROVE  /\ codeLock'[pairReq'[p].code] = p
               /\ ~(device_pairing_code'[pairReq'[p].code].redeemed_at # NotYet)
    <3>1. p # r /\ HoldsToCancel(p) /\ pairReq'[p] = pairReq[p]
      BY <1>8, <2>2
    <3>2. codeLock[pairReq[p].code] = p /\ ~CodeRedeemed(pairReq[p].code)
      BY <3>1 DEF PairInv, CancelStands
    <3>3. pairReq[p].code \in Code
      BY <1>1, <3>1, RequestFacts, CancelFacts DEF HoldsToCancel
    <3>4. pairReq[p].code # k
      BY <1>2, <3>1, <3>2
    <3> QED
      BY <1>4, <1>7, <3>1, <3>2, <3>3, <3>4 DEF CodeRedeemed
  <2> QED
    BY <2>1, <2>2
<1>12. RedeemStands'
  <2>1. ASSUME NEW p \in PairRequest, pairReq'[p].op = "redeem", NEW c \in pairReq'[p].rows
        PROVE  device_pairing_code'[c] # NoCode
    <3>1. pairReq'[p] = pairReq[p]
      BY <1>5, <2>1, IdleFacts
    <3>2. c \in Code /\ Issued(c)
      BY <1>1, <2>1, <3>1, RequestFacts, RedeemFacts, ZenonT(40) DEF PairInv, RedeemStands
    <3> QED
      BY <1>9, <3>2
  <2>2. ASSUME NEW p \in PairRequest, HoldsToRedeem(p)'
        PROVE  /\ pairReq'[p].code \in pairReq'[p].rows
               /\ \A c : c = pairReq'[p].code =>
                    Open(c) /\ device_pairing_code'[c] = device_pairing_code[c]
               /\ \A c \in pairReq'[p].rows : codeLock'[c] = p
    <3>1. p # r /\ HoldsToRedeem(p) /\ pairReq'[p] = pairReq[p]
      BY <1>8, <2>2
    <3>2. /\ pairReq[p].code \in pairReq[p].rows /\ Open(pairReq[p].code)
          /\ \A c \in pairReq[p].rows : codeLock[c] = p
      BY <3>1 DEF PairInv, RedeemStands
    <3>3. pairReq[p].rows \subseteq Code
      BY <1>1, <3>1, RequestFacts, RedeemFacts DEF HoldsToRedeem
    <3>4. \A c \in pairReq[p].rows : c # k
      BY <1>2, <3>1, <3>2
    <3> QED
      BY <1>4, <1>7, <3>1, <3>2, <3>3, <3>4
  <2>3. ASSUME NEW p \in PairRequest, HoldsToRedeem(p)'
        PROVE  LET new == device_pairing_code'[pairReq'[p].code] IN
               /\ ~(new.revoked_at # NotYet) /\ ~(new.redeemed_at # NotYet)
               /\ new.failed_attempts < DEVICE_CODE_MAX_ATTEMPTS
    BY <2>2, <2>3 DEF Open, CodeCancelled, CodeRedeemed, Guessable
  <2> QED
    BY <2>1, <2>2, <2>3 DEF RedeemStands, Issued, Open, CodeCancelled, CodeRedeemed, Guessable
<1> QED
  BY <1>4, <1>5, <1>7, <1>10, <1>11, <1>12

\* A request that holds rows has not redeemed the one it decided on: no device was
\* paired by it.
LEMMA HolderFacts ==
  ASSUME PairInv, NEW r \in PairRequest, HoldsToCancel(r) \/ HoldsToRedeem(r)
  PROVE  LET k == pairReq[r].code IN
         /\ k \in Code /\ pairReq[r].now \in PairInstants
         /\ device_pairing_code[k] \in CodeRows
         /\ ~CodeRedeemed(k)
         /\ \A d \in Device : Paired(d) => paired_device[d].via # k
<1> DEFINE k == pairReq[r].code
<1>1. /\ pairReq \in [PairRequest -> PairRequests]
      /\ device_pairing_code \in [Code -> {NoCode} \cup CodeRows]
  BY PairTypes DEF PairInv
<1>2. k \in Code /\ pairReq[r].now \in PairInstants /\ Issued(k) /\ ~CodeRedeemed(k)
  <2>1. CASE HoldsToCancel(r)
    BY <1>1, <2>1, RequestFacts, CancelFacts DEF PairInv, CancelStands, HoldsToCancel
  <2>2. CASE HoldsToRedeem(r)
    BY <1>1, <2>2, RequestFacts, RedeemFacts, ZenonT(40) DEF PairInv, RedeemStands, HoldsToRedeem, Open
  <2> QED
    BY <2>1, <2>2
<1>3. device_pairing_code[k] \in CodeRows
  BY <1>1, <1>2 DEF Issued
<1>4. \A d \in Device : Paired(d) => paired_device[d].via # k
  BY <1>2 DEF PairInv, PairedOnce
<1> QED
  BY <1>2, <1>3, <1>4

\* Writing a code by which nothing was paired leaves the devices as they were.
LEMMA DevicesKept ==
  ASSUME PairInv, NEW k \in Code, NEW row \in CodeRows,
         \A d \in Device : Paired(d) => paired_device[d].via # k,
         device_pairing_code' = [device_pairing_code EXCEPT ![k] = row]
  PROVE  \A d \in Device : Paired(d) =>
           LET old == device_pairing_code[paired_device[d].via]
               new == device_pairing_code'[paired_device[d].via] IN
           new = old /\ new # NoCode
<1> SUFFICES ASSUME NEW d \in Device, Paired(d)
             PROVE  LET old == device_pairing_code[paired_device[d].via]
                        new == device_pairing_code'[paired_device[d].via] IN
                    new = old /\ new # NoCode
  OBVIOUS
<1>1. /\ paired_device \in [Device -> {NoDevice} \cup PairedRows]
      /\ device_pairing_code \in [Code -> {NoCode} \cup CodeRows]
  BY PairTypes DEF PairInv
<1>2. paired_device[d].via \in Code /\ paired_device[d].via # k
  BY <1>1 DEF Paired, PairedRows
<1>3. Issued(paired_device[d].via)
  BY DEF PairInv, PairedByIssued
<1> QED
  BY <1>1, <1>2, <1>3 DEF Issued

\* A commit that pairs nothing keeps the whole invariant.
LEMMA WriteStep ==
  ASSUME PairInv, NEW r \in PairRequest, PairCommit(r), HoldsToCancel(r) \/ HoldsToRedeem(r),
         NEW row \in CodeRows,
         device_pairing_code' = [device_pairing_code EXCEPT ![pairReq[r].code] = row],
         UNCHANGED paired_device
  PROVE  PairInv'
<1> DEFINE k == pairReq[r].code
<1>1. /\ LocksAreHeld' /\ CancelStands' /\ RedeemStands'
      /\ device_pairing_code' \in [Code -> {NoCode} \cup CodeRows]
      /\ codeLock' \in [Code -> PairRequest \cup {NotYet}]
      /\ pairReq' \in [PairRequest -> PairRequests]
  BY CommitStep
<1>2. \A d \in Device : Paired(d) =>
        LET old == device_pairing_code[paired_device[d].via]
            new == device_pairing_code'[paired_device[d].via] IN
        new = old /\ new # NoCode
  <2>1. k \in Code /\ \A d \in Device : Paired(d) => paired_device[d].via # k
    BY HolderFacts
  <2> QED
    BY <2>1, DevicesKept
<1>3. PairedByIssued' /\ PairedOnce'
  BY <1>2 DEF PairInv, PairedByIssued, PairedOnce, Paired, Issued, CodeRedeemed, CodeCancelled
<1>4. PairTypeOK'
  BY <1>1 DEF PairInv, PairTypeOK, PairCommit, LocksAreHeld, HoldsToCancel, HoldsToRedeem,
              CodeRows, PairedRows
<1> QED
  BY <1>1, <1>3, <1>4 DEF PairInv

LEMMA CancelStep ==
  ASSUME PairInv, NEW r \in PairRequest, cancelDevicePairingCode(r)
  PROVE  PairInv'
<1> DEFINE q == pairReq[r]
           k == q.code
<1>1. pairReq \in [PairRequest -> PairRequests] /\ codeLock \in [Code -> PairRequest \cup {NotYet}]
  BY PairTypes DEF PairInv
<1>2. q \in Cancelling /\ q.op = "cancel" /\ k \in Code /\ UNCHANGED paired_device
  BY <1>1, RequestFacts, CancelFacts DEF cancelDevicePairingCode
<1>3. Issued(k)
  BY <1>2 DEF PairInv, CancelStands
<1>4. ~HoldsToRedeem(r)
  BY <1>2 DEF HoldsToRedeem
<1>5. CASE ~q.held
  <2>1. ~HoldsToCancel(r)
    BY <1>5, Zenon DEF HoldsToCancel
  <2>2. codeLock[k] = NotYet /\ UNCHANGED <<device_pairing_code, pairClock>>
    BY <1>5 DEF cancelDevicePairingCode
  <2>3. CASE CodeRedeemed(k)
    <3>1. pairReq' = [pairReq EXCEPT ![r] = PairIdle] /\ UNCHANGED codeLock
      BY <1>5, <2>3 DEF cancelDevicePairingCode, PairGo
    <3>2. PairIdle \in PairRequests /\ PairIdle.op # "cancel" /\ PairIdle.op # "redeem"
      BY IdleFacts
    <3> QED
      BY <1>2, <1>4, <2>1, <2>2, <3>1, <3>2, QuietStep
  <2>4. CASE ~CodeRedeemed(k)
    <3> DEFINE p == [q EXCEPT !.held = TRUE]
    <3>1. pairReq' = [pairReq EXCEPT ![r] = p] /\ codeLock' = [codeLock EXCEPT ![k] = r]
      BY <1>5, <2>4 DEF cancelDevicePairingCode, PairGo
    <3>2. p \in Cancelling /\ p.op = "cancel" /\ p.code = k
      BY <1>2, CancelFacts
    <3>3. p.held
      BY <1>2, Zenon DEF Cancelling
    <3>4. p \in PairRequests
      BY <3>2, RequestKinds
    <3>5. codeLock' = [c \in Code |-> IF c \in {k} THEN r ELSE codeLock[c]]
      BY <1>1, <1>2, <3>1
    <3> HIDE DEF p
    <3>6. /\ {k} \in SUBSET Code /\ \A c \in {k} : codeLock[c] = NotYet
          /\ p.op \in {"cancel", "redeem"}
          /\ p.op = "cancel" => {k} = {p.code} /\ Issued(p.code) /\ ~CodeRedeemed(p.code)
          /\ p.op # "redeem"
      BY <1>2, <1>3, <2>2, <2>4, <3>2
    <3> QED
      BY <1>2, <1>4, <2>1, <2>2, <3>1, <3>3, <3>4, <3>5, <3>6, TakeStep
  <2> QED
    BY <2>3, <2>4
<1>6. CASE q.held
  <2>1. HoldsToCancel(r)
    BY <1>2, <1>6, Zenon DEF HoldsToCancel
  <2>2. /\ device_pairing_code' = [device_pairing_code EXCEPT ![k].revoked_at =
             IF @ = NotYet THEN q.now ELSE @]
        /\ PairCommit(r)
    BY <1>6 DEF cancelDevicePairingCode
  <2>3. k \in Code /\ q.now \in PairInstants /\ device_pairing_code[k] \in CodeRows
    BY <2>1, HolderFacts
  <2> DEFINE old == device_pairing_code[k]
             at == IF old.revoked_at = NotYet THEN q.now ELSE old.revoked_at
             row == [old EXCEPT !.revoked_at = at]
  <2>4. at \in PairInstants
    BY <2>3 DEF CodeRows
  <2>5. device_pairing_code' = [device_pairing_code EXCEPT ![k] = row]
    BY <2>2
  <2> HIDE DEF at
  <2>6. row \in CodeRows
    BY <2>3, <2>4 DEF CodeRows
  <2> QED
    BY <1>2, <2>1, <2>2, <2>5, <2>6, WriteStep
<1> QED
  BY <1>5, <1>6

LEMMA ReadStep ==
  ASSUME PairInv, NEW r \in PairRequest, NEW c \in Code, ReadCode(r, c)
  PROVE  PairInv'
<1> DEFINE q == pairReq[r]
           open == /\ ~CodeCancelled(c) /\ ~CodeRedeemed(c) /\ ~CodeExpired(c, q.now)
                   /\ Guessable(c)
<1>1. pairReq \in [PairRequest -> PairRequests]
  BY PairTypes DEF PairInv
<1>2. /\ q.op = "redeem" /\ ~q.held /\ c \in q.rows
      /\ \A m \in q.rows : codeLock[m] = NotYet
      /\ UNCHANGED <<device_pairing_code, paired_device, pairClock>>
  BY DEF ReadCode
<1>3. ~HoldsToCancel(r) /\ ~HoldsToRedeem(r)
  BY <1>2, Zenon DEF HoldsToCancel, HoldsToRedeem
<1>4. q \in Redeeming /\ q.rows \subseteq Code
  BY <1>1, <1>2, RequestFacts, RedeemFacts
<1>5. \A m \in q.rows : Issued(m)
  BY <1>2 DEF PairInv, RedeemStands
<1>6. CASE ~open
  <2>1. pairReq' = [pairReq EXCEPT ![r] = PairIdle] /\ UNCHANGED codeLock
    BY <1>6 DEF ReadCode, PairGo
  <2>2. PairIdle \in PairRequests /\ PairIdle.op # "cancel" /\ PairIdle.op # "redeem"
    BY IdleFacts
  <2> QED
    BY <1>2, <1>3, <2>1, <2>2, QuietStep
<1>7. CASE open
  <2> DEFINE p == [q EXCEPT !.held = TRUE, !.code = c]
  <2>1. /\ pairReq' = [pairReq EXCEPT ![r] = p]
        /\ codeLock' = [m \in Code |-> IF m \in q.rows THEN r ELSE codeLock[m]]
    BY <1>7 DEF ReadCode, PairGo
  <2>2. p \in Redeeming /\ p.op = "redeem" /\ p.rows = q.rows /\ p.code = c
    BY <1>4, RedeemFacts
  <2>3. p.held
    BY <1>4 DEF Redeeming
  <2>4. p \in PairRequests
    BY <2>2, RequestKinds
  <2>5. Open(c)
    BY <1>7 DEF Open
  <2> HIDE DEF p
  <2>6. /\ q.rows \in SUBSET Code /\ p.op \in {"cancel", "redeem"} /\ p.op # "cancel"
        /\ q.rows = p.rows /\ p.code \in p.rows /\ Open(p.code) /\ \A m \in p.rows : Issued(m)
    BY <1>2, <1>4, <1>5, <2>2, <2>5
  <2> QED
    BY <1>2, <1>3, <2>1, <2>3, <2>4, <2>6, TakeStep
<1> QED
  BY <1>6, <1>7

\* pool.ts, redeemDevicePairingCode: a wrong role counts against an open code; the
\* right one redeems it, and the device paired is the only one by that code.
LEMMA RedeemStep ==
  ASSUME PairInv, NEW r \in PairRequest, NEW d \in Device, redeemDevicePairingCode(r, d)
  PROVE  PairInv'
<1> DEFINE q == pairReq[r]
           k == q.code
           old == device_pairing_code[k]
<1>1. q.op = "redeem" /\ q.held /\ PairCommit(r)
  BY DEF redeemDevicePairingCode
<1>2. HoldsToRedeem(r)
  BY <1>1, Zenon DEF HoldsToRedeem
<1>3. k \in Code /\ old \in CodeRows /\ ~CodeRedeemed(k) /\ \A e \in Device : Paired(e) => paired_device[e].via # k
  BY <1>2, HolderFacts
<1>4. Open(k)
  BY <1>2 DEF PairInv, RedeemStands
<1>5. CASE old.role # q.role
  <2> DEFINE n == old.failed_attempts + 1
             row == [old EXCEPT !.failed_attempts = n]
  <2>1. device_pairing_code' = [device_pairing_code EXCEPT ![k] = row] /\ UNCHANGED paired_device
    BY <1>5 DEF redeemDevicePairingCode
  <2>2. n \in 0..DEVICE_CODE_MAX_ATTEMPTS
    <3>1. old.failed_attempts \in 0..DEVICE_CODE_MAX_ATTEMPTS
      BY <1>3 DEF CodeRows
    <3> QED
      BY <1>4, <3>1 DEF Open, Guessable
  <2> HIDE DEF n, old
  <2>3. row \in CodeRows
    BY <1>3, <2>2 DEF CodeRows
  <2> HIDE DEF row
  <2> QED
    BY <1>1, <1>2, <2>1, <2>3, WriteStep
<1>6. CASE old.role = q.role
  <2> DEFINE row == [old EXCEPT !.redeemed_at = pairClock]
             dev == [via |-> k, role |-> q.role, revoked_at |-> NotYet]
  <2>1. /\ device_pairing_code' = [device_pairing_code EXCEPT ![k] = row]
        /\ ~Paired(d) /\ paired_device' = [paired_device EXCEPT ![d] = dev]
    BY <1>6 DEF redeemDevicePairingCode
  <2>2. /\ pairClock \in PairInstants /\ paired_device \in [Device -> {NoDevice} \cup PairedRows]
        /\ device_pairing_code \in [Code -> {NoCode} \cup CodeRows]
    BY PairTypes DEF PairInv
  <2>3. row \in CodeRows
    BY <1>3, <2>2 DEF CodeRows
  <2>4. /\ row.redeemed_at # NotYet /\ row.revoked_at = NotYet /\ row.role = q.role
        /\ row.failed_attempts < DEVICE_CODE_MAX_ATTEMPTS
    <3>1. /\ row.redeemed_at = pairClock /\ row.revoked_at = old.revoked_at /\ row.role = old.role
          /\ row.failed_attempts = old.failed_attempts
      BY <1>3 DEF CodeRows
    <3> QED
      BY <1>4, <1>6, <2>2, <3>1, NotYetIsNoInstant DEF Open, CodeCancelled, Guessable
  <2>5. dev \in PairedRows
    BY <1>3, <1>6 DEF PairedRows, CodeRows
  <2>6. dev.via = k /\ dev.role = q.role
    OBVIOUS
  <2> HIDE DEF row, dev
  <2>7. /\ device_pairing_code'[k] = row
        /\ paired_device'[d] = dev /\ dev # NoDevice
        /\ \A e \in Device : e # d => paired_device'[e] = paired_device[e]
        /\ paired_device' \in [Device -> {NoDevice} \cup PairedRows]
    <3>1. device_pairing_code'[k] = row
      BY <1>3, <2>1, <2>2
    <3>2. dev # NoDevice
      BY <2>5, NoRows
    <3> DEFINE T == {NoDevice} \cup PairedRows
    <3>3. dev \in T /\ paired_device \in [Device -> T]
      BY <2>2, <2>5
    <3> HIDE DEF T
    <3>4. /\ paired_device'[d] = dev /\ paired_device' \in [Device -> T]
          /\ \A e \in Device : e # d => paired_device'[e] = paired_device[e]
      BY <2>1, <3>3
    <3> QED
      BY <3>1, <3>2, <3>4 DEF T
  <2>8. /\ LocksAreHeld' /\ CancelStands' /\ RedeemStands'
        /\ device_pairing_code' \in [Code -> {NoCode} \cup CodeRows]
        /\ codeLock' \in [Code -> PairRequest \cup {NotYet}]
        /\ pairReq' \in [PairRequest -> PairRequests]
    BY <1>1, <1>2, <2>1, <2>3, CommitStep
  <2>9. ASSUME NEW e \in Device, e # d, paired_device'[e] # NoDevice
        PROVE  LET c == paired_device'[e].via IN
               /\ c # k /\ c = paired_device[e].via /\ Paired(e)
               /\ device_pairing_code'[c] = device_pairing_code[c] /\ device_pairing_code'[c] # NoCode
    <3>1. paired_device'[e] = paired_device[e] /\ Paired(e)
      BY <2>7, <2>9 DEF Paired
    <3>2. paired_device[e].via # k
      BY <1>3, <3>1
    <3>3. LET c == paired_device[e].via IN
          device_pairing_code'[c] = device_pairing_code[c] /\ device_pairing_code'[c] # NoCode
      BY <1>3, <2>1, <2>3, <3>1, DevicesKept
    <3> QED
      BY <3>1, <3>2, <3>3
  <2>10. PairedByIssued'
    <3> SUFFICES ASSUME NEW e \in Device, paired_device'[e] # NoDevice
                 PROVE  device_pairing_code'[paired_device'[e].via] # NoCode
      BY DEF PairedByIssued, Paired, Issued
    <3>1. CASE e = d
      BY <2>3, <2>6, <2>7, <3>1, NoRows
    <3>2. CASE e # d
      BY <2>9, <3>2
    <3> QED
      BY <3>1, <3>2
  <2>11. PairedOnce'
    <3> SUFFICES ASSUME NEW e \in Device, paired_device'[e] # NoDevice
                 PROVE  LET c == paired_device'[e].via
                            new == device_pairing_code'[c] IN
                        /\ paired_device'[e].role = new.role
                        /\ new.redeemed_at # NotYet /\ ~(new.revoked_at # NotYet)
                        /\ new.failed_attempts < DEVICE_CODE_MAX_ATTEMPTS
                        /\ \A f \in Device : paired_device'[f] # NoDevice /\ paired_device'[f].via = c => f = e
      BY DEF PairedOnce, Paired, CodeRedeemed, CodeCancelled
    <3>1. CASE e = d
      <4>1. paired_device'[e].via = k /\ device_pairing_code'[k] = row /\ paired_device'[e].role = q.role
        BY <2>6, <2>7, <3>1
      <4>2. \A f \in Device : paired_device'[f] # NoDevice /\ paired_device'[f].via = k => f = e
        BY <2>9, <3>1
      <4> QED
        BY <2>4, <4>1, <4>2
    <3>2. CASE e # d
      <4>1. LET c == paired_device'[e].via IN
            /\ c # k /\ c = paired_device[e].via /\ Paired(e)
            /\ device_pairing_code'[c] = device_pairing_code[c]
            /\ paired_device'[e] = paired_device[e]
        BY <2>7, <2>9, <3>2
      <4>2. LET c == paired_device[e].via IN
            /\ paired_device[e].role = device_pairing_code[c].role
            /\ device_pairing_code[c].redeemed_at # NotYet /\ ~(device_pairing_code[c].revoked_at # NotYet)
            /\ device_pairing_code[c].failed_attempts < DEVICE_CODE_MAX_ATTEMPTS
            /\ \A f \in Device : Paired(f) /\ paired_device[f].via = c => f = e
        BY <4>1 DEF PairInv, PairedOnce, CodeRedeemed, CodeCancelled
      <4>3. \A f \in Device : paired_device'[f] # NoDevice /\ paired_device'[f].via = paired_device'[e].via => f = e
        <5> SUFFICES ASSUME NEW f \in Device, paired_device'[f] # NoDevice,
                            paired_device'[f].via = paired_device'[e].via
                     PROVE  f = e
          OBVIOUS
        <5>1. f # d
          BY <2>6, <2>7, <4>1
        <5>2. Paired(f) /\ paired_device[f].via = paired_device[e].via
          BY <2>9, <4>1, <5>1
        <5> QED
          BY <4>2, <5>2
      <4> QED
        BY <4>1, <4>2, <4>3
    <3> QED
      BY <3>1, <3>2
  <2>12. PairTypeOK'
    BY <1>1, <2>2, <2>7, <2>8 DEF PairTypeOK, PairCommit, LocksAreHeld, HoldsToCancel, HoldsToRedeem,
                                  CodeRows, PairedRows
  <2> QED
    BY <2>8, <2>10, <2>11, <2>12 DEF PairInv
<1> QED
  BY <1>5, <1>6

\* pool.ts, createDevicePairingCode: a new row is nobody's, and nothing was paired by it.
LEMMA CreateStep ==
  ASSUME PairInv, NEW r \in PairRequest, NEW k \in Code, createDevicePairingCode(r, k)
  PROVE  PairInv'
<1> DEFINE q == pairReq[r]
           row == [number |-> q.number, role |-> q.role, created_at |-> pairClock,
                   redeemed_at |-> NotYet, revoked_at |-> NotYet, failed_attempts |-> 0]
           T == {NoCode} \cup CodeRows
<1>1. /\ q.op = "create" /\ ~Issued(k)
      /\ device_pairing_code' = [device_pairing_code EXCEPT ![k] = row]
      /\ pairReq' = [pairReq EXCEPT ![r] = PairIdle]
      /\ UNCHANGED <<codeLock, paired_device, pairClock>>
  BY DEF createDevicePairingCode, PairGo
<1>2. /\ device_pairing_code \in [Code -> T] /\ pairReq \in [PairRequest -> PairRequests]
      /\ codeLock \in [Code -> PairRequest \cup {NotYet}]
      /\ paired_device \in [Device -> {NoDevice} \cup PairedRows] /\ pairClock \in PairInstants
  BY PairTypes DEF PairInv
<1>3. q \in Creating
  BY <1>1, <1>2, RequestFacts
<1>4. q.number \in Number /\ q.role \in PairableRole
  BY <1>3 DEF Creating
<1>5. row \in CodeRows
  BY <1>2, <1>4 DEF CodeRows
<1> HIDE DEF row
<1>6. row \in T /\ row # NoCode
  BY <1>5, NoRows
<1> HIDE DEF T
<1>7. /\ device_pairing_code' \in [Code -> T] /\ device_pairing_code'[k] = row
      /\ \A c \in Code : c # k => device_pairing_code'[c] = device_pairing_code[c]
  BY <1>1, <1>2, <1>6
<1>8. /\ pairReq' \in [PairRequest -> PairRequests] /\ pairReq'[r] = PairIdle
      /\ \A p \in PairRequest : p # r => pairReq'[p] = pairReq[p]
  BY <1>1, <1>2, IdleFacts
<1>9. ASSUME NEW c \in Code, Issued(c)
      PROVE  device_pairing_code'[c] = device_pairing_code[c] /\ device_pairing_code'[c] # NoCode
  BY <1>1, <1>7, <1>9 DEF Issued
<1>10. ASSUME NEW p \in PairRequest, pairReq'[p].op \in {"cancel", "redeem"}
       PROVE  p # r /\ pairReq'[p] = pairReq[p]
  BY <1>8, <1>10, IdleFacts
<1>11. ASSUME NEW p \in PairRequest
       PROVE  /\ HoldsToCancel(p)' => HoldsToCancel(p) /\ pairReq'[p] = pairReq[p]
              /\ HoldsToRedeem(p)' => HoldsToRedeem(p) /\ pairReq'[p] = pairReq[p]
  <2>1. CASE pairReq'[p].op \in {"cancel", "redeem"}
    <3>1. pairReq'[p] = pairReq[p]
      BY <1>10, <2>1
    <3> QED
      BY <3>1, Zenon DEF HoldsToCancel, HoldsToRedeem
  <2>2. CASE pairReq'[p].op \notin {"cancel", "redeem"}
    BY <2>2 DEF HoldsToCancel, HoldsToRedeem
  <2> QED
    BY <2>1, <2>2
<1>12. LocksAreHeld'
  <2> SUFFICES ASSUME NEW c \in Code, codeLock'[c] # NotYet
               PROVE  LET p == codeLock'[c] IN
                      \/ pairReq'[p].op = "cancel" /\ pairReq'[p].held /\ pairReq'[p].code = c
                      \/ pairReq'[p].op = "redeem" /\ pairReq'[p].held /\ c \in pairReq'[p].rows
    BY DEF LocksAreHeld, HoldsToCancel, HoldsToRedeem
  <2>1. PICK p \in PairRequest : codeLock[c] = p /\ codeLock'[c] = p
    BY <1>1, <1>2
  <2>2. \/ HoldsToCancel(p) /\ pairReq[p].code = c
        \/ HoldsToRedeem(p) /\ c \in pairReq[p].rows
    <3>1. codeLock[c] # NotYet /\ LocksAreHeld
      BY <2>1 DEF PairInv
    <3>2. LET o == codeLock[c] IN
          \/ HoldsToCancel(o) /\ pairReq[o].code = c
          \/ HoldsToRedeem(o) /\ c \in pairReq[o].rows
      BY <3>1 DEF LocksAreHeld
    <3> QED
      BY <2>1, <3>2
  <2>3. p # r
    BY <1>1, <2>2 DEF HoldsToCancel, HoldsToRedeem
  <2>4. pairReq'[p] = pairReq[p]
    BY <1>8, <2>3
  <2> QED
    BY <2>1, <2>2, <2>4, Zenon DEF HoldsToCancel, HoldsToRedeem
<1>13. CancelStands'
  <2> SUFFICES ASSUME NEW p \in PairRequest
               PROVE  /\ pairReq'[p].op = "cancel" => device_pairing_code'[pairReq'[p].code] # NoCode
                      /\ HoldsToCancel(p)' => /\ codeLock'[pairReq'[p].code] = p
                                              /\ ~(device_pairing_code'[pairReq'[p].code].redeemed_at # NotYet)
    BY DEF CancelStands, Issued, CodeRedeemed
  <2>1. pairReq'[p].op = "cancel" =>
          pairReq'[p] = pairReq[p] /\ pairReq[p].code \in Code /\ Issued(pairReq[p].code)
    BY <1>2, <1>10, RequestFacts, CancelFacts DEF PairInv, CancelStands
  <2>2. HoldsToCancel(p)' =>
          /\ pairReq'[p].op = "cancel" /\ codeLock[pairReq[p].code] = p
          /\ ~(device_pairing_code[pairReq[p].code].redeemed_at # NotYet)
    BY <1>11 DEF PairInv, CancelStands, CodeRedeemed, HoldsToCancel
  <2> QED
    BY <1>1, <1>9, <2>1, <2>2
<1>14. RedeemStands'
  <2>1. ASSUME NEW p \in PairRequest, pairReq'[p].op = "redeem", NEW c \in pairReq'[p].rows
        PROVE  device_pairing_code'[c] # NoCode
    <3>1. pairReq'[p] = pairReq[p]
      BY <1>10, <2>1
    <3>2. pairReq[p] \in Redeeming
      BY <1>2, <2>1, <3>1, RequestFacts
    <3>3. c \in Code /\ Issued(c)
      BY <2>1, <3>1, <3>2, RedeemFacts DEF PairInv, RedeemStands
    <3> QED
      BY <1>9, <3>3
  <2>2. ASSUME NEW p \in PairRequest, HoldsToRedeem(p)'
        PROVE  LET new == device_pairing_code'[pairReq'[p].code] IN
               /\ pairReq'[p].code \in pairReq'[p].rows
               /\ ~(new.revoked_at # NotYet) /\ ~(new.redeemed_at # NotYet)
               /\ new.failed_attempts < DEVICE_CODE_MAX_ATTEMPTS
               /\ \A c \in pairReq'[p].rows : codeLock'[c] = p
    <3>1. HoldsToRedeem(p) /\ pairReq'[p] = pairReq[p]
      BY <1>11, <2>2
    <3>2. /\ pairReq[p].code \in pairReq[p].rows /\ Open(pairReq[p].code)
          /\ \A c \in pairReq[p].rows : codeLock[c] = p
      BY <3>1 DEF PairInv, RedeemStands
    <3>3. pairReq[p].code \in Code /\ Issued(pairReq[p].code)
      <4>1. pairReq[p].op = "redeem"
        BY <3>1 DEF HoldsToRedeem
      <4>2. pairReq[p] \in Redeeming
        BY <1>2, <4>1, RequestFacts
      <4> QED
        BY <3>2, <4>1, <4>2, RedeemFacts DEF PairInv, RedeemStands
    <3>4. device_pairing_code'[pairReq[p].code] = device_pairing_code[pairReq[p].code]
      BY <1>9, <3>3
    <3> QED
      BY <1>1, <3>1, <3>2, <3>4 DEF Open, CodeCancelled, CodeRedeemed, Guessable
  <2> QED
    BY <2>1, <2>2 DEF RedeemStands, Issued, Open, CodeCancelled, CodeRedeemed, Guessable
<1>15. PairedByIssued' /\ PairedOnce'
  <2>1. \A d \in Device : Paired(d) =>
          LET c == paired_device[d].via IN
          device_pairing_code'[c] = device_pairing_code[c] /\ device_pairing_code'[c] # NoCode
    BY <1>2, <1>9 DEF PairInv, PairedByIssued, Paired, PairedRows
  <2> QED
    BY <1>1, <2>1 DEF PairInv, PairedByIssued, PairedOnce, Paired, Issued, CodeRedeemed, CodeCancelled
<1>16. PairTypeOK'
  BY <1>1, <1>2, <1>7, <1>8, <1>12 DEF T, PairTypeOK, LocksAreHeld, HoldsToCancel, HoldsToRedeem,
                                        CodeRows, PairedRows
<1> QED
  BY <1>12, <1>13, <1>14, <1>15, <1>16 DEF PairInv

\* Revoking a device leaves by what it was paired.
LEMMA RevokeStep ==
  ASSUME PairInv, NEW d \in Device, revokePairedDevice(d)
  PROVE  PairInv'
<1> DEFINE at == IF paired_device[d].revoked_at = NotYet THEN pairClock ELSE paired_device[d].revoked_at
           dev == [paired_device[d] EXCEPT !.revoked_at = at]
<1>1. /\ paired_device \in [Device -> {NoDevice} \cup PairedRows] /\ pairClock \in PairInstants
      /\ Paired(d)
  BY PairTypes DEF PairInv, revokePairedDevice
<1>2. paired_device[d] \in PairedRows
  BY <1>1 DEF Paired
<1>3. at \in PairInstants \cup {NotYet}
  BY <1>1, <1>2 DEF PairedRows
<1>4. /\ paired_device' = [paired_device EXCEPT ![d] = dev]
      /\ UNCHANGED <<device_pairing_code, codeLock, pairReq, pairClock>>
  BY DEF revokePairedDevice
<1> HIDE DEF at
<1>5. dev \in PairedRows /\ dev.via = paired_device[d].via /\ dev.role = paired_device[d].role
  BY <1>2, <1>3 DEF PairedRows
<1> HIDE DEF dev
<1>6. paired_device' \in [Device -> {NoDevice} \cup PairedRows]
  <2> DEFINE T == {NoDevice} \cup PairedRows
  <2>1. dev \in T /\ paired_device \in [Device -> T]
    BY <1>1, <1>5
  <2> HIDE DEF T
  <2>2. paired_device' \in [Device -> T]
    BY <1>4, <2>1
  <2> QED
    BY <2>2 DEF T
<1>7. \A e \in Device : /\ paired_device'[e] # NoDevice => Paired(e)
                        /\ Paired(e) => /\ paired_device'[e].via = paired_device[e].via
                                        /\ paired_device'[e].role = paired_device[e].role
  <2> SUFFICES ASSUME NEW e \in Device
               PROVE  /\ paired_device'[e] # NoDevice => Paired(e)
                      /\ Paired(e) => /\ paired_device'[e].via = paired_device[e].via
                                      /\ paired_device'[e].role = paired_device[e].role
    OBVIOUS
  <2>1. CASE e = d
    BY <1>1, <1>4, <1>5, <2>1
  <2>2. CASE e # d
    <3>1. paired_device'[e] = paired_device[e]
      BY <1>1, <1>4, <2>2
    <3> QED
      BY <3>1 DEF Paired
  <2> QED
    BY <2>1, <2>2
<1>8. PairedByIssued'
  <2> SUFFICES ASSUME NEW e \in Device, paired_device'[e] # NoDevice
               PROVE  device_pairing_code[paired_device'[e].via] # NoCode
    BY <1>4 DEF PairedByIssued, Paired, Issued
  <2> QED
    BY <1>7 DEF PairInv, PairedByIssued, Issued
<1>9. PairedOnce'
  <2> SUFFICES ASSUME NEW e \in Device, paired_device'[e] # NoDevice
               PROVE  LET c == paired_device'[e].via IN
                      /\ paired_device'[e].role = device_pairing_code[c].role
                      /\ CodeRedeemed(c) /\ ~CodeCancelled(c)
                      /\ device_pairing_code[c].failed_attempts < DEVICE_CODE_MAX_ATTEMPTS
                      /\ \A f \in Device : paired_device'[f] # NoDevice /\ paired_device'[f].via = c => f = e
    BY <1>4 DEF PairedOnce, Paired, CodeRedeemed, CodeCancelled
  <2> QED
    BY <1>7 DEF PairInv, PairedOnce
<1>10. LocksAreHeld' /\ CancelStands' /\ RedeemStands'
  BY <1>4 DEF PairInv, LocksAreHeld, CancelStands, RedeemStands, HoldsToCancel, HoldsToRedeem,
              Open, Issued, CodeCancelled, CodeRedeemed, Guessable
<1>11. PairTypeOK'
  BY <1>4, <1>6 DEF PairInv, PairTypeOK, PairedRows
<1> QED
  BY <1>8, <1>9, <1>10, <1>11 DEF PairInv

\* The clock moves, or nothing does.
LEMMA TickStep ==
  ASSUME PairInv, PairTick \/ UNCHANGED pairVars
  PROVE  PairInv'
<1>1. UNCHANGED <<device_pairing_code, codeLock, paired_device, pairReq>>
  BY DEF PairTick, pairVars
<1>2. pairClock' \in PairInstants
  BY PairTypes DEF PairInv, PairTick, pairVars, PairInstants
<1>3. LocksAreHeld' /\ CancelStands' /\ RedeemStands'
  BY <1>1 DEF PairInv, LocksAreHeld, CancelStands, RedeemStands, HoldsToCancel, HoldsToRedeem,
              Open, Issued, CodeCancelled, CodeRedeemed, Guessable
<1>4. PairedByIssued' /\ PairedOnce'
  BY <1>1, TablesUntouched
<1>5. PairTypeOK'
  BY <1>1, <1>2 DEF PairInv, PairTypeOK
<1> QED
  BY <1>3, <1>4, <1>5 DEF PairInv

-----------------------------------------------------------------------------
(* Theorems. *)

LEMMA NextPairing == PairInv /\ [PairNext]_pairVars => PairInv'
<1> SUFFICES ASSUME PairInv, [PairNext]_pairVars PROVE PairInv'
  OBVIOUS
<1>1. ASSUME NEW r \in PairRequest, PairServe(r) PROVE PairInv'
  BY <1>1, CancelStep, ServedStep, CreateStep, ReadStep, RedeemStep DEF PairServe
<1>2. ASSUME NEW r \in PairRequest, PairAsk(r) PROVE PairInv'
  BY <1>2, AskStep
<1>3. ASSUME NEW d \in Device, revokePairedDevice(d) PROVE PairInv'
  BY <1>3, RevokeStep
<1> QED
  BY <1>1, <1>2, <1>3, TickStep DEF PairNext

\* The inductive invariant holds in every behaviour: a code is changed by the request
\* that holds its row, and what was cancelled or redeemed stays so.
THEOREM PairInvariant == PairSpec => []PairInv
BY InitPairing, NextPairing, PTL DEF PairSpec

\* pool.ts, redeemDevicePairingCode: however redeems, cancels and wrong guesses race, a
\* code pairs at most one device, of its own role, and neither a cancelled code nor one
\* locked by wrong roles ever pairs any.
THEOREM AlwaysPairedOnce == PairSpec => []PairedOnce
<1>1. PairInv => PairedOnce
  BY DEF PairInv
<1> QED
  BY <1>1, PairInvariant, PTL

\* Types of pairing: whoever holds a code's row is in the middle of writing it.
THEOREM PairTypesHold == PairSpec => []PairTypeOK
<1>1. PairInv => PairTypeOK
  BY DEF PairInv
<1> QED
  BY <1>1, PairInvariant, PTL

-----------------------------------------------------------------------------
(* Push notifications. *)

RegBusy == [pc : {"gate", "upsert", "denied", "retry"}, owner : Owner, token : PushToken]
SendStates == {"waiting", "refused", "minting", "joined", "posting", "ok", "gone", "failed"}

PushTypes ==
  /\ device_token \subseteq DeviceRows /\ lastId \in 0 .. MaxRowId
  /\ installed \subseteq PushToken
  /\ vouched \in [PushToken -> Owner \cup {Unclaimed}]
  /\ regReq \in [RegRequest -> {RegIdle} \cup RegBusy]
  /\ deactivated \in BOOLEAN /\ passedGate \subseteq PushToken
  /\ cachedToken \in BOOLEAN

\* 0021_device_tokens.sql: an id and a token have one row; the last registration of an
\* app that is still there is the one of the owner of its row.
OneRowEach ==
  /\ \A d \in device_token : d.id <= lastId /\ (d.token \in installed => vouched[d.token] = d.owner)
  /\ \A d, e \in device_token : d.id = e.id \/ d.token = e.token => d = e

\* What a notification knows: nothing, or the rows it read, and how each send goes.
NotifyOK(n) ==
  \/ notify[n] = NotifyIdle
  \/ \E R \in SUBSET DeviceRows : \E s \in [R -> SendStates] :
       notify[n] = [pc |-> "sending", rows |-> R, sent |-> s]

\* notify.ts: a row that was read may be gone, but its id is nobody else's; and a
\* device said to be gone is gone.
OldRowOK(d, how) ==
  /\ d.id <= lastId /\ \A e \in device_token : e.id = d.id => e = d
  /\ how = "gone" => d.token \notin installed

SendsInv ==
  /\ DOMAIN notify = Notification
  /\ \A n \in Notification : NotifyOK(n)
  /\ \A n \in Notification : \A d \in notify[n].rows : OldRowOK(d, notify[n].sent[d])

\* fcm.ts: whoever waits for the mint in flight is known to it, and one started it.
MintInv ==
  /\ \A m \in minting :
       /\ m \in Notification \X DeviceRows /\ m[2] \in notify[m[1]].rows
       /\ notify[m[1]].sent[m[2]] \in {"minting", "joined"}
  /\ \A n \in Notification : \A d \in notify[n].rows :
       notify[n].sent[d] \in {"minting", "joined"} => <<n, d>> \in minting
  /\ \A m, k \in minting :
       notify[m[1]].sent[m[2]] = "minting" /\ notify[k[1]].sent[k[2]] = "minting" => m = k

\* pool.ts: once she is deactivated, her rows and her registrations that may still make
\* one are those that the gate had let by.
GoneInv ==
  deactivated =>
    /\ \A d \in device_token : d.owner = Adult => d.token \in passedGate
    /\ \A r \in PastGate : regReq[r].token \in passedGate

PushInv == PushTypes /\ OneRowEach /\ RegisteredDeviceHasRow /\ GoneInv /\ SendsInv /\ MintInv

LEMMA IdleNotify == NotifyIdle.rows = {} /\ NotifyIdle.pc = "idle"
BY DEF NotifyIdle

LEMMA IdleReg == RegIdle.pc = "idle" /\ RegIdle \notin RegBusy
BY DEF RegIdle, RegBusy

LEMMA PushBegins == PushInit => PushInv
<1> SUFFICES ASSUME PushInit PROVE PushInv
  OBVIOUS
<1>1. PushTypes
  <2>1. cachedToken \in BOOLEAN
    BY Zenon DEF PushInit
  <2>2. vouched \in [PushToken -> Owner \cup {Unclaimed}] /\ regReq \in [RegRequest -> {RegIdle} \cup RegBusy]
    BY DEF PushInit
  <2>3. device_token \subseteq DeviceRows /\ lastId \in 0 .. MaxRowId /\ installed \subseteq PushToken
    BY PushAssumption DEF PushInit
  <2>4. deactivated \in BOOLEAN /\ passedGate \subseteq PushToken
    BY Zenon DEF PushInit
  <2> QED
    BY <2>1, <2>2, <2>3, <2>4, Zenon DEF PushTypes
<1>2. OneRowEach
  BY DEF PushInit, OneRowEach
<1>3. RegisteredDeviceHasRow
  BY PushAssumption DEF PushInit, RegisteredDeviceHasRow
<1>4. \A n \in Notification : notify[n] = NotifyIdle /\ notify[n].rows = {}
  BY IdleNotify DEF PushInit
<1>5. SendsInv
  BY <1>4 DEF PushInit, SendsInv, NotifyOK
<1>6. MintInv
  BY <1>4 DEF PushInit, MintInv
<1>7. GoneInv
  BY DEF PushInit, GoneInv
<1> QED
  BY <1>1, <1>2, <1>3, <1>5, <1>6, <1>7 DEF PushInv

-----------------------------------------------------------------------------
(* Registering. *)

\* The rows only lose some, or gain one with an id of its own.
LEMMA OldRowsKept ==
  ASSUME SendsInv, lastId \in Nat, lastId' \in Nat, lastId <= lastId', installed' \subseteq installed,
         notify' = notify,
         \A e \in device_token' : e \in device_token \/ e.id = lastId + 1,
         device_token \subseteq DeviceRows
  PROVE  SendsInv'
<1>1. ASSUME NEW n \in Notification, NEW d \in notify[n].rows
      PROVE  OldRowOK(d, notify[n].sent[d])'
  <2>1. OldRowOK(d, notify[n].sent[d])
    BY <1>1 DEF SendsInv
  <2>2. d.id \in Nat
    <3>1. PICK R \in SUBSET DeviceRows : \E s \in [R -> SendStates] :
                 notify[n] = [pc |-> "sending", rows |-> R, sent |-> s]
      BY <1>1, IdleNotify DEF SendsInv, NotifyOK
    <3>2. d \in DeviceRows
      BY <1>1, <3>1
    <3> QED
      BY <3>2, PushAssumption DEF DeviceRows
  <2>3. d.id <= lastId /\ (\A e \in device_token : e.id = d.id => e = d)
        /\ (notify[n].sent[d] = "gone" => d.token \notin installed)
    BY <2>1 DEF OldRowOK
  <2>4. d.id <= lastId' /\ d.id # lastId + 1
    BY <2>2, <2>3
  <2>5. \A e \in device_token' : e.id = d.id => e = d
    BY <2>3, <2>4
  <2>6. notify'[n].sent[d] = "gone" => d.token \notin installed'
    BY <2>3
  <2> QED
    BY <2>4, <2>5, <2>6 DEF OldRowOK
<1>2. \A n \in Notification : NotifyOK(n)'
  BY DEF SendsInv, NotifyOK
<1> QED
  BY <1>1, <1>2 DEF SendsInv

LEMMA MintKept ==
  ASSUME MintInv, minting' = minting, notify' = notify
  PROVE  MintInv'
BY DEF MintInv

\* The request r goes on as q, and the others stay.
Turns(r, q) ==
  /\ regReq' \in [RegRequest -> {RegIdle} \cup RegBusy]
  /\ regReq'[r] = q
  /\ \A p \in RegRequest : p # r => regReq'[p] = regReq[p]

LEMMA TurnsFacts ==
  ASSUME PushTypes, NEW r \in RegRequest, NEW q \in {RegIdle} \cup RegBusy,
         regReq' = [regReq EXCEPT ![r] = q]
  PROVE  Turns(r, q)
BY DEF PushTypes, Turns

\* Nobody's row is new but hers who was past the gate, and nobody newly passes it.
LEMMA GoneKept ==
  ASSUME GoneInv, deactivated' = deactivated, passedGate' = passedGate,
         \A d \in device_token' : d \in device_token \/ (deactivated /\ d.owner = Adult => d.token \in passedGate),
         \A r \in RegRequest : regReq'[r] # regReq[r] /\ regReq'[r].pc \in {"upsert", "denied", "retry"} =>
           /\ regReq'[r].owner = regReq[r].owner /\ regReq'[r].token = regReq[r].token
           /\ regReq[r].pc \in {"upsert", "denied", "retry"} \/ ~deactivated
  PROVE  GoneInv'
<1> SUFFICES ASSUME deactivated PROVE GoneInv'
  BY DEF GoneInv
<1>1. \A d \in device_token' : d.owner = Adult => d.token \in passedGate
  BY DEF GoneInv
<1>2. \A r \in PastGate' : r \in PastGate /\ regReq'[r].token = regReq[r].token
  BY DEF PastGate
<1> QED
  BY <1>1, <1>2 DEF GoneInv

\* The table and the account stay as they are while a registration turns its page.
LEMMA PageTurns ==
  ASSUME PushInv, NEW r \in RegRequest, NEW q \in {RegIdle} \cup RegBusy,
         regReq' = [regReq EXCEPT ![r] = q],
         q.pc \in {"upsert", "denied", "retry"} =>
           /\ q.owner = regReq[r].owner /\ q.token = regReq[r].token
           /\ regReq[r].pc \in {"upsert", "denied", "retry"} \/ ~deactivated,
         UNCHANGED <<device_token, lastId, installed, vouched, accountVars, sendVars>>
  PROVE  PushInv'
<1>1. /\ PushTypes /\ OneRowEach /\ RegisteredDeviceHasRow /\ GoneInv /\ SendsInv /\ MintInv
      /\ device_token' = device_token /\ lastId' = lastId /\ installed' = installed /\ vouched' = vouched
      /\ deactivated' = deactivated /\ passedGate' = passedGate
      /\ cachedToken' = cachedToken /\ minting' = minting /\ notify' = notify
  BY DEF PushInv, accountVars, sendVars
<1>2. Turns(r, q)
  BY <1>1, TurnsFacts
<1>3. PushTypes' /\ OneRowEach' /\ RegisteredDeviceHasRow'
  BY <1>1, <1>2 DEF PushTypes, OneRowEach, RegisteredDeviceHasRow, RowsOf, Turns
<1>4. GoneInv'
  <2>1. \A p \in RegRequest : regReq'[p] # regReq[p] => p = r /\ regReq'[p] = q
    BY <1>2 DEF Turns
  <2> QED
    BY <1>1, <2>1, GoneKept
<1>5. SendsInv'
  BY <1>1, PushAssumption, OldRowsKept DEF PushTypes
<1>6. MintInv'
  BY <1>1, MintKept
<1> QED
  BY <1>3, <1>4, <1>5, <1>6 DEF PushInv

LEMMA AskKeeps ==
  ASSUME PushInv, NEW r \in RegRequest, NEW c \in Claim, AskRegister(r, c[1], c[2])
  PROVE  PushInv'
<1> PICK q : q = [pc |-> IF c[1] = Adult THEN "gate" ELSE "upsert", owner |-> c[1], token |-> c[2]]
  OBVIOUS
<1>1. /\ regReq[r] = RegIdle /\ regReq' = [regReq EXCEPT ![r] = q]
      /\ UNCHANGED <<device_token, lastId, installed, vouched, accountVars, sendVars>>
  BY DEF AskRegister
<1>2. q \in RegBusy /\ (q.pc # "gate" => q.owner # Adult)
  BY PushAssumption DEF RegBusy
<1>3. /\ PushTypes /\ OneRowEach /\ RegisteredDeviceHasRow /\ GoneInv /\ SendsInv /\ MintInv
      /\ device_token' = device_token /\ lastId' = lastId /\ installed' = installed /\ vouched' = vouched
      /\ deactivated' = deactivated /\ passedGate' = passedGate
      /\ cachedToken' = cachedToken /\ minting' = minting /\ notify' = notify
  BY <1>1 DEF PushInv, accountVars, sendVars
<1>4. Turns(r, q)
  BY <1>1, <1>2, <1>3, TurnsFacts
<1>5. PushTypes' /\ OneRowEach' /\ RegisteredDeviceHasRow'
  BY <1>3, <1>4 DEF PushTypes, OneRowEach, RegisteredDeviceHasRow, RowsOf, Turns
<1>6. GoneInv'
  <2>1. \A p \in PastGate' : p \in PastGate /\ regReq'[p] = regReq[p]
    BY <1>2, <1>4 DEF PastGate, Turns
  <2> QED
    BY <1>3, <2>1 DEF GoneInv
<1>7. SendsInv'
  BY <1>3, PushAssumption, OldRowsKept DEF PushTypes
<1>8. MintInv'
  BY <1>3, MintKept
<1> QED
  BY <1>5, <1>6, <1>7, <1>8 DEF PushInv

LEMMA GateKeeps ==
  ASSUME PushInv, NEW r \in RegRequest, DeactivationGate(r) \/ RegisterFails(r)
  PROVE  PushInv'
<1> PICK q : q = regReq[r]
  OBVIOUS
<1> PICK s : s = [q EXCEPT !.pc = "upsert"]
  OBVIOUS
<1>1. q \in {RegIdle} \cup RegBusy
  BY DEF PushInv, PushTypes
<1>2. UNCHANGED <<device_token, lastId, installed, vouched, accountVars, sendVars>>
  BY DEF DeactivationGate, RegisterFails
<1>3. CASE regReq' = [regReq EXCEPT ![r] = RegIdle]
  BY <1>2, <1>3, IdleReg, PageTurns
<1>4. CASE q.pc = "gate" /\ ~deactivated /\ regReq' = [regReq EXCEPT ![r] = s]
  <2>1. q \in RegBusy
    BY <1>1, <1>4, IdleReg
  <2>2. s \in RegBusy /\ s.owner = q.owner /\ s.token = q.token
    BY <2>1 DEF RegBusy
  <2> QED
    BY <1>2, <1>4, <2>2, PageTurns
<1>5. deactivated \in BOOLEAN /\ regReq \in [RegRequest -> {RegIdle} \cup RegBusy]
  BY DEF PushInv, PushTypes
<1> QED
  BY <1>3, <1>4, <1>5 DEF DeactivationGate, RegisterFails

LEMMA UpsertKeeps ==
  ASSUME PushInv, NEW r \in RegRequest, UpsertToken(r)
  PROVE  PushInv'
<1> PICK q : q = regReq[r]
  OBVIOUS
<1> PICK new : new = [id |-> lastId + 1, token |-> q.token, owner |-> q.owner]
  OBVIOUS
<1> PICK C : C = {d \in device_token : d.token = q.token}
  OBVIOUS
<1>1. /\ PushTypes /\ OneRowEach /\ RegisteredDeviceHasRow /\ GoneInv /\ SendsInv /\ MintInv
      /\ q.pc \in {"upsert", "retry"} /\ lastId < MaxRowId
      /\ installed' = installed /\ cachedToken' = cachedToken /\ minting' = minting /\ notify' = notify
      /\ deactivated' = deactivated /\ passedGate' = passedGate
  BY DEF UpsertToken, PushInv, accountVars, sendVars
<1>2. /\ q \in RegBusy /\ q.owner \in Owner /\ q.token \in PushToken
      /\ q.pc \in {"upsert", "denied", "retry"}
  <2>1. q \in RegBusy
    BY <1>1, IdleReg DEF PushTypes
  <2>2. q.owner \in Owner /\ q.token \in PushToken
    BY <2>1 DEF RegBusy
  <2>3. q.pc \in {"upsert", "denied", "retry"}
    BY <1>1
  <2> QED
    BY <2>1, <2>2, <2>3
<1>3. lastId \in Nat /\ lastId + 1 \in 0 .. MaxRowId /\ lastId + 1 \in 1 .. MaxRowId /\ MaxRowId \in Nat
  BY <1>1, PushAssumption DEF PushTypes
<1>4. MintInv'
  BY <1>1, MintKept
<1>5. CASE \E d \in C : d.owner # q.owner
  <2> PICK s : s = IF q.pc = "retry" THEN RegIdle ELSE [q EXCEPT !.pc = "denied"]
    OBVIOUS
  <2>1. /\ regReq' = [regReq EXCEPT ![r] = s]
        /\ device_token' = device_token /\ lastId' = lastId /\ vouched' = vouched
    BY <1>5 DEF UpsertToken, Clash, RowsOf
  <2>2. s \in {RegIdle} \cup RegBusy /\ (s # RegIdle => s.token = q.token)
    <3>1. [q EXCEPT !.pc = "denied"] \in RegBusy /\ [q EXCEPT !.pc = "denied"].token = q.token
      BY <1>2 DEF RegBusy
    <3> QED
      BY <3>1
  <2>3. s.pc \in {"upsert", "denied", "retry"} => s.owner = q.owner /\ s.token = q.token
    <3>1. [q EXCEPT !.pc = "denied"].owner = q.owner /\ [q EXCEPT !.pc = "denied"].token = q.token
      BY <1>2 DEF RegBusy
    <3> QED
      BY <3>1, IdleReg
  <2>4. UNCHANGED <<device_token, lastId, installed, vouched, accountVars, sendVars>>
    BY <1>1, <2>1 DEF accountVars, sendVars
  <2> QED
    BY <1>2, <2>1, <2>2, <2>3, <2>4, PageTurns
<1>6. CASE ~\E d \in C : d.owner # q.owner
  <2>1. /\ device_token' = device_token \cup IF C = {} THEN {new} ELSE {}
        /\ lastId' = IF C = {} THEN lastId + 1 ELSE lastId
        /\ vouched' = [vouched EXCEPT ![q.token] = IF q.token \in installed THEN q.owner ELSE Unclaimed]
        /\ regReq' = [regReq EXCEPT ![r] = RegIdle]
    BY <1>6 DEF UpsertToken, Clash, RowsOf
  <2>2. Turns(r, RegIdle)
    BY <1>1, <2>1, TurnsFacts
  <2>3. /\ vouched' \in [PushToken -> Owner \cup {Unclaimed}]
        /\ q.token \in installed => vouched'[q.token] = q.owner
        /\ \A t \in PushToken : t # q.token => vouched'[t] = vouched[t]
    BY <1>1, <1>2, <2>1 DEF PushTypes
  <2>4. new \in DeviceRows /\ new.id = lastId + 1 /\ new.token = q.token /\ new.owner = q.owner
    BY <1>2, <1>3 DEF DeviceRows
  <2>5. \A d \in device_token : d \in DeviceRows /\ d.id \in Nat /\ d.id <= lastId /\ d.token \in PushToken
                                /\ (d.token \in installed => vouched[d.token] = d.owner)
    BY <1>1, <1>3 DEF PushTypes, OneRowEach, DeviceRows
  <2>6. lastId' \in 0 .. MaxRowId /\ lastId <= lastId'
    BY <1>1, <1>3, <2>1 DEF PushTypes
  <2>7. PushTypes'
    BY <1>1, <2>1, <2>2, <2>3, <2>4, <2>6 DEF PushTypes, Turns
  <2>8. \A d \in device_token' : d \in device_token \/ (C = {} /\ d = new)
    BY <2>1
  <2>9. OneRowEach'
    <3>1. ASSUME NEW d \in device_token' PROVE d.id <= lastId' /\ (d.token \in installed => vouched'[d.token] = d.owner)
      <4>1. CASE d \in device_token
        <5>1. d.token = q.token => d.owner = q.owner
          BY <1>6, <4>1
        <5>2. d.id <= lastId'
          BY <1>3, <2>5, <2>6, <4>1
        <5> QED
          BY <2>3, <2>5, <4>1, <5>1, <5>2
      <4>2. CASE C = {} /\ d = new
        BY <1>3, <2>1, <2>3, <2>4, <4>2
      <4> QED
        BY <2>8, <4>1, <4>2
    <3>2. ASSUME NEW d \in device_token', NEW e \in device_token', d.id = e.id \/ d.token = e.token
          PROVE  d = e
      <4>1. CASE d \in device_token /\ e \in device_token
        BY <1>1, <3>2, <4>1 DEF OneRowEach
      <4>2. \A f \in device_token : C = {} => f.id # new.id /\ f.token # new.token
        BY <1>3, <2>4, <2>5
      <4> QED
        BY <2>8, <3>2, <4>1, <4>2
    <3> QED
      BY <1>1, <3>1, <3>2 DEF OneRowEach
  <2>10. RegisteredDeviceHasRow'
    <3> SUFFICES ASSUME NEW t \in installed, vouched'[t] # Unclaimed
                 PROVE  \E d \in device_token' : d.token = t /\ d.owner = vouched'[t]
      BY <1>1 DEF RegisteredDeviceHasRow, RowsOf
    <3>1. CASE t = q.token
      <4>1. \E d \in device_token' : d.token = q.token /\ d.owner = q.owner
        <5>1. CASE C = {}
          BY <2>1, <2>4, <5>1
        <5>2. CASE C # {}
          BY <1>6, <2>1, <5>2
        <5> QED
          BY <5>1, <5>2
      <4> QED
        BY <2>3, <3>1, <4>1
    <3>2. CASE t # q.token
      <4>2. t \in PushToken /\ vouched'[t] = vouched[t]
        BY <1>1, <2>3, <3>2 DEF PushTypes
      <4>3. \E d \in device_token : d.token = t /\ d.owner = vouched[t]
        BY <1>1, <4>2 DEF RegisteredDeviceHasRow, RowsOf
      <4> QED
        BY <2>1, <4>2, <4>3
    <3> QED
      BY <3>1, <3>2
  <2>11. SendsInv'
    <3>1. \A e \in device_token' : e \in device_token \/ e.id = lastId + 1
      BY <2>4, <2>8
    <3> QED
      BY <1>1, <1>3, <2>6, <3>1, OldRowsKept DEF PushTypes
  <2>12. GoneInv'
    <3>1. deactivated /\ q.owner = Adult => q.token \in passedGate
      <4>1. q.owner = Adult => r \in PastGate
        BY <1>1 DEF PastGate
      <4> QED
        BY <1>1, <4>1 DEF GoneInv
    <3>2. \A d \in device_token' : d \in device_token \/ (deactivated /\ d.owner = Adult => d.token \in passedGate)
      BY <2>4, <2>8, <3>1
    <3>3. \A p \in RegRequest : regReq'[p] # regReq[p] => regReq'[p].pc = "idle"
      BY <2>2, IdleReg DEF Turns
    <3> QED
      BY <1>1, <3>2, <3>3, GoneKept
  <2> QED
    BY <1>4, <2>7, <2>9, <2>10, <2>11, <2>12 DEF PushInv
<1> QED
  BY <1>5, <1>6

\* Rows that go away, each with what was said of it, cost no device that is there.
LEMMA RowsLeave ==
  ASSUME PushInv, device_token' \subseteq device_token, lastId' = lastId,
         installed' \subseteq installed,
         vouched' \in [PushToken -> Owner \cup {Unclaimed}],
         \A d \in device_token' : d.token \in installed' => vouched'[d.token] = d.owner,
         regReq' \in [RegRequest -> {RegIdle} \cup RegBusy],
         \A t \in installed' : vouched'[t] # Unclaimed =>
             /\ vouched'[t] = vouched[t]
             /\ \A d \in device_token : d.token = t /\ d.owner = vouched[t] => d \in device_token',
         cachedToken' \in BOOLEAN, deactivated' \in BOOLEAN, passedGate' \subseteq PushToken
  PROVE  PushTypes' /\ OneRowEach' /\ RegisteredDeviceHasRow'
<1>1. PushTypes /\ OneRowEach /\ RegisteredDeviceHasRow
  BY DEF PushInv
<1>2. PushTypes'
  BY <1>1 DEF PushTypes
<1>3. OneRowEach'
  BY <1>1 DEF OneRowEach
<1>4. RegisteredDeviceHasRow'
  <2> SUFFICES ASSUME NEW t \in installed', vouched'[t] # Unclaimed
               PROVE  \E d \in device_token' : d.token = t /\ d.owner = vouched'[t]
    BY DEF RegisteredDeviceHasRow, RowsOf
  <2>1. /\ vouched'[t] = vouched[t] /\ t \in installed
        /\ \A d \in device_token : d.token = t /\ d.owner = vouched[t] => d \in device_token'
    OBVIOUS
  <2>2. PICK d \in device_token : d.token = t /\ d.owner = vouched[t]
    BY <1>1, <2>1 DEF RegisteredDeviceHasRow, RowsOf
  <2> QED
    BY <2>1, <2>2
<1> QED
  BY <1>2, <1>3, <1>4

LEMMA FreeKeeps ==
  ASSUME PushInv, NEW r \in RegRequest, FreeToken(r)
  PROVE  PushInv'
<1> PICK q : q = regReq[r]
  OBVIOUS
<1> PICK s : s = [q EXCEPT !.pc = "retry"]
  OBVIOUS
<1>1. /\ PushTypes /\ OneRowEach /\ GoneInv /\ SendsInv /\ MintInv /\ q.pc = "denied"
      /\ device_token' = device_token \ {d \in device_token : d.token = q.token}
      /\ vouched' = [vouched EXCEPT ![q.token] = Unclaimed]
      /\ lastId' = lastId /\ installed' = installed
      /\ deactivated' = deactivated /\ passedGate' = passedGate
      /\ cachedToken' = cachedToken /\ minting' = minting /\ notify' = notify
  BY DEF FreeToken, RowsOf, PushInv, accountVars, sendVars
<1>2. q \in RegBusy /\ q.token \in PushToken
  <2>1. q \in RegBusy
    BY <1>1, IdleReg DEF PushTypes
  <2> QED
    BY <2>1 DEF RegBusy
<1>3. s \in RegBusy /\ s.token = q.token /\ s.owner = q.owner
  BY <1>2 DEF RegBusy
<1>4. Turns(r, s)
  <2>1. regReq' = [regReq EXCEPT ![r] = s]
    BY <1>1 DEF FreeToken, PushTypes
  <2> QED
    BY <1>1, <1>3, <2>1, TurnsFacts
<1>5. /\ vouched' \in [PushToken -> Owner \cup {Unclaimed}] /\ vouched'[q.token] = Unclaimed
      /\ \A u \in PushToken : u # q.token => vouched'[u] = vouched[u]
  BY <1>1, <1>2 DEF PushTypes
<1>6. PushTypes' /\ OneRowEach' /\ RegisteredDeviceHasRow'
  <2>0. \A d \in device_token' : d \in device_token /\ d.token # q.token /\ d.token \in PushToken
    BY <1>1 DEF PushTypes, DeviceRows
  <2>1. \A d \in device_token' : d.token \in installed' => vouched'[d.token] = d.owner
    BY <1>1, <1>5, <2>0 DEF OneRowEach
  <2>2. \A t \in installed' : vouched'[t] # Unclaimed =>
             /\ vouched'[t] = vouched[t]
             /\ \A d \in device_token : d.token = t /\ d.owner = vouched[t] => d \in device_token'
    BY <1>1, <1>5 DEF PushTypes
  <2>3. regReq' \in [RegRequest -> {RegIdle} \cup RegBusy]
    BY <1>4 DEF Turns
  <2>4. /\ cachedToken' \in BOOLEAN /\ deactivated' \in BOOLEAN /\ passedGate' \subseteq PushToken
        /\ device_token' \subseteq device_token /\ installed' \subseteq installed
    BY <1>1 DEF PushTypes
  <2> QED
    BY <1>1, <1>5, <2>1, <2>2, <2>3, <2>4, RowsLeave
<1>7. SendsInv'
  BY <1>1, PushAssumption, OldRowsKept DEF PushTypes
<1>8. MintInv'
  BY <1>1, MintKept
<1>9. GoneInv'
  <2>1. \A p \in RegRequest : regReq'[p] # regReq[p] => p = r /\ regReq'[p] = s
    BY <1>4 DEF Turns
  <2> QED
    BY <1>1, <1>3, <2>1, GoneKept
<1> QED
  BY <1>6, <1>7, <1>8, <1>9 DEF PushInv

LEMMA UnregisterKeeps ==
  ASSUME PushInv, NEW c \in Claim, unregisterDeviceToken(c[1], c[2])
  PROVE  PushInv'
<1> PICK o : o = c[1]
  OBVIOUS
<1> PICK t : t = c[2]
  OBVIOUS
<1> PICK D : D = {d \in device_token : d.token = t /\ d.owner = o}
  OBVIOUS
<1>0. RowsOfOwner(o, t) = D
  BY DEF RowsOfOwner, RowsOf
<1>1. /\ PushTypes /\ OneRowEach /\ GoneInv /\ SendsInv /\ MintInv /\ D # {} /\ t \in PushToken
      /\ device_token' = device_token \ D /\ vouched' = [vouched EXCEPT ![t] = Unclaimed]
      /\ lastId' = lastId /\ installed' = installed /\ regReq' = regReq
      /\ deactivated' = deactivated /\ passedGate' = passedGate
      /\ cachedToken' = cachedToken /\ minting' = minting /\ notify' = notify
  BY <1>0, PushAssumption DEF unregisterDeviceToken, PushInv, accountVars, sendVars
<1>2. /\ vouched' \in [PushToken -> Owner \cup {Unclaimed}] /\ vouched'[t] = Unclaimed
      /\ \A u \in PushToken : u # t => vouched'[u] = vouched[u]
  BY <1>1 DEF PushTypes
<1>3. \A d \in device_token' : d.token # t /\ d.token \in PushToken /\ d \in device_token
  BY <1>1 DEF OneRowEach, PushTypes, DeviceRows
<1>4. PushTypes' /\ OneRowEach' /\ RegisteredDeviceHasRow'
  <2>1. \A d \in device_token' : d.token \in installed' => vouched'[d.token] = d.owner
    BY <1>1, <1>2, <1>3 DEF OneRowEach
  <2>2. \A u \in installed' : vouched'[u] # Unclaimed =>
             /\ vouched'[u] = vouched[u]
             /\ \A d \in device_token : d.token = u /\ d.owner = vouched[u] => d \in device_token'
    BY <1>1, <1>2 DEF PushTypes
  <2>3. /\ regReq' \in [RegRequest -> {RegIdle} \cup RegBusy] /\ cachedToken' \in BOOLEAN
        /\ deactivated' \in BOOLEAN /\ passedGate' \subseteq PushToken
        /\ device_token' \subseteq device_token /\ installed' \subseteq installed
    BY <1>1 DEF PushTypes
  <2> QED
    BY <1>1, <1>2, <2>1, <2>2, <2>3, RowsLeave
<1>5. SendsInv'
  BY <1>1, PushAssumption, OldRowsKept DEF PushTypes
<1>6. MintInv'
  BY <1>1, MintKept
<1>7. GoneInv'
  BY <1>1, GoneKept
<1> QED
  BY <1>4, <1>5, <1>6, <1>7 DEF PushInv

\* pool.ts, deactivateAccount: her rows go; whoever of her is past the gate is noted.
LEMMA DeactivateKeeps ==
  ASSUME PushInv, DeactivateOwner
  PROVE  PushInv'
<1>1. /\ PushTypes /\ OneRowEach /\ SendsInv /\ MintInv /\ deactivated' = TRUE
      /\ device_token' = {d \in device_token : d.owner # Adult}
      /\ vouched' = [t \in PushToken |-> IF vouched[t] = Adult THEN Unclaimed ELSE vouched[t]]
      /\ passedGate' = {regReq[r].token : r \in PastGate}
      /\ lastId' = lastId /\ installed' = installed /\ regReq' = regReq
      /\ cachedToken' = cachedToken /\ minting' = minting /\ notify' = notify
  BY DEF DeactivateOwner, PushInv, sendVars
<1>2. passedGate' \subseteq PushToken
  <2>1. ASSUME NEW r \in PastGate PROVE regReq[r].token \in PushToken
    <3>1. regReq[r] \in RegBusy
      BY <1>1, <2>1, IdleReg DEF PastGate, PushTypes
    <3> QED
      BY <3>1 DEF RegBusy
  <2> QED
    BY <1>1, <2>1
<1>3. vouched' \in [PushToken -> Owner \cup {Unclaimed}]
  BY <1>1 DEF PushTypes
<1>4. PushTypes' /\ OneRowEach' /\ RegisteredDeviceHasRow'
  <2>0. \A d \in device_token : d.token \in PushToken
    BY <1>1 DEF PushTypes, DeviceRows
  <2>1. \A d \in device_token' : d.token \in installed' => vouched'[d.token] = d.owner
    BY <1>1, <2>0 DEF OneRowEach
  <2>2. \A u \in installed' : vouched'[u] # Unclaimed =>
             /\ vouched'[u] = vouched[u]
             /\ \A d \in device_token : d.token = u /\ d.owner = vouched[u] => d \in device_token'
    BY <1>1 DEF PushTypes
  <2>3. /\ regReq' \in [RegRequest -> {RegIdle} \cup RegBusy] /\ cachedToken' \in BOOLEAN
        /\ deactivated' \in BOOLEAN
        /\ device_token' \subseteq device_token /\ installed' \subseteq installed
    BY <1>1 DEF PushTypes
  <2> QED
    BY <1>1, <1>2, <1>3, <2>1, <2>2, <2>3, RowsLeave
<1>5. SendsInv'
  BY <1>1, PushAssumption, OldRowsKept DEF PushTypes
<1>6. MintInv'
  BY <1>1, MintKept
<1>7. GoneInv'
  <2>1. PastGate' = PastGate
    BY <1>1 DEF PastGate
  <2> QED
    BY <1>1, <2>1 DEF GoneInv
<1> QED
  BY <1>4, <1>5, <1>6, <1>7 DEF PushInv

LEMMA UninstallKeeps ==
  ASSUME PushInv, NEW t \in Leaving, Uninstall(t)
  PROVE  PushInv'
<1>1. /\ PushTypes /\ OneRowEach /\ RegisteredDeviceHasRow /\ GoneInv /\ SendsInv /\ MintInv
      /\ t \in PushToken
      /\ device_token' = device_token /\ vouched' = [vouched EXCEPT ![t] = Unclaimed]
      /\ lastId' = lastId /\ installed' = installed \ {t} /\ regReq' = regReq
      /\ deactivated' = deactivated /\ passedGate' = passedGate
      /\ cachedToken' = cachedToken /\ minting' = minting /\ notify' = notify
  BY PushAssumption DEF Uninstall, PushInv, accountVars, sendVars
<1>2. /\ vouched' \in [PushToken -> Owner \cup {Unclaimed}]
      /\ \A u \in PushToken : u # t => vouched'[u] = vouched[u]
  BY <1>1 DEF PushTypes
<1>3. PushTypes' /\ OneRowEach' /\ RegisteredDeviceHasRow'
  <2>1. \A d \in device_token' : d.token \in installed' => vouched'[d.token] = d.owner
    BY <1>1, <1>2 DEF OneRowEach, PushTypes
  <2>2. \A u \in installed' : vouched'[u] # Unclaimed =>
             /\ vouched'[u] = vouched[u]
             /\ \A d \in device_token : d.token = u /\ d.owner = vouched[u] => d \in device_token'
    BY <1>1, <1>2 DEF PushTypes
  <2>3. /\ regReq' \in [RegRequest -> {RegIdle} \cup RegBusy] /\ cachedToken' \in BOOLEAN
        /\ deactivated' \in BOOLEAN /\ passedGate' \subseteq PushToken
        /\ device_token' \subseteq device_token /\ installed' \subseteq installed
    BY <1>1 DEF PushTypes
  <2> QED
    BY <1>1, <1>2, <2>1, <2>2, <2>3, RowsLeave
<1>4. SendsInv'
  BY <1>1, PushAssumption, OldRowsKept DEF PushTypes
<1>5. MintInv'
  BY <1>1, MintKept
<1>6. GoneInv'
  BY <1>1, GoneKept
<1> QED
  BY <1>3, <1>4, <1>5, <1>6 DEF PushInv

-----------------------------------------------------------------------------
(* Sending. *)

LEMMA TableStays ==
  ASSUME PushInv, UNCHANGED tableVars, cachedToken' \in BOOLEAN
  PROVE  /\ PushTypes' /\ OneRowEach' /\ RegisteredDeviceHasRow' /\ GoneInv'
         /\ device_token' = device_token /\ lastId' = lastId /\ installed' = installed
<1>1. /\ PushTypes /\ OneRowEach /\ RegisteredDeviceHasRow /\ GoneInv
      /\ device_token' = device_token /\ lastId' = lastId /\ installed' = installed
      /\ vouched' = vouched /\ regReq' = regReq
      /\ deactivated' = deactivated /\ passedGate' = passedGate
  BY DEF PushInv, tableVars
<1> QED
  BY <1>1 DEF PushTypes, OneRowEach, RegisteredDeviceHasRow, RowsOf, GoneInv, PastGate

\* The send to d goes on as s; every other stays.
Sent(n, d, s) ==
  /\ DOMAIN notify' = Notification /\ NotifyOK(n)'
  /\ notify'[n].rows = notify[n].rows /\ notify'[n].sent[d] = s
  /\ \A e \in notify[n].rows : e # d => notify'[n].sent[e] = notify[n].sent[e]
  /\ \A p \in Notification : p # n => notify'[p] = notify[p]

LEMMA SendFacts ==
  ASSUME SendsInv, NEW n \in Notification, NEW d, NEW was, SendIs(n, d, was),
         NEW s \in SendStates, SendGoes(n, d, s)
  PROVE  Sent(n, d, s) /\ d \in notify[n].rows /\ notify[n].sent[d] = was
<1>1. DOMAIN notify = Notification /\ d \in notify[n].rows /\ notify[n].sent[d] = was
  BY DEF SendsInv, SendIs
<1>2. PICK R, f : R \in SUBSET DeviceRows /\ f \in [R -> SendStates] /\
             notify[n] = [pc |-> "sending", rows |-> R, sent |-> f]
  <2>1. NotifyOK(n) /\ notify[n] # NotifyIdle
    BY <1>1, IdleNotify DEF SendsInv
  <2> QED
    BY <2>1, Zenon DEF NotifyOK
<1>3. d \in R /\ notify[n].rows = R /\ notify[n].sent = f
  BY <1>1, <1>2
<1> PICK g : g = [f EXCEPT ![d] = s]
  OBVIOUS
<1>4. g \in [R -> SendStates] /\ g[d] = s /\ \A e \in R : e # d => g[e] = f[e]
  BY <1>2, <1>3
<1>5. notify'[n] = [pc |-> "sending", rows |-> R, sent |-> g]
  <2>1. notify'[n] = [notify[n] EXCEPT !.sent = [notify[n].sent EXCEPT ![d] = s]]
    BY <1>1 DEF SendGoes
  <2>2. notify'[n] = [notify[n] EXCEPT !.sent = g]
    BY <1>3, <2>1
  <2> QED
    BY <1>2, <2>2
<1>6. DOMAIN notify' = Notification /\ \A p \in Notification : p # n => notify'[p] = notify[p]
  BY <1>1 DEF SendGoes
<1>7. NotifyOK(n)'
  BY <1>2, <1>4, <1>5 DEF NotifyOK
<1>8. notify'[n].rows = R /\ notify'[n].sent = g
  BY <1>5
<1> QED
  BY <1>1, <1>3, <1>4, <1>6, <1>7, <1>8 DEF Sent

LEMMA SentKeepsRows ==
  ASSUME SendsInv, NEW n \in Notification, NEW d \in notify[n].rows, NEW s, Sent(n, d, s),
         s = "gone" => d.token \notin installed,
         device_token' \subseteq device_token, lastId' = lastId, installed' = installed
  PROVE  SendsInv'
<1>1. ASSUME NEW p \in Notification PROVE NotifyOK(p)'
  <2>1. CASE p = n
    BY <2>1 DEF Sent
  <2>2. CASE p # n
    BY <2>2 DEF Sent, SendsInv, NotifyOK
  <2> QED
    BY <2>1, <2>2
<1>2. ASSUME NEW p \in Notification, NEW e \in notify'[p].rows
      PROVE  OldRowOK(e, notify[p].sent[e])'
  <2>1. e \in notify[p].rows
    BY <1>2 DEF Sent
  <2>2. OldRowOK(e, notify[p].sent[e])
    BY <2>1 DEF SendsInv
  <2>3. e.id <= lastId' /\ \A f \in device_token' : f.id = e.id => f = e
    BY <2>2 DEF OldRowOK
  <2>4. notify'[p].sent[e] = "gone" => e.token \notin installed
    <3>1. CASE p = n /\ e = d
      BY <3>1 DEF Sent
    <3>2. CASE ~(p = n /\ e = d)
      <4>1. notify'[p].sent[e] = notify[p].sent[e]
        BY <2>1, <3>2 DEF Sent
      <4> QED
        BY <2>2, <4>1 DEF OldRowOK
    <3> QED
      BY <3>1, <3>2
  <2> QED
    BY <2>3, <2>4 DEF OldRowOK
<1>3. DOMAIN notify' = Notification
  BY DEF Sent
<1> QED
  BY <1>1, <1>2, <1>3 DEF SendsInv

\* A send that has nothing to do with the mint, before or after.
LEMMA SentKeepsMint ==
  ASSUME MintInv, NEW n \in Notification, NEW d \in notify[n].rows, NEW s, Sent(n, d, s),
         notify[n].sent[d] \notin {"minting", "joined"}, s \notin {"minting", "joined"},
         minting' = minting
  PROVE  MintInv'
<1>1. <<n, d>> \notin minting
  BY DEF MintInv
<1>2. ASSUME NEW m \in minting
      PROVE  /\ m \in Notification \X DeviceRows /\ m[2] \in notify'[m[1]].rows
             /\ notify'[m[1]].sent[m[2]] = notify[m[1]].sent[m[2]]
             /\ notify[m[1]].sent[m[2]] \in {"minting", "joined"}
  <2>1. /\ m \in Notification \X DeviceRows /\ m[2] \in notify[m[1]].rows
        /\ notify[m[1]].sent[m[2]] \in {"minting", "joined"}
    BY DEF MintInv
  <2>2. ~(m[1] = n /\ m[2] = d)
    BY <1>1, <2>1
  <2>3. m[1] \in Notification
    BY <2>1
  <2> QED
    BY <2>1, <2>2, <2>3 DEF Sent
<1>3. ASSUME NEW p \in Notification, NEW e \in notify'[p].rows,
             notify'[p].sent[e] \in {"minting", "joined"}
      PROVE  <<p, e>> \in minting
  <2>1. ~(p = n /\ e = d)
    BY <1>3 DEF Sent
  <2>2. e \in notify[p].rows /\ notify'[p].sent[e] = notify[p].sent[e]
    BY <1>3, <2>1 DEF Sent
  <2> QED
    BY <1>3, <2>2 DEF MintInv
<1>4. ASSUME NEW m \in minting, NEW k \in minting,
             notify'[m[1]].sent[m[2]] = "minting", notify'[k[1]].sent[k[2]] = "minting"
      PROVE  m = k
  <2>1. notify[m[1]].sent[m[2]] = "minting" /\ notify[k[1]].sent[k[2]] = "minting"
    BY <1>2, <1>4
  <2> QED
    BY <2>1 DEF MintInv
<1> QED
  BY <1>2, <1>3, <1>4 DEF MintInv

LEMMA MintAsksKeep ==
  ASSUME PushInv, NEW n \in Notification, NEW d \in notify[n].rows, mintAccessToken(n, d)
  PROVE  PushInv'
<1>1. /\ SendsInv /\ MintInv /\ SendIs(n, d, "waiting") /\ UNCHANGED tableVars
      /\ cachedToken' = cachedToken /\ cachedToken \in BOOLEAN
  BY DEF mintAccessToken, PushInv, PushTypes
<1>2. /\ PushTypes' /\ OneRowEach' /\ RegisteredDeviceHasRow' /\ GoneInv'
      /\ device_token' = device_token /\ lastId' = lastId /\ installed' = installed
  BY <1>1, TableStays
<1>3. CASE cachedToken
  <2>1. SendGoes(n, d, "posting") /\ minting' = minting
    BY <1>3 DEF mintAccessToken
  <2>2. Sent(n, d, "posting") /\ notify[n].sent[d] = "waiting"
    BY <1>1, <2>1, SendFacts DEF SendStates
  <2> QED
    BY <1>1, <1>2, <2>1, <2>2, SentKeepsRows, SentKeepsMint DEF PushInv
<1>4. CASE ~cachedToken
  <2> PICK s : s = IF MintInFlight THEN "joined" ELSE "minting"
    OBVIOUS
  <2>1. SendGoes(n, d, s) /\ minting' = minting \cup {<<n, d>>} /\ s \in SendStates
    BY <1>4 DEF mintAccessToken, SendStates
  <2>2. Sent(n, d, s) /\ notify[n].sent[d] = "waiting"
    BY <1>1, <2>1, SendFacts
  <2>3. SendsInv'
    BY <1>1, <1>2, <2>2, SentKeepsRows
  <2>4. d \in DeviceRows
    BY <1>1, IdleNotify DEF SendsInv, NotifyOK
  <2>5. ASSUME NEW m \in minting
        PROVE  /\ m \in Notification \X DeviceRows /\ m[2] \in notify'[m[1]].rows
               /\ notify'[m[1]].sent[m[2]] = notify[m[1]].sent[m[2]]
               /\ notify[m[1]].sent[m[2]] \in {"minting", "joined"}
    <3>1. /\ m \in Notification \X DeviceRows /\ m[2] \in notify[m[1]].rows /\ m[1] \in Notification
          /\ notify[m[1]].sent[m[2]] \in {"minting", "joined"}
      BY <1>1 DEF MintInv
    <3>2. ~(m[1] = n /\ m[2] = d)
      BY <2>2, <3>1
    <3> QED
      BY <2>2, <3>1, <3>2 DEF Sent
  <2>6. ASSUME NEW m \in minting'
        PROVE  /\ m \in Notification \X DeviceRows /\ m[2] \in notify'[m[1]].rows
               /\ notify'[m[1]].sent[m[2]] \in {"minting", "joined"}
    <3>1. CASE m \in minting
      BY <2>5, <3>1
    <3>2. CASE m = <<n, d>>
      BY <2>2, <2>4, <3>2 DEF Sent
    <3> QED
      BY <2>1, <3>1, <3>2
  <2>7. ASSUME NEW p \in Notification, NEW e \in notify'[p].rows,
               notify'[p].sent[e] \in {"minting", "joined"}
        PROVE  <<p, e>> \in minting'
    <3>1. CASE p = n /\ e = d
      BY <2>1, <3>1
    <3>2. CASE ~(p = n /\ e = d)
      <4>1. e \in notify[p].rows /\ notify'[p].sent[e] = notify[p].sent[e]
        BY <2>2, <2>7, <3>2 DEF Sent
      <4> QED
        BY <1>1, <2>1, <2>7, <4>1 DEF MintInv
    <3> QED
      BY <3>1, <3>2
  <2>8. ASSUME NEW m \in minting', NEW k \in minting',
               notify'[m[1]].sent[m[2]] = "minting", notify'[k[1]].sent[k[2]] = "minting"
        PROVE  m = k
    <3>1. CASE minting = {}
      BY <2>1, <3>1
    <3>2. CASE minting # {}
      <4>1. notify'[n].sent[d] = "joined"
        BY <2>2, <3>2 DEF Sent, MintInFlight
      <4>2. m \in minting /\ k \in minting
        BY <2>1, <2>8, <4>1
      <4> QED
        BY <1>1, <2>5, <2>8, <4>2 DEF MintInv
    <3> QED
      BY <3>1, <3>2
  <2>9. MintInv'
    BY <2>6, <2>7, <2>8 DEF MintInv
  <2> QED
    BY <1>2, <2>3, <2>9 DEF PushInv
<1> QED
  BY <1>3, <1>4

LEMMA PlatformKeeps ==
  ASSUME PushInv, NEW n \in Notification, NEW d \in notify[n].rows, PlatformAnswers(n, d)
  PROVE  PushInv'
<1>1. /\ SendsInv /\ MintInv /\ SendIs(n, d, "posting") /\ UNCHANGED tableVars
      /\ cachedToken' \in BOOLEAN /\ minting' = minting
  BY DEF PlatformAnswers, PushInv, PushTypes
<1>2. /\ PushTypes' /\ OneRowEach' /\ RegisteredDeviceHasRow' /\ GoneInv'
      /\ device_token' = device_token /\ lastId' = lastId /\ installed' = installed
  BY <1>1, TableStays
<1>3. PICK s : /\ s \in {"ok", "gone", "failed"} /\ SendGoes(n, d, s)
               /\ s = "gone" => d.token \notin installed
  <2>1. CASE SendGoes(n, d, "ok")
    BY <2>1
  <2>2. CASE \E gone \in DeviceGone(d.token) : SendGoes(n, d, IF gone THEN "gone" ELSE "failed")
    <3>1. PICK gone \in DeviceGone(d.token) : SendGoes(n, d, IF gone THEN "gone" ELSE "failed")
      BY <2>2
    <3>2. CASE gone
      <4>1. d.token \notin installed
        BY <3>1, <3>2 DEF DeviceGone
      <4>2. SendGoes(n, d, "gone")
        BY <3>1, <3>2
      <4> QED
        BY <4>1, <4>2
    <3>3. CASE ~gone
      <4>1. SendGoes(n, d, "failed")
        BY <3>1, <3>3
      <4> QED
        BY <4>1
    <3> QED
      BY <3>2, <3>3
  <2> QED
    BY <2>1, <2>2 DEF PlatformAnswers
<1>4. Sent(n, d, s) /\ notify[n].sent[d] = "posting"
  BY <1>1, <1>3, SendFacts DEF SendStates
<1> QED
  BY <1>1, <1>2, <1>3, <1>4, SentKeepsRows, SentKeepsMint DEF PushInv

LEMMA RemoveKeeps ==
  ASSUME PushInv, NEW n \in Notification, NEW d \in notify[n].rows, removeDeviceTokenSystem(n, d)
  PROVE  PushInv'
<1>1. /\ PushTypes /\ OneRowEach /\ RegisteredDeviceHasRow /\ GoneInv /\ SendsInv /\ MintInv
      /\ SendIs(n, d, "gone") /\ SendGoes(n, d, "failed")
      /\ device_token' \in {device_token, {e \in device_token : e.id # d.id}}
      /\ lastId' = lastId /\ installed' = installed /\ regReq' = regReq /\ vouched' = vouched
      /\ deactivated' = deactivated /\ passedGate' = passedGate
      /\ cachedToken' = cachedToken /\ minting' = minting
  BY DEF removeDeviceTokenSystem, PushInv, accountVars
<1>2. Sent(n, d, "failed") /\ notify[n].sent[d] = "gone"
  BY <1>1, SendFacts DEF SendStates
<1>3. d.token \notin installed /\ \A e \in device_token : e.id = d.id => e = d
  BY <1>1, <1>2 DEF SendsInv, OldRowOK
<1>4. SendsInv' /\ MintInv'
  BY <1>1, <1>2, SentKeepsRows, SentKeepsMint
<1>5. PushTypes' /\ OneRowEach' /\ RegisteredDeviceHasRow'
  <2>1. \A e \in device_token' : e.token \in installed' => vouched'[e.token] = e.owner
    BY <1>1 DEF OneRowEach
  <2>2. \A u \in installed' : vouched'[u] # Unclaimed =>
             /\ vouched'[u] = vouched[u]
             /\ \A e \in device_token : e.token = u /\ e.owner = vouched[u] => e \in device_token'
    BY <1>1, <1>3
  <2>3. /\ regReq' \in [RegRequest -> {RegIdle} \cup RegBusy] /\ cachedToken' \in BOOLEAN
        /\ deactivated' \in BOOLEAN /\ passedGate' \subseteq PushToken
        /\ vouched' \in [PushToken -> Owner \cup {Unclaimed}]
        /\ device_token' \subseteq device_token /\ installed' \subseteq installed
    BY <1>1 DEF PushTypes
  <2> QED
    BY <1>1, <2>1, <2>2, <2>3, RowsLeave
<1>6. GoneInv'
  BY <1>1, GoneKept
<1> QED
  BY <1>4, <1>5, <1>6 DEF PushInv

LEMMA ReturnsKeep ==
  ASSUME PushInv, NEW n \in Notification, NotifyReturns(n)
  PROVE  PushInv'
<1>1. /\ SendsInv /\ MintInv /\ UNCHANGED tableVars /\ minting' = minting /\ cachedToken' \in BOOLEAN
      /\ \A d \in notify[n].rows : notify[n].sent[d] \in Settled
      /\ notify' = [notify EXCEPT ![n] = NotifyIdle]
  BY DEF NotifyReturns, PushInv, PushTypes
<1>2. /\ PushTypes' /\ OneRowEach' /\ RegisteredDeviceHasRow' /\ GoneInv'
      /\ device_token' = device_token /\ lastId' = lastId /\ installed' = installed
  BY <1>1, TableStays
<1>3. /\ DOMAIN notify' = Notification /\ notify'[n] = NotifyIdle /\ notify'[n].rows = {}
      /\ \A p \in Notification : p # n => notify'[p] = notify[p]
  BY <1>1, IdleNotify DEF SendsInv
<1>4. SendsInv'
  <2>1. ASSUME NEW p \in Notification PROVE NotifyOK(p)'
    BY <1>1, <1>3 DEF SendsInv, NotifyOK
  <2>2. ASSUME NEW p \in Notification, NEW d \in notify'[p].rows
        PROVE  OldRowOK(d, notify[p].sent[d])'
    <3>1. p # n /\ d \in notify[p].rows /\ notify'[p] = notify[p]
      BY <1>3, <2>2
    <3> QED
      BY <1>1, <1>2, <3>1 DEF SendsInv, OldRowOK
  <2> QED
    BY <1>3, <2>1, <2>2 DEF SendsInv
<1>5. MintInv'
  <2>1. ASSUME NEW m \in minting PROVE m[1] \in Notification /\ m[1] # n
    <3>1. /\ m \in Notification \X DeviceRows /\ m[2] \in notify[m[1]].rows
          /\ notify[m[1]].sent[m[2]] \in {"minting", "joined"}
      BY <1>1 DEF MintInv
    <3>2. m[1] # n
      BY <1>1, <3>1 DEF Settled
    <3> QED
      BY <3>1, <3>2
  <2>2. \A m \in minting : notify'[m[1]] = notify[m[1]]
    BY <1>3, <2>1
  <2>3. \A p \in Notification : \A d \in notify'[p].rows : p # n /\ notify'[p] = notify[p]
    BY <1>3
  <2> QED
    BY <1>1, <2>2, <2>3 DEF MintInv
<1> QED
  BY <1>2, <1>4, <1>5 DEF PushInv

LEMMA NotifyKeeps ==
  ASSUME PushInv, NEW n \in Notification, notifyDevices(n)
  PROVE  PushInv'
<1> PICK R : R = {d \in device_token : d.owner = Kid}
  OBVIOUS
<1>1. /\ PushTypes /\ OneRowEach /\ SendsInv /\ MintInv /\ UNCHANGED tableVars /\ minting' = minting
      /\ cachedToken' \in BOOLEAN /\ notify[n].pc = "idle"
  BY DEF notifyDevices, PushInv, PushTypes
<1>2. /\ PushTypes' /\ OneRowEach' /\ RegisteredDeviceHasRow' /\ GoneInv'
      /\ device_token' = device_token /\ lastId' = lastId /\ installed' = installed
  BY <1>1, TableStays
<1>3. PICK allowed \in BOOLEAN :
        notify' = [notify EXCEPT ![n] =
          [pc |-> "sending", rows |-> R,
           sent |-> [d \in R |-> IF allowed /\ d.token \notin Deaf THEN "waiting" ELSE "refused"]]]
  BY DEF notifyDevices
<1> PICK f : f = [d \in R |-> IF allowed /\ d.token \notin Deaf THEN "waiting" ELSE "refused"]
  OBVIOUS
<1>4. f \in [R -> SendStates] /\ \A d \in R : f[d] \in {"waiting", "refused"}
  BY DEF SendStates
<1>5. R \in SUBSET DeviceRows
  BY <1>1 DEF PushTypes
<1>6. /\ DOMAIN notify' = Notification /\ notify'[n] = [pc |-> "sending", rows |-> R, sent |-> f]
      /\ \A p \in Notification : p # n => notify'[p] = notify[p]
  BY <1>1, <1>3 DEF SendsInv
<1>7. notify'[n].rows = R /\ notify'[n].sent = f
  BY <1>6
<1>8. notify[n].rows = {}
  BY <1>1, IdleNotify DEF SendsInv, NotifyOK
<1>9. SendsInv'
  <2>1. ASSUME NEW p \in Notification PROVE NotifyOK(p)'
    <3>1. CASE p = n
      BY <1>4, <1>5, <1>6, <3>1 DEF NotifyOK
    <3>2. CASE p # n
      BY <1>1, <1>6, <3>2 DEF SendsInv, NotifyOK
    <3> QED
      BY <3>1, <3>2
  <2>2. ASSUME NEW p \in Notification, NEW d \in notify'[p].rows
        PROVE  OldRowOK(d, notify[p].sent[d])'
    <3>1. CASE p = n
      <4>1. d \in device_token /\ f[d] # "gone" /\ notify'[p].sent[d] = f[d]
        BY <1>4, <1>7, <2>2, <3>1
      <4>2. d.id <= lastId /\ \A e \in device_token : e.id = d.id => e = d
        BY <1>1, <4>1 DEF OneRowEach
      <4> QED
        BY <1>2, <4>1, <4>2 DEF OldRowOK
    <3>2. CASE p # n
      <4>1. d \in notify[p].rows /\ notify'[p] = notify[p]
        BY <1>6, <2>2, <3>2
      <4> QED
        BY <1>1, <1>2, <4>1 DEF SendsInv, OldRowOK
    <3> QED
      BY <3>1, <3>2
  <2> QED
    BY <1>6, <2>1, <2>2 DEF SendsInv
<1>10. MintInv'
  <2>1. ASSUME NEW m \in minting PROVE m[1] \in Notification /\ m[1] # n
    <3>1. m \in Notification \X DeviceRows /\ m[2] \in notify[m[1]].rows
      BY <1>1 DEF MintInv
    <3> QED
      BY <1>8, <3>1
  <2>2. \A m \in minting : notify'[m[1]] = notify[m[1]]
    BY <1>6, <2>1
  <2>3. ASSUME NEW p \in Notification, NEW d \in notify'[p].rows,
               notify'[p].sent[d] \in {"minting", "joined"}
        PROVE  notify'[p] = notify[p]
    <3>1. p # n
      BY <1>4, <1>7, <2>3
    <3> QED
      BY <1>6, <3>1
  <2> QED
    BY <1>1, <2>2, <2>3 DEF MintInv
<1> QED
  BY <1>2, <1>9, <1>10 DEF PushInv

\* A function on nothing is the empty sequence.
LEMMA NoElements ==
  ASSUME NEW g, g = [i \in DOMAIN g |-> g[i]], DOMAIN g = {}
  PROVE  g = << >>
<1>1. g \in [1 .. 0 -> {}]
  OBVIOUS
<1>2. g \in Seq({}) /\ DOMAIN g = 1 .. Len(g) /\ Len(g) \in Nat
  BY <1>1, SeqDef, LenProperties
<1>3. Len(g) = 0
  BY <1>2
<1> QED
  BY <1>2, <1>3, EmptySeq

LEMMA OtherSends ==
  ASSUME NEW R, NEW f, NEW g
  PROVE  [[pc |-> "sending", rows |-> R, sent |-> f] EXCEPT !.sent = g]
         = [pc |-> "sending", rows |-> R, sent |-> g]
OBVIOUS

LEMMA MintEndsKeep ==
  ASSUME PushInv, doMintAccessToken
  PROVE  PushInv'
<1>1. PICK ok \in BOOLEAN : cachedToken' = (ok \/ cachedToken) /\ notify' = MintSettled(ok)
  BY DEF doMintAccessToken
<1>2. /\ PushTypes /\ SendsInv /\ MintInv /\ UNCHANGED tableVars /\ minting' = {}
  BY DEF doMintAccessToken, PushInv
<1>3. cachedToken' \in BOOLEAN
  BY <1>1, <1>2, Zenon DEF PushTypes
<1>4. /\ PushTypes' /\ OneRowEach' /\ RegisteredDeviceHasRow' /\ GoneInv'
      /\ device_token' = device_token /\ lastId' = lastId /\ installed' = installed
  BY <1>2, <1>3, TableStays
<1> PICK over : over = IF ok THEN "posting" ELSE "failed"
  OBVIOUS
<1>5. DOMAIN notify' = Notification
  BY <1>1 DEF MintSettled
<1>6. ASSUME NEW n \in Notification
      PROVE  /\ NotifyOK(n)' /\ notify'[n].rows = notify[n].rows
             /\ \A d \in notify[n].rows :
                  notify'[n].sent[d] = IF <<n, d>> \in minting THEN over ELSE notify[n].sent[d]
  <2> PICK g : g = [d \in notify[n].rows |->
                      IF <<n, d>> \notin minting THEN notify[n].sent[d]
                      ELSE IF ok THEN "posting" ELSE "failed"]
    OBVIOUS
  <2>1. notify'[n] = [notify[n] EXCEPT !.sent = g]
    BY <1>1 DEF MintSettled
  <2>2. CASE notify[n] = NotifyIdle
    <3>1. notify[n].rows = {} /\ notify[n].sent = << >>
      BY <2>2, IdleNotify DEF NotifyIdle
    <3>2. g = << >>
      BY <3>1, NoElements
    <3>3. notify'[n] = NotifyIdle
      BY <2>1, <2>2, <3>2 DEF NotifyIdle
    <3> QED
      <4>1. NotifyOK(n)'
        BY <3>3, Zenon DEF NotifyOK
      <4>2. notify'[n].rows = {}
        BY <3>3, IdleNotify
      <4> QED
        BY <3>1, <4>1, <4>2
  <2>3. CASE notify[n] # NotifyIdle
    <3>1. PICK R, f : R \in SUBSET DeviceRows /\ f \in [R -> SendStates] /\
                 notify[n] = [pc |-> "sending", rows |-> R, sent |-> f]
      <4>1. NotifyOK(n)
        BY <1>2 DEF SendsInv
      <4> QED
        BY <2>3, <4>1, Zenon DEF NotifyOK
    <3>2. notify[n].rows = R /\ notify[n].sent = f
      BY <3>1
    <3>3. g \in [R -> SendStates]
      BY <3>1, <3>2 DEF SendStates
    <3>4. notify'[n] = [pc |-> "sending", rows |-> R, sent |-> g]
      <4>1. notify'[n] = [[pc |-> "sending", rows |-> R, sent |-> f] EXCEPT !.sent = g]
        BY <2>1, <3>1, Zenon
      <4> QED
        BY <4>1, OtherSends
    <3>5. NotifyOK(n)'
      BY <3>1, <3>3, <3>4, Zenon DEF NotifyOK
    <3>6. notify'[n].rows = R /\ notify'[n].sent = g
      BY <3>4
    <3> QED
      BY <3>2, <3>5, <3>6
  <2> QED
    BY <2>2, <2>3
<1>7. SendsInv'
  <2>1. ASSUME NEW n \in Notification, NEW d \in notify'[n].rows
        PROVE  OldRowOK(d, notify[n].sent[d])'
    <3>1. d \in notify[n].rows /\ OldRowOK(d, notify[n].sent[d])
      BY <1>2, <1>6, <2>1 DEF SendsInv
    <3>2. notify'[n].sent[d] = "gone" => notify[n].sent[d] = "gone"
      BY <1>6, <3>1
    <3> QED
      BY <1>4, <3>1, <3>2 DEF OldRowOK
  <2> QED
    BY <1>5, <1>6, <2>1 DEF SendsInv
<1>8. MintInv'
  <2>1. ASSUME NEW n \in Notification, NEW d \in notify'[n].rows,
               notify'[n].sent[d] \in {"minting", "joined"}
        PROVE  FALSE
    <3>1. d \in notify[n].rows
      BY <1>6, <2>1
    <3>2. CASE <<n, d>> \in minting
      BY <1>6, <2>1, <3>1, <3>2
    <3>3. CASE <<n, d>> \notin minting
      BY <1>2, <1>6, <2>1, <3>1, <3>3 DEF MintInv
    <3> QED
      BY <3>2, <3>3
  <2> QED
    BY <1>2, <2>1 DEF MintInv
<1> QED
  BY <1>4, <1>7, <1>8 DEF PushInv

LEMMA LapseKeeps ==
  ASSUME PushInv, TokenLapses \/ UNCHANGED pushVars
  PROVE  PushInv'
<1>1. /\ PushTypes /\ SendsInv /\ MintInv /\ UNCHANGED tableVars
      /\ minting' = minting /\ notify' = notify /\ cachedToken' \in BOOLEAN
  BY DEF TokenLapses, pushVars, sendVars, PushInv, PushTypes
<1>2. /\ PushTypes' /\ OneRowEach' /\ RegisteredDeviceHasRow' /\ GoneInv'
      /\ device_token' = device_token /\ lastId' = lastId /\ installed' = installed
  BY <1>1, TableStays
<1>3. SendsInv'
  BY <1>1, <1>2, PushAssumption, OldRowsKept DEF PushTypes
<1>4. MintInv'
  BY <1>1, MintKept
<1> QED
  BY <1>2, <1>3, <1>4 DEF PushInv

LEMMA NextPush ==
  ASSUME PushInv, [PushNext]_pushVars
  PROVE  PushInv'
<1>1. ASSUME NEW r \in RegRequest,
             \/ UpsertToken(r) \/ FreeToken(r) \/ DeactivationGate(r) \/ RegisterFails(r)
             \/ \E c \in Claim : AskRegister(r, c[1], c[2])
      PROVE  PushInv'
  BY <1>1, UpsertKeeps, FreeKeeps, GateKeeps, AskKeeps
<1>2. ASSUME NEW n \in Notification, notifyDevices(n) \/ SendStep(n)
      PROVE  PushInv'
  BY <1>2, NotifyKeeps, MintAsksKeep, PlatformKeeps, RemoveKeeps, ReturnsKeep DEF SendStep
<1>3. CASE \E c \in Claim : unregisterDeviceToken(c[1], c[2])
  BY <1>3, UnregisterKeeps
<1>4. CASE (\E t \in Leaving : Uninstall(t)) \/ DeactivateOwner
  BY <1>4, UninstallKeeps, DeactivateKeeps
<1>5. CASE doMintAccessToken
  BY <1>5, MintEndsKeep
<1>6. CASE TokenLapses \/ UNCHANGED pushVars
  BY <1>6, LapseKeeps
<1> QED
  BY <1>1, <1>2, <1>3, <1>4, <1>5, <1>6 DEF PushNext

\* The inductive invariant of push notifications holds in every behaviour: ids are
\* not used twice, and whoever waits for a mint is known to it.
THEOREM PushInvariant == PushSpec => []PushInv
BY PushBegins, NextPush, PTL DEF PushSpec

LEMMA AtMostOne ==
  ASSUME NEW S, \A m, k \in S : m = k
  PROVE  Cardinality(S) <= 1
<1>1. CASE S = {}
  BY <1>1, FS_EmptySet
<1>2. CASE S # {}
  <2>1. PICK m : m \in S
    BY <1>2
  <2>2. S = {m}
    BY <2>1
  <2>3. Cardinality({m}) = 1
    BY FS_Singleton, Zenon
  <2> QED
    BY <2>2, <2>3
<1> QED
  BY <1>1, <1>2

LEMMA PushHeld == PushInv => PushHolds
<1> SUFFICES ASSUME PushInv PROVE OneMint
  BY DEF PushHolds, PushInv, GoneInv, DeactivatedGainsNoDevice
<1> PICK S : S = {m \in minting : notify[m[1]].sent[m[2]] = "minting"}
  OBVIOUS
<1>1. \A m, k \in S : m = k
  BY DEF PushInv, MintInv
<1> QED
  BY <1>1, AtMostOne DEF OneMint

\* fcm.ts and pool.ts: however registrations, failures between their transactions,
\* notifications, mints, cleanups and a deactivation interleave, one token is minted at a
\* time, a device that was registered is reached through its row, and a deactivated
\* guardian is given no device but those whose registration was past the gate.
THEOREM PushAlwaysHolds == PushSpec => []PushHolds
BY PushHeld, PushInvariant, PTL

LEMMA PushTyped == PushInv => PushTypeOK
<1> SUFFICES ASSUME PushInv PROVE PushTypeOK
  OBVIOUS
<1>1. ASSUME NEW t \in PushToken PROVE Cardinality(RowsOf(t)) <= 1
  <2>1. \A d, e \in RowsOf(t) : d = e
    BY DEF PushInv, OneRowEach, RowsOf
  <2> QED
    BY <2>1, AtMostOne
<1>2. ASSUME NEW n \in Notification
      PROVE  notify[n].rows = DOMAIN notify[n].sent \/ notify[n] = NotifyIdle
  <2>1. NotifyOK(n)
    BY DEF PushInv, SendsInv
  <2>2. CASE notify[n] # NotifyIdle
    <3>1. PICK R, f : R \in SUBSET DeviceRows /\ f \in [R -> SendStates] /\
               notify[n] = [pc |-> "sending", rows |-> R, sent |-> f]
      BY <2>1, <2>2, Zenon DEF NotifyOK
    <3> QED
      BY <3>1
  <2> QED
    BY <2>2
<1>3. minting \subseteq Notification \X DeviceRows
  BY DEF PushInv, MintInv
<1> QED
  BY <1>1, <1>2, <1>3 DEF PushInv, PushTypes, PushTypeOK

\* Types of push notifications: a token has one row, and a notification answers for
\* the devices it read and no other.
THEOREM PushTypesHold == PushSpec => []PushTypeOK
BY PushTyped, PushInvariant, PTL

-----------------------------------------------------------------------------
(* The accounts. *)

AccountsInv == focus \in Component /\ PinInv /\ PasskeyInv /\ PairInv /\ PushInv

LEMMA AccountsBegin == AccountsInit => AccountsInv
BY PinInvInit, InitPasskeys, InitPairing, PushBegins DEF AccountsInit, AccountsInv

\* Each component takes a step of its own or none.
LEMMA AccountsParts ==
  ASSUME [AccountsNext]_AccountsVars
  PROVE  /\ focus' = focus
         /\ [PinNext]_pinVars /\ [PasskeyNext]_passkeyVars
         /\ [PairNext]_pairVars /\ [PushNext]_pushVars
<1>1. CASE UNCHANGED AccountsVars
  BY <1>1 DEF AccountsVars
<1>2. CASE AccountsNext
  BY <1>2, Zenon DEF AccountsNext
<1> QED
  BY <1>1, <1>2

LEMMA NextAccounts == AccountsInv /\ [AccountsNext]_AccountsVars => AccountsInv'
<1> SUFFICES ASSUME AccountsInv, [AccountsNext]_AccountsVars PROVE AccountsInv'
  OBVIOUS
<1>1. PinInv' /\ PairInv' /\ PushInv'
  BY AccountsParts, PinInvStep, NextPairing, NextPush DEF AccountsInv
<1>2. PasskeyInv'
  BY AccountsParts, NextPasskeys, PasskeyStutter DEF AccountsInv
<1> QED
  BY <1>1, <1>2, AccountsParts DEF AccountsInv

\* The inductive invariant of the accounts is that of their parts, which share no state.
THEOREM AccountsInvariant == AccountsSpec => []AccountsInv
BY AccountsBegin, NextAccounts, PTL DEF AccountsSpec

\* The state of every part keeps its types, for any number of people, keys, codes,
\* devices, tokens and requests in flight.
THEOREM AccountsTypesHold == AccountsSpec => []AccountsTypeOK
<1>1. AccountsInv => AccountsTypeOK
  BY PasskeyTyped, PushTyped DEF AccountsInv, AccountsTypeOK, PinInv, PairInv
<1> QED
  BY <1>1, AccountsInvariant, PTL

\* PINs, logins, codes and notifications keep their promises where they are all at work.
THEOREM AccountsHold == AccountsSpec => [](PinHolds /\ LoginsHold /\ PairedOnce /\ PushHolds)
<1>1. AccountsInv => PinHolds /\ LoginsHold /\ PairedOnce /\ PushHolds
  BY PinHeld, LoginsAreHeld, PushHeld DEF AccountsInv, PairInv
<1> QED
  BY <1>1, AccountsInvariant, PTL

=============================================================================
