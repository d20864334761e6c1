------------------------------- MODULE PinGate -------------------------------
(***************************************************************************)
(* Guardian PINs: pin_credential rows, the kiosk and settings requests     *)
(* that guess at them, replacing a PIN and deactivating the account.       *)
(*                                                                         *)
(* A request takes row locks (SELECT ... FOR UPDATE) and gives them back   *)
(* when its transaction commits; scrypt runs between the two, so every     *)
(* other request can take steps in that gap.  Times are what is left of    *)
(* them: a credential with lockLeft = 0 is not locked.                     *)
(***************************************************************************)
EXTENDS Naturals

CONSTANTS
  Guardian,           \* the guardians of one child
  Pin,                \* the PINs a person may type or choose
  PinRequest,         \* requests in flight at once
  PIN_MAX_ATTEMPTS,
  PIN_LOCKOUT,        \* length of a lock, in ticks
  Mistyping,          \* FALSE: a typed PIN is always some guardian's own
  Free                \* no lock holder, no guardian

ASSUME PinAssumption ==
  /\ PIN_MAX_ATTEMPTS \in Nat \ {0} /\ PIN_LOCKOUT \in Nat \ {0}
  /\ Free \notin PinRequest \cup Guardian

VARIABLES
  pinCredential,   \* pin_credential, one possible row per guardian
  pinLock,         \* holder of the row lock on it
  active,          \* app_user.deactivated_at IS NULL
  userLock,        \* holder of the row lock on app_user
  pinRequest,      \* what each request is doing
  misses           \* history: failed verifications since the last clean slate

pinVars == <<pinCredential, pinLock, active, userLock, pinRequest, misses>>

NoPin == [set |-> FALSE, failed |-> 0, lockLeft |-> 0]
PinQuiet == [op |-> "none", todo |-> {}, at |-> Free, matched |-> FALSE]

PinRow(p, failed, left) == [set |-> TRUE, pin |-> p, failed |-> failed, lockLeft |-> left]

PinInit ==
  /\ \E chosen \in [Guardian -> Pin] :
       pinCredential = [g \in Guardian |-> PinRow(chosen[g], 0, 0)]
  /\ pinLock = [g \in Guardian |-> Free]
  /\ active = [g \in Guardian |-> TRUE]
  /\ userLock = [g \in Guardian |-> Free]
  /\ pinRequest = [r \in PinRequest |-> PinQuiet]
  /\ misses = [g \in Guardian |-> 0]

IsRight(g, p) == pinCredential[g].set /\ pinCredential[g].pin = p
PinLocked(g) == pinCredential[g].lockLeft > 0
Typed(p) == Mistyping \/ \E g \in Guardian : IsRight(g, p)

AskPin(r, guardians, p) ==
  /\ pinRequest[r].op = "none" /\ Typed(p)
  /\ pinRequest' = [pinRequest EXCEPT ![r] =
       [op |-> "verify", todo |-> guardians, at |-> Free, matched |-> FALSE, guess |-> p]]
  /\ UNCHANGED <<pinCredential, pinLock, active, userLock, misses>>

\* The kiosk tries every guardian of the child, whoever has matched already;
\* a deactivated guardian keeps her edge, so she is on the list too.
KioskPinVerify(r, p) == AskPin(r, Guardian, p)

\* One guardian's own PIN: pairing codes, parental controls.
requireOwnPin(r, g, p) == AskPin(r, {g}, p)
VerifyControlsPin(r, g, p) == requireOwnPin(r, g, p)

\* SELECT ... FOR UPDATE: waits for the row; a guardian without a PIN or with
\* a locked one is passed over without running scrypt.
SelectPin(r, g) ==
  LET q == pinRequest[r] IN
  /\ q.op = "verify" /\ q.at = Free /\ g \in q.todo
  /\ pinLock[g] = Free
  /\ IF pinCredential[g].set /\ ~PinLocked(g)
     THEN /\ pinRequest' = [pinRequest EXCEPT ![r].at = g]
          /\ pinLock' = [pinLock EXCEPT ![g] = r]
     ELSE /\ pinRequest' = [pinRequest EXCEPT ![r].todo = @ \ {g}]
          /\ UNCHANGED pinLock
  /\ UNCHANGED <<pinCredential, active, userLock, misses>>

\* Mutant: one wrong guess more than allowed before the lock.
AfterMissLate(row) ==
  IF row.failed + 1 > PIN_MAX_ATTEMPTS
  THEN [row EXCEPT !.failed = 0, !.lockLeft = PIN_LOCKOUT]
  ELSE [row EXCEPT !.failed = @ + 1]

\* The counter starts again at zero when it imposes a lock.
AfterMiss(row) ==
  IF row.failed + 1 >= PIN_MAX_ATTEMPTS
  THEN [row EXCEPT !.failed = 0, !.lockLeft = PIN_LOCKOUT]
  ELSE [row EXCEPT !.failed = @ + 1]

\* Mutant: one transaction for the whole loop; rows stay locked until its end.
RecordAttemptHolding(r) ==
  LET q == pinRequest[r]
      g == q.at
      ok == IsRight(g, q.guess)
      left == q.todo \ {g} IN
  /\ q.op = "verify" /\ g # Free
  /\ pinCredential' = [pinCredential EXCEPT ![g] =
       IF ok THEN [@ EXCEPT !.failed = 0, !.lockLeft = 0] ELSE AfterMiss(@)]
  /\ misses' = [misses EXCEPT ![g] = IF ok THEN 0 ELSE @ + 1]
  /\ pinLock' = IF left = {} THEN [h \in Guardian |-> IF pinLock[h] = r THEN Free ELSE pinLock[h]]
                ELSE pinLock
  /\ pinRequest' = [pinRequest EXCEPT ![r].at = Free, ![r].todo = left, ![r].matched = @ \/ ok]
  /\ UNCHANGED <<active, userLock>>

\* verifyPin(), then the UPDATE and the COMMIT.
RecordAttempt(r) ==
  LET q == pinRequest[r]
      g == q.at
      ok == IsRight(g, q.guess) IN
  /\ q.op = "verify" /\ g # Free
  /\ pinCredential' = [pinCredential EXCEPT ![g] =
       IF ok THEN [@ EXCEPT !.failed = 0, !.lockLeft = 0] ELSE AfterMiss(@)]
  /\ misses' = [misses EXCEPT ![g] = IF ok THEN 0 ELSE @ + 1]
  /\ pinLock' = [pinLock EXCEPT ![g] = Free]
  /\ pinRequest' = [pinRequest EXCEPT ![r].at = Free, ![r].todo = @ \ {g}, ![r].matched = @ \/ ok]
  /\ UNCHANGED <<active, userLock>>

PinReply(r) ==
  /\ pinRequest[r].op = "verify" /\ pinRequest[r].todo = {}
  /\ pinRequest' = [pinRequest EXCEPT ![r] = PinQuiet]
  /\ UNCHANGED <<pinCredential, pinLock, active, userLock, misses>>

\* Mutant: deactivated_at is read in a statement that takes no lock.
LockUserUnlocked(r, g, op, p) ==
  /\ pinRequest[r].op = "none" /\ active[g]
  /\ userLock' = userLock
  /\ pinRequest' = [pinRequest EXCEPT ![r] =
       [op |-> op, todo |-> {}, at |-> g, matched |-> FALSE, guess |-> p]]
  /\ UNCHANGED <<pinCredential, pinLock, active, misses>>

\* SELECT deactivated_at ... FOR UPDATE; a deactivated account is refused.
LockUser(r, g, op, p) ==
  /\ pinRequest[r].op = "none" /\ userLock[g] = Free /\ active[g]
  /\ userLock' = [userLock EXCEPT ![g] = r]
  /\ pinRequest' = [pinRequest EXCEPT ![r] =
       [op |-> op, todo |-> {}, at |-> g, matched |-> FALSE, guess |-> p]]
  /\ UNCHANGED <<pinCredential, pinLock, active, misses>>

MePin(r, g, p) == LockUser(r, g, "set", p)
MeDelete(r, g, p) == LockUser(r, g, "deactivate", p)

\* A new PIN replaces the old one, its counter and its lock.
setPinCredential(r) ==
  LET g == pinRequest[r].at IN
  /\ pinRequest[r].op = "set" /\ pinLock[g] = Free
  /\ pinCredential' = [pinCredential EXCEPT ![g] = PinRow(pinRequest[r].guess, 0, 0)]
  /\ misses' = [misses EXCEPT ![g] = 0]
  /\ userLock' = [userLock EXCEPT ![g] = Free]
  /\ pinRequest' = [pinRequest EXCEPT ![r] = PinQuiet]
  /\ UNCHANGED <<pinLock, active>>

deactivatePin(r) ==
  LET g == pinRequest[r].at IN
  /\ pinRequest[r].op = "deactivate" /\ pinLock[g] = Free
  /\ pinCredential' = [pinCredential EXCEPT ![g] = NoPin]
  /\ misses' = [misses EXCEPT ![g] = 0]
  /\ active' = [active EXCEPT ![g] = FALSE]
  /\ userLock' = [userLock EXCEPT ![g] = Free]
  /\ pinRequest' = [pinRequest EXCEPT ![r] = PinQuiet]
  /\ UNCHANGED pinLock

\* A lock that ends leaves a clean slate.
PinTick ==
  /\ \E g \in Guardian : PinLocked(g)
  /\ pinCredential' = [g \in Guardian |->
       IF PinLocked(g) THEN [pinCredential[g] EXCEPT !.lockLeft = @ - 1] ELSE pinCredential[g]]
  /\ misses' = [g \in Guardian |-> IF pinCredential[g].lockLeft = 1 THEN 0 ELSE misses[g]]
  /\ UNCHANGED <<pinLock, active, userLock, pinRequest>>

PinServe(r) ==
  \/ \E g \in Guardian : SelectPin(r, g)
  \/ RecordAttempt(r) \/ PinReply(r) \/ setPinCredential(r) \/ deactivatePin(r)

PinNext ==
  \/ \E r \in PinRequest :
       \/ PinServe(r)
       \/ \E p \in Pin :
            \/ KioskPinVerify(r, p)
            \/ \E g \in Guardian :
                 \/ VerifyControlsPin(r, g, p)
                 \/ MePin(r, g, p)
                 \/ MeDelete(r, g, p)
  \/ PinTick

PinSpec == PinInit /\ [][PinNext]_pinVars

\* PostgreSQL queues the waiters of a row, so a request is not passed over
\* for ever; the lock of a credential ends with time.
PinFairness == \A r \in PinRequest : SF_pinVars(PinServe(r))

-----------------------------------------------------------------------------
(* Properties. *)

PinRows == [set : {FALSE}, failed : {0}, lockLeft : {0}]
        \cup [set : {TRUE}, pin : Pin, failed : 0..(PIN_MAX_ATTEMPTS - 1), lockLeft : 0..PIN_LOCKOUT]
PinRequests == {PinQuiet}
            \cup [op : {"verify"}, todo : SUBSET Guardian, at : Guardian \cup {Free},
                  matched : BOOLEAN, guess : Pin]
            \cup [op : {"set", "deactivate"}, todo : {{}}, at : Guardian,
                  matched : {FALSE}, guess : Pin]

\* Values of the variables; a counter that reached PIN_MAX_ATTEMPTS is a lock.
PinTypeOK ==
  /\ pinCredential \in [Guardian -> PinRows]
  /\ pinLock \in [Guardian -> PinRequest \cup {Free}]
  /\ active \in [Guardian -> BOOLEAN]
  /\ userLock \in [Guardian -> PinRequest \cup {Free}]
  /\ pinRequest \in [PinRequest -> PinRequests]
  /\ misses \in [Guardian -> Nat]

\* pool.ts, attemptPinFor: however many guesses arrive at once, at most
\* PIN_MAX_ATTEMPTS wrong ones are verified against a PIN before it is locked,
\* and none while it is.
GuessesBounded == \A g \in Guardian : misses[g] <= PIN_MAX_ATTEMPTS

\* pool.ts, setPinCredential and deactivateAccount: a deactivated account has
\* no PIN, though a request to set one was under way when it was deactivated.
NoPinAfterDeactivation == \A g \in Guardian : ~active[g] => ~pinCredential[g].set

\* routes.mjs, kiosk-pin/verify: two kiosks that try the same guardians in
\* different orders never wait for each other for ever.
PinAnswered == \A r \in PinRequest : (pinRequest[r].op # "none") ~> (pinRequest[r].op = "none")

\* pool.ts, attemptPinFor, setPinCredential: guesses are counted one by one
\* however many arrive at once, and a PIN goes with its account.
PinHolds == GuessesBounded /\ NoPinAfterDeactivation
=============================================================================
