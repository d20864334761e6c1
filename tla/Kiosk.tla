-------------------------------- MODULE Kiosk --------------------------------
(***************************************************************************)
(* The child lock of one device (packages/child-lock): what is on screen   *)
(* after the lock task is left, the app is put in the background, a PIN is *)
(* tried, a guardian escalates or breaks the glass.  Instants are kept as  *)
(* the ticks that are left until them.  Starting a session is the client's *)
(* business; liveTokens are the session tokens the server still honours.   *)
(***************************************************************************)
EXTENDS Naturals

CONSTANTS
  MAX_PIN_ATTEMPTS, COOLDOWN, ESCALATION_TTL,   \* the last two in ticks
  CallSession, NoSession

ASSUME KioskAssumption ==
  /\ MAX_PIN_ATTEMPTS \in Nat \ {0} /\ COOLDOWN \in Nat \ {0} /\ ESCALATION_TTL \in Nat \ {0}
  /\ NoSession \notin CallSession

VARIABLES
  surface, escalatedLeft, failedAttempts, cooldownLeft, activeSession,   \* LockState
  liveTokens,
  proved,        \* history: PIN and biometric were given since the lock was last lost
  wrongPins      \* history: wrong PINs in a row that cost no cooldown

kioskVars == <<surface, escalatedLeft, failedAttempts, cooldownLeft, activeSession,
               liveTokens, proved, wrongPins>>
pinVarsOfLock == <<failedAttempts, cooldownLeft, wrongPins>>
sessionVars == <<activeSession, liveTokens>>

KioskInit ==
  /\ surface = "child_home"
  /\ escalatedLeft = 0 /\ failedAttempts = 0 /\ cooldownLeft = 0
  /\ activeSession = NoSession /\ liveTokens = {}
  /\ proved = FALSE /\ wrongPins = 0

isEscalated == escalatedLeft > 0
Cooling == cooldownLeft > 0

\* External: a call or a game begins on the child's screen.
SessionBegins(s) ==
  /\ surface = "child_home" /\ activeSession = NoSession
  /\ surface' = "child_session" /\ activeSession' = s
  /\ liveTokens' = liveTokens \cup {s}
  /\ UNCHANGED <<escalatedLeft, proved, pinVarsOfLock>>

\* Mutant: the state is reset before the session to revoke is read off it.
LoseLockUnrevoked ==
  /\ surface' = "pin_gate" /\ escalatedLeft' = 0
  /\ activeSession' = NoSession /\ liveTokens' = liveTokens
  /\ proved' = FALSE
  /\ UNCHANGED pinVarsOfLock

\* Scope dropped, the session's tokens revoked, the PIN gate shown: what
\* leaving the lock task and going to the background have in common.
LoseLock ==
  /\ surface' = "pin_gate" /\ escalatedLeft' = 0
  /\ activeSession' = NoSession /\ liveTokens' = liveTokens \ {activeSession}
  /\ proved' = FALSE
  /\ UNCHANGED pinVarsOfLock

onLockTaskExited == LoseLock
onBackgrounded == LoseLock

\* A wrong PIN on either pad: the last one allowed starts the cooldown.
WrongPin(next) ==
  LET failed == failedAttempts + 1 IN
  IF failed >= MAX_PIN_ATTEMPTS
  THEN /\ surface' = "locked_out" /\ cooldownLeft' = COOLDOWN
       /\ failedAttempts' = MAX_PIN_ATTEMPTS    \* beyond it the count is not told apart
       /\ wrongPins' = 0
  ELSE /\ surface' = next /\ failedAttempts' = failed
       /\ wrongPins' = wrongPins + 1 /\ UNCHANGED cooldownLeft

RefusedCooling ==
  /\ Cooling /\ surface' = "locked_out"
  /\ UNCHANGED <<escalatedLeft, proved, sessionVars, pinVarsOfLock>>

submitChildPin(correct) ==
  \/ RefusedCooling
  \/ /\ ~Cooling /\ correct
     /\ surface' = "child_home" /\ failedAttempts' = 0 /\ cooldownLeft' = 0 /\ wrongPins' = 0
     /\ UNCHANGED <<escalatedLeft, proved, sessionVars>>
  \/ /\ ~Cooling /\ ~correct
     /\ WrongPin("pin_gate")
     /\ UNCHANGED <<escalatedLeft, proved, sessionVars>>

\* The PIN was right; without the biometric it clears the count and no more.
EscalateWith(biometricOk) ==
  /\ surface' = IF biometricOk THEN "guardian_escalation" ELSE surface
  /\ escalatedLeft' = IF biometricOk THEN ESCALATION_TTL ELSE escalatedLeft
  /\ proved' = (proved \/ biometricOk)

escalate(pinOk, biometricOk) ==
  \/ RefusedCooling
  \/ /\ ~Cooling /\ ~pinOk
     /\ WrongPin(surface)
     /\ UNCHANGED <<escalatedLeft, proved, sessionVars>>
  \/ /\ ~Cooling /\ pinOk
     /\ EscalateWith(biometricOk)
     /\ failedAttempts' = 0 /\ wrongPins' = 0
     /\ UNCHANGED <<cooldownLeft, sessionVars>>

breakGlass ==
  /\ surface' = "child_home" /\ cooldownLeft' = 0 /\ failedAttempts' = 0 /\ wrongPins' = 0
  /\ UNCHANGED <<escalatedLeft, proved, sessionVars>>

canRender(s) ==
  CASE s \in {"child_home", "child_session"} -> surface \in {"child_home", "child_session"}
    [] s = "guardian_escalation" -> surface = s /\ isEscalated
    [] OTHER -> surface = s

LockTick ==
  /\ escalatedLeft + cooldownLeft > 0
  /\ escalatedLeft' = IF isEscalated THEN escalatedLeft - 1 ELSE 0
  /\ cooldownLeft' = IF Cooling THEN cooldownLeft - 1 ELSE 0
  /\ UNCHANGED <<surface, failedAttempts, sessionVars, proved, wrongPins>>

KioskNext ==
  \/ \E s \in CallSession : SessionBegins(s)
  \/ onLockTaskExited \/ onBackgrounded \/ breakGlass \/ LockTick
  \/ \E correct \in BOOLEAN : submitChildPin(correct)
  \/ \E pinOk, biometricOk \in BOOLEAN : escalate(pinOk, biometricOk)

KioskSpec == KioskInit /\ [][KioskNext]_kioskVars

-----------------------------------------------------------------------------
(* Properties. *)

\* Values of the variables; a cooldown runs only on a used-up count.
KioskTypeOK ==
  /\ surface \in {"child_home", "child_session", "pin_gate", "guardian_escalation", "locked_out"}
  /\ escalatedLeft \in 0..ESCALATION_TTL /\ cooldownLeft \in 0..COOLDOWN
  /\ failedAttempts \in 0..MAX_PIN_ATTEMPTS /\ wrongPins \in Nat
  /\ activeSession \in CallSession \cup {NoSession} /\ liveTokens \subseteq CallSession
  /\ proved \in BOOLEAN
  /\ Cooling => failedAttempts = MAX_PIN_ATTEMPTS

\* lock.ts, onLockTaskExited: guardian scope is live, and the guardian surface
\* can be drawn, only where PIN and biometric were both given after the lock
\* was last lost: a device handed back and defeated shows no adult settings.
ScopeWasProved == isEscalated \/ canRender("guardian_escalation") => proved

\* lock.ts, DefeatEffects: the server honours no session token but that of the
\* session on screen; every way of losing the lock revokes the others.
NoTokenOutlivesItsSession == liveTokens \subseteq {activeSession}

\* lock.ts, MAX_PIN_ATTEMPTS: whichever pad they are typed on, no more wrong
\* PINs than allowed go by without a cooldown in between.
WrongPinsCostTime == wrongPins < MAX_PIN_ATTEMPTS

\* lock.ts: the lock gives nothing away, whenever Android ends lock task mode and
\* whatever is typed: a scope was proved, a token dies with its session, and wrong
\* guesses are paid for with waiting.
LockHolds == ScopeWasProved /\ NoTokenOutlivesItsSession /\ WrongPinsCostTime
=============================================================================
