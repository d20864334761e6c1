----------------------------- MODULE MCAccounts -----------------------------
(***************************************************************************)
(* The components behind the API that share no state with each other, each *)
(* checked on a small instance in one run: a behaviour is a behaviour of   *)
(* the one component it is focused on, and the others keep still in their  *)
(* initial state, in which none of their fair actions is enabled.          *)
(***************************************************************************)
EXTENDS PinGate, Passkey, Pairing, Push

CONSTANTS Phone, Tablet

VARIABLE focus

Component == {"pin", "passkey", "pairing", "push"}

\* Which account is signed in on which device.
Claims == {<<Kid, Phone>>, <<Adult, Phone>>, <<Kid, Tablet>>}

AccountsInit ==
  /\ focus \in Component
  /\ PinInit /\ PasskeyInit /\ PairInit /\ PushInit
  /\ focus # "pin" => pinCredential = [g \in Guardian |-> PinRow(CHOOSE p \in Pin : TRUE, 0, 0)]
  /\ focus # "passkey" => passkey = [k \in Key |-> NoKey]

AccountsNext ==
  /\ UNCHANGED focus
  /\ \/ focus = "pin" /\ PinNext
     \/ focus # "pin" /\ UNCHANGED pinVars
  /\ \/ focus = "passkey" /\ PasskeyNext
     \/ focus # "passkey" /\ UNCHANGED passkeyVars
  /\ \/ focus = "pairing" /\ PairNext
     \/ focus # "pairing" /\ UNCHANGED pairVars
  /\ \/ focus = "push" /\ PushNext
     \/ focus # "push" /\ UNCHANGED pushVars

AccountsVars == <<focus, pinVars, passkeyVars, pairVars, pushVars>>

AccountsSpec ==
  /\ AccountsInit /\ [][AccountsNext]_AccountsVars
  /\ PinFairness /\ PasskeyFairness /\ PairFairness /\ PushFairness

-----------------------------------------------------------------------------
\* Every component keeps the types of its state.
AccountsTypeOK == PinTypeOK /\ PasskeyTypeOK /\ PairTypeOK /\ PushTypeOK

\* pool.ts, deactivateAccount and revokePairedDevice: whoever was shut out stays
\* out: the sessions of a deactivated account end, a revoked device is refused.
ShutOutStaysOut == DeactivatedLosesAccess /\ RevokedDeviceOut

\* A PIN is answered though kiosks try the same guardians in different orders, and
\* a notification though mints and sends fail.
EveryoneIsAnswered == PinAnswered /\ NotifyAnswers
=============================================================================
