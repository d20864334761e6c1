---------------------------- MODULE Rules_proofs ----------------------------
(***************************************************************************)
(* The child lock, the signed links, the family graph, the observers, the  *)
(* Api, the outbox, the words on their way to her and her days, and the    *)
(* rules they are part of.                                                 *)
(*                                                                         *)
(* Each part has an inductive invariant of its own.  The lock: wrong PINs  *)
(* are counted at least as often as they went by for nothing.  The links:  *)
(* whatever was minted names an upload that came to its end.  The family   *)
(* graph needs none, since can() decides by what it is given: an answer of *)
(* many edges is "allow" exactly if that of one of them is.  Observers: a  *)
(* person holds one invitation in force at a time.  The Api: what no check *)
(* has shown yet a step to come will ask for, and after an effect no step  *)
(* refuses any more; both are read off the steps of every route.  The      *)
(* outbox: what was recorded is queued, on its way, stored or told of to   *)
(* her face.  A word at the gate was put off as often as was counted.  Her *)
(* days: six small invariants, each of one part, such as that no two of    *)
(* the windows she publishes clash.                                        *)
(***************************************************************************)
EXTENDS MCRules, Materialize_proofs, SequenceTheorems

-----------------------------------------------------------------------------
(* The child lock. *)

\* lock.ts, failedAttempts: no wrong PIN that cost no cooldown is missing from
\* the count that starts one.
NoWrongPinIsForgotten == wrongPins <= failedAttempts

KioskInv == KioskTypeOK /\ NoWrongPinIsForgotten /\ LockHolds

USE KioskAssumption

\* lock.ts, canRender: the guardian surface is drawn for nothing but a live scope.
LEMMA ScopeIsWhatCounts == ScopeWasProved <=> (isEscalated => proved)
<1>1. canRender("guardian_escalation") <=> surface = "guardian_escalation" /\ isEscalated
  <2>1. "guardian_escalation" \notin {"child_home", "child_session"}
    OBVIOUS
  <2> QED
    BY <2>1 DEF canRender
<1> QED
  BY <1>1 DEF ScopeWasProved

\* The same of the next state.
LEMMA ScopeIsWhatCountsNext == ScopeWasProved' <=> (isEscalated' => proved')
<1>1. canRender("guardian_escalation")' <=> surface' = "guardian_escalation" /\ isEscalated'
  <2>1. "guardian_escalation" \notin {"child_home", "child_session"}
    OBVIOUS
  <2> QED
    BY <2>1 DEF canRender
<1> QED
  BY <1>1 DEF ScopeWasProved

\* A device fresh out of its box is locked down: no scope, no session, no guess.
LEMMA KioskInvInit == KioskInit => KioskInv
<1> SUFFICES ASSUME KioskInit
             PROVE  KioskInv
  OBVIOUS
<1>1. KioskTypeOK
  <2>1. proved \in BOOLEAN
    BY Zenon DEF KioskInit
  <2> QED
    BY <2>1 DEF KioskInit, KioskTypeOK, Cooling
<1>2. NoWrongPinIsForgotten /\ WrongPinsCostTime /\ NoTokenOutlivesItsSession
  BY DEF KioskInit, NoWrongPinIsForgotten, WrongPinsCostTime, NoTokenOutlivesItsSession
<1>3. ScopeWasProved
  BY ScopeIsWhatCounts DEF KioskInit, isEscalated
<1> QED
  BY <1>1, <1>2, <1>3 DEF KioskInv, LockHolds

\* lock.ts, submitChildPin and escalate: a wrong PIN either raises the count,
\* which stays short of the limit, or starts the cooldown and is paid for.
LEMMA WrongPinIsCounted ==
  ASSUME KioskTypeOK, NoWrongPinIsForgotten, NEW next, WrongPin(next)
  PROVE  /\ failedAttempts' \in 0..MAX_PIN_ATTEMPTS /\ wrongPins' \in Nat
         /\ cooldownLeft' \in 0..COOLDOWN
         /\ NoWrongPinIsForgotten' /\ WrongPinsCostTime'
         /\ surface' = "locked_out" \/ surface' = next
         /\ ~Cooling => (cooldownLeft' > 0 => failedAttempts' = MAX_PIN_ATTEMPTS)
<1>1. CASE failedAttempts + 1 >= MAX_PIN_ATTEMPTS
  BY <1>1 DEF KioskTypeOK, WrongPin, NoWrongPinIsForgotten, WrongPinsCostTime
<1>2. CASE failedAttempts + 1 < MAX_PIN_ATTEMPTS
  BY <1>2 DEF KioskTypeOK, WrongPin, NoWrongPinIsForgotten, WrongPinsCostTime, Cooling
<1> QED
  BY <1>1, <1>2 DEF KioskTypeOK

\* lock.ts: every handler, and the passing of time, keeps the lock's invariant.
LEMMA KioskInvStep == KioskInv /\ [KioskNext]_kioskVars => KioskInv'
<1> SUFFICES ASSUME KioskInv, [KioskNext]_kioskVars
             PROVE  KioskInv'
  OBVIOUS
<1> USE DEF KioskInv
<1>1. ASSUME NEW s \in CallSession, SessionBegins(s)
      PROVE  KioskInv'
  <2>1. liveTokens = {}
    BY <1>1 DEF SessionBegins, KioskTypeOK, LockHolds, NoTokenOutlivesItsSession
  <2>2. KioskTypeOK' /\ NoWrongPinIsForgotten' /\ WrongPinsCostTime'
    BY <1>1 DEF SessionBegins, pinVarsOfLock, KioskTypeOK, Cooling, NoWrongPinIsForgotten,
                LockHolds, WrongPinsCostTime
  <2>3. ScopeWasProved'
    BY <1>1 DEF SessionBegins, LockHolds, ScopeWasProved, isEscalated, canRender
  <2>4. NoTokenOutlivesItsSession'
    BY <1>1, <2>1 DEF SessionBegins, NoTokenOutlivesItsSession
  <2> QED
    BY <2>2, <2>3, <2>4 DEF LockHolds
<1>2. ASSUME LoseLock
      PROVE  KioskInv'
  <2>1. KioskTypeOK' /\ NoWrongPinIsForgotten' /\ WrongPinsCostTime'
    <3>1. UNCHANGED <<failedAttempts, cooldownLeft, wrongPins>>
      BY <1>2 DEF LoseLock, pinVarsOfLock
    <3>2. surface' = "pin_gate" /\ escalatedLeft' = 0 /\ proved' \in BOOLEAN
      BY <1>2, Zenon DEF LoseLock
    <3>3. activeSession' \in CallSession \cup {NoSession} /\ liveTokens' \subseteq CallSession
      BY <1>2 DEF LoseLock, KioskTypeOK
    <3> QED
      BY <3>1, <3>2, <3>3
         DEF KioskTypeOK, Cooling, NoWrongPinIsForgotten, LockHolds, WrongPinsCostTime
  <2>2. ScopeWasProved'
    BY <1>2, ScopeIsWhatCountsNext DEF LoseLock, KioskTypeOK, isEscalated
  <2>3. NoTokenOutlivesItsSession'
    BY <1>2 DEF LoseLock, LockHolds, NoTokenOutlivesItsSession
  <2> QED
    BY <2>1, <2>2, <2>3 DEF LockHolds
<1>3. ASSUME breakGlass
      PROVE  KioskInv'
  <2>1. KioskTypeOK' /\ NoWrongPinIsForgotten' /\ WrongPinsCostTime'
    BY <1>3 DEF breakGlass, sessionVars, KioskTypeOK, Cooling, NoWrongPinIsForgotten,
                WrongPinsCostTime
  <2>2. ScopeWasProved' /\ NoTokenOutlivesItsSession'
    BY <1>3 DEF breakGlass, sessionVars, LockHolds, ScopeWasProved, isEscalated, canRender,
                NoTokenOutlivesItsSession
  <2> QED
    BY <2>1, <2>2 DEF LockHolds
<1>4. ASSUME LockTick
      PROVE  KioskInv'
  <2>1. KioskTypeOK' /\ NoWrongPinIsForgotten' /\ WrongPinsCostTime'
    BY <1>4 DEF LockTick, sessionVars, KioskTypeOK, isEscalated, Cooling,
                NoWrongPinIsForgotten, LockHolds, WrongPinsCostTime
  <2>2. isEscalated' => isEscalated
    BY <1>4 DEF LockTick, KioskTypeOK, isEscalated
  <2>3. ScopeWasProved' /\ NoTokenOutlivesItsSession'
    BY <1>4, <2>2 DEF LockTick, sessionVars, LockHolds, ScopeWasProved, canRender,
                      NoTokenOutlivesItsSession
  <2> QED
    BY <2>1, <2>3 DEF LockHolds
<1>5. ASSUME NEW correct \in BOOLEAN, submitChildPin(correct)
      PROVE  KioskInv'
  <2>1. KioskTypeOK' /\ NoWrongPinIsForgotten' /\ WrongPinsCostTime'
    <3>1. CASE RefusedCooling
      BY <3>1 DEF RefusedCooling, sessionVars, pinVarsOfLock, KioskTypeOK, Cooling,
                  NoWrongPinIsForgotten, LockHolds, WrongPinsCostTime
    <3>2. CASE ~Cooling /\ correct
      BY <1>5, <3>2 DEF submitChildPin, RefusedCooling, sessionVars, KioskTypeOK, Cooling,
                        NoWrongPinIsForgotten, WrongPinsCostTime
    <3>3. CASE ~Cooling /\ ~correct
      BY <1>5, <3>3, WrongPinIsCounted
         DEF submitChildPin, RefusedCooling, sessionVars, KioskTypeOK, Cooling
    <3> QED
      BY <1>5, <3>1, <3>2, <3>3 DEF submitChildPin
  <2>2. UNCHANGED <<escalatedLeft, proved, activeSession, liveTokens>>
    BY <1>5 DEF submitChildPin, RefusedCooling, sessionVars
  <2>3. ScopeWasProved' /\ NoTokenOutlivesItsSession'
    BY <2>2 DEF LockHolds, ScopeWasProved, isEscalated, canRender, NoTokenOutlivesItsSession
  <2> QED
    BY <2>1, <2>3 DEF LockHolds
<1>6. ASSUME NEW pinOk \in BOOLEAN, NEW biometricOk \in BOOLEAN, escalate(pinOk, biometricOk)
      PROVE  KioskInv'
  <2>1. KioskTypeOK' /\ NoWrongPinIsForgotten' /\ WrongPinsCostTime'
    <3>1. CASE RefusedCooling
      BY <3>1 DEF RefusedCooling, sessionVars, pinVarsOfLock, KioskTypeOK, Cooling,
                  NoWrongPinIsForgotten, LockHolds, WrongPinsCostTime
    <3>2. CASE ~Cooling /\ ~pinOk
      BY <1>6, <3>2, WrongPinIsCounted
         DEF escalate, RefusedCooling, sessionVars, KioskTypeOK, Cooling
    <3>3. CASE ~Cooling /\ pinOk
      BY <1>6, <3>3 DEF escalate, EscalateWith, RefusedCooling, sessionVars, KioskTypeOK,
                        Cooling, NoWrongPinIsForgotten, WrongPinsCostTime
    <3> QED
      BY <1>6, <3>1, <3>2, <3>3 DEF escalate
  <2>2. isEscalated' => proved'
    BY <1>6 DEF escalate, EscalateWith, RefusedCooling, LockHolds, ScopeWasProved, isEscalated
  <2>3. NoTokenOutlivesItsSession'
    BY <1>6 DEF escalate, RefusedCooling, sessionVars, LockHolds, NoTokenOutlivesItsSession
  <2> QED
    BY <2>1, <2>2, <2>3 DEF LockHolds, ScopeWasProved, canRender
<1>7. ASSUME UNCHANGED kioskVars
      PROVE  KioskInv'
  BY <1>7 DEF kioskVars, KioskTypeOK, NoWrongPinIsForgotten, LockHolds, ScopeWasProved,
              NoTokenOutlivesItsSession, WrongPinsCostTime, isEscalated, Cooling, canRender
<1> QED
  BY <1>1, <1>2, <1>3, <1>4, <1>5, <1>6, <1>7
     DEF KioskNext, onLockTaskExited, onBackgrounded

\* The inductive invariant holds in every behaviour.
THEOREM KioskInvariant == KioskSpec => []KioskInv
BY KioskInvInit, KioskInvStep, PTL DEF KioskSpec

\* lock.ts: for every limit on attempts, every cooldown and every set of sessions,
\* a guardian's scope was proved, a token dies with its session and wrong guesses
\* are paid for with waiting.
THEOREM LockAlwaysHolds == KioskSpec => []LockHolds
<1>1. KioskInv => LockHolds
  BY DEF KioskInv
<1> QED
  BY KioskInvariant, <1>1, PTL

\* The lock's state has its types, and a cooldown runs only on a used-up count.
THEOREM KioskTypes == KioskSpec => []KioskTypeOK
<1>1. KioskInv => KioskTypeOK
  BY DEF KioskInv
<1> QED
  BY KioskInvariant, <1>1, PTL

-----------------------------------------------------------------------------
(* Signed links. *)

\* signed_media.mjs: a link carries the signature of its own key and expiry, and of
\* a secret that is the process's still if one is set.
Minted(l) ==
  /\ l.key \in BlobKey /\ l.exp \in Int
  /\ l.sig \in [secret : Nat, key : BlobKey, exp : Int]
  /\ l = [key |-> l.key, exp |-> l.exp, sig |-> signKey(l.sig.secret, l.key, l.exp)]
  /\ MEDIA_SIGNING_SECRET => l.sig.secret = secret

\* storage.ts: a key that a row, a request or a link names was uploaded to its end,
\* and what was answered is whole or gone.
Uploaded(k) == k \in BlobKey /\ uploadOf[k] = "attached"

LinksTyped ==
  /\ secret \in Nat /\ second \in Nat
  /\ disk \in [BlobKey -> {"none", "part", "whole"}]
  /\ uploadOf \in [BlobKey -> {"none", "writing", "answered", "attached", "lost"}]
  /\ DOMAIN rowOf = BlobKey /\ rowOf = [k \in BlobKey |-> rowOf[k]]
  /\ DOMAIN fetch = Fetch /\ fetch = [r \in Fetch |-> fetch[r]]

AnsweredIsWhole ==
  \A k \in BlobKey :
    /\ uploadOf[k] \in {"answered", "attached"} => disk[k] \in {"none", "whole"}
    /\ rowOf[k] # {} => Uploaded(k)

LinksAreMinted == \A l \in links : Minted(l) /\ Uploaded(l.key)

FetchOK(f) ==
  \/ f = NoFetch
  \/ f = [pc |-> "row", key |-> f.key] /\ Uploaded(f.key)
  \/ f = [pc |-> "verified", url |-> f.url, at |-> f.at] /\ f.url \in links /\ f.at < f.url.exp

LinksInv ==
  /\ LinksTyped /\ AnsweredIsWhole /\ LinksAreMinted
  /\ \A r \in Fetch : FetchOK(fetch[r])
  /\ ServedAsMinted

\* What stage a request is at says what it knows.
LEMMA FetchIsOneOf ==
  ASSUME NEW f, FetchOK(f)
  PROVE  /\ f.pc = "row" => f = [pc |-> "row", key |-> f.key] /\ Uploaded(f.key)
         /\ f.pc = "verified" => /\ f = [pc |-> "verified", url |-> f.url, at |-> f.at]
                                 /\ f.url \in links /\ f.at < f.url.exp
<1> HIDE DEF Uploaded
<1>1. CASE f = NoFetch
  <2>1. f.pc = "idle"
    BY <1>1 DEF NoFetch
  <2> QED
    BY <2>1
<1>2. CASE f = [pc |-> "row", key |-> f.key] /\ Uploaded(f.key)
  <2>1. f.pc = "row"
    BY <1>2
  <2> QED
    BY <1>2, <2>1, Zenon
<1>3. CASE /\ f = [pc |-> "verified", url |-> f.url, at |-> f.at]
           /\ f.url \in links /\ f.at < f.url.exp
  <2>1. f.pc = "verified"
    BY <1>3
  <2>2. f.pc # "row"
    BY <2>1
  <2> QED
    BY <1>3, <2>1, <2>2, Zenon
<1> QED
  BY <1>1, <1>2, <1>3, Zenon DEF FetchOK

\* A process that has served nothing yet.
LEMMA LinksInvInit == LinksInit => LinksInv
<1> SUFFICES ASSUME LinksInit PROVE LinksInv
  OBVIOUS
<1>1. LinksTyped
  BY DEF LinksInit, LinksTyped
<1>2. AnsweredIsWhole /\ LinksAreMinted /\ ServedAsMinted
  BY DEF LinksInit, AnsweredIsWhole, LinksAreMinted, ServedAsMinted, Uploaded
<1>3. \A r \in Fetch : FetchOK(fetch[r])
  BY DEF LinksInit, FetchOK
<1> QED
  BY <1>1, <1>2, <1>3 DEF LinksInv

\* What keeps the requests as they are: no link is forgotten, no upload undone.
LEMMA FetchesKept ==
  ASSUME LinksInv, links \subseteq links', NEW r \in Fetch, fetch'[r] = fetch[r],
         \A k \in BlobKey : Uploaded(k) => Uploaded(k)'
  PROVE  FetchOK(fetch[r])'
<1>1. FetchOK(fetch[r])
  BY DEF LinksInv
<1>2. CASE fetch[r] = NoFetch
  BY <1>2 DEF FetchOK
<1>3. CASE fetch[r] = [pc |-> "row", key |-> fetch[r].key] /\ Uploaded(fetch[r].key)
  <2>1. Uploaded(fetch[r].key)'
    BY <1>3 DEF Uploaded
  <2> QED
    BY <1>3, <2>1 DEF FetchOK, Uploaded
<1>4. CASE /\ fetch[r] = [pc |-> "verified", url |-> fetch[r].url, at |-> fetch[r].at]
           /\ fetch[r].url \in links /\ fetch[r].at < fetch[r].url.exp
  BY <1>4 DEF FetchOK
<1> QED
  BY <1>1, <1>2, <1>3, <1>4, Zenon DEF FetchOK

\* The same of the links themselves while the secret stays.
LEMMA LinksKept ==
  ASSUME LinksInv, links' = links, MEDIA_SIGNING_SECRET => secret' = secret,
         \A k \in BlobKey : Uploaded(k) => Uploaded(k)'
  PROVE  LinksAreMinted'
<1> SUFFICES ASSUME NEW l \in links PROVE (Minted(l) /\ Uploaded(l.key))'
  BY DEF LinksAreMinted
<1>1. Minted(l) /\ Uploaded(l.key)
  BY DEF LinksInv, LinksAreMinted
<1>2. Uploaded(l.key)'
  BY <1>1 DEF Uploaded
<1>3. Minted(l)'
  BY <1>1 DEF Minted
<1> QED
  BY <1>2, <1>3

\* A link minted now for an uploaded recording is such a link.
LEMMA MintedNow ==
  ASSUME LinksTyped, NEW k \in BlobKey
  PROVE  Minted(signedUrl(k)) /\ signedUrl(k).key = k
<1> DEFINE e == second + SIGNED_URL_TTL_SECONDS
<1>1. e \in Int
  BY LinksAssumption DEF LinksTyped
<1> HIDE DEF e
<1>2. signedUrl(k) = [key |-> k, exp |-> e, sig |-> [secret |-> secret, key |-> k, exp |-> e]]
  BY DEF signedUrl, signKey, e
<1>3. secret \in Nat
  BY DEF LinksTyped
<1> QED
  BY <1>1, <1>2, <1>3 DEF Minted, signKey

\* What a link that verifies is: one that was minted, whatever key or expiry is put
\* in another one's place.
LEMMA VerifiedIsMinted ==
  ASSUME LinksInv, NEW url \in UrlsAtHand, verifySignedUrl(url)
  PROVE  url \in links /\ second < url.exp
<1>1. PICK k \in BlobKey, e \in {l2.exp : l2 \in links} \cup {LastSecond + 9}, l \in links :
        url = [key |-> k, exp |-> e, sig |-> l.sig]
  BY DEF UrlsAtHand
<1>2. Minted(l)
  BY DEF LinksInv, LinksAreMinted
<1>3. l.sig = [secret |-> secret, key |-> k, exp |-> e]
  BY <1>1 DEF verifySignedUrl, signKey
<1>4. l.sig = [secret |-> l.sig.secret, key |-> l.key, exp |-> l.exp]
  BY <1>2 DEF Minted, signKey
<1>5. l.key = k /\ l.exp = e
  BY <1>3, <1>4
<1>6. url = l
  BY <1>1, <1>2, <1>5 DEF Minted
<1>7. l.exp \in Int /\ second \in Nat
  BY <1>2 DEF Minted, LinksInv, LinksTyped
<1>8. l.exp > second
  BY <1>1, <1>5, <1>6 DEF verifySignedUrl
<1> QED
  BY <1>6, <1>7, <1>8

\* One upload, attachment or reaping touches one key.
LEMMA UploadSteps ==
  ASSUME LinksInv, NEW k \in BlobKey,
         put(k) \/ putEnds(k) \/ Attach(k) \/ ReapBlob(k) \/ ReapRowOf(k)
  PROVE  LinksInv'
<1> USE DEF LinksInv
<1>1. CASE put(k)
  <2>1. LinksTyped'
    BY <1>1 DEF put, LinksTyped
  <2>2. \A j \in BlobKey : Uploaded(j) => Uploaded(j)'
    BY <1>1 DEF put, Uploaded, LinksTyped
  <2>3. AnsweredIsWhole'
    BY <1>1 DEF put, AnsweredIsWhole, LinksTyped, Uploaded
  <2>4. LinksAreMinted'
    BY <1>1, <2>2, LinksKept DEF put
  <2>5. \A r \in Fetch : FetchOK(fetch[r])'
    BY <1>1, <2>2, FetchesKept DEF put
  <2> QED
    BY <1>1, <2>1, <2>3, <2>4, <2>5 DEF put, ServedAsMinted
<1>2. CASE putEnds(k)
  <2>1. LinksTyped'
    BY <1>2 DEF putEnds, PutWritten, LinksTyped
  <2>2. \A j \in BlobKey : Uploaded(j) => Uploaded(j)'
    BY <1>2 DEF putEnds, PutWritten, Uploaded, LinksTyped
  <2>3. AnsweredIsWhole'
    BY <1>2 DEF putEnds, PutWritten, AnsweredIsWhole, LinksTyped, Uploaded
  <2>4. LinksAreMinted'
    BY <1>2, <2>2, LinksKept DEF putEnds
  <2>5. \A r \in Fetch : FetchOK(fetch[r])'
    BY <1>2, <2>2, FetchesKept DEF putEnds
  <2> QED
    BY <1>2, <2>1, <2>3, <2>4, <2>5 DEF putEnds, ServedAsMinted
<1>3. CASE Attach(k)
  <2>1. LinksTyped'
    BY <1>3 DEF Attach, LinksTyped
  <2>2. \A j \in BlobKey : Uploaded(j) => Uploaded(j)'
    BY <1>3 DEF Attach, Uploaded, LinksTyped
  <2>3. AnsweredIsWhole'
    BY <1>3 DEF Attach, AnsweredIsWhole, LinksTyped, Uploaded
  <2>4. LinksAreMinted'
    BY <1>3, <2>2, LinksKept DEF Attach
  <2>5. \A r \in Fetch : FetchOK(fetch[r])'
    BY <1>3, <2>2, FetchesKept DEF Attach
  <2> QED
    BY <1>3, <2>1, <2>3, <2>4, <2>5 DEF Attach, ServedAsMinted
<1>4. CASE ReapBlob(k)
  <2>1. LinksTyped'
    BY <1>4 DEF ReapBlob, LinksTyped
  <2>2. \A j \in BlobKey : Uploaded(j) => Uploaded(j)'
    BY <1>4 DEF ReapBlob, Uploaded, LinksTyped
  <2>3. AnsweredIsWhole'
    BY <1>4 DEF ReapBlob, AnsweredIsWhole, LinksTyped, Uploaded
  <2>4. LinksAreMinted'
    BY <1>4, <2>2, LinksKept DEF ReapBlob
  <2>5. \A r \in Fetch : FetchOK(fetch[r])'
    BY <1>4, <2>2, FetchesKept DEF ReapBlob
  <2> QED
    BY <1>4, <2>1, <2>3, <2>4, <2>5 DEF ReapBlob, ServedAsMinted
<1>5. CASE ReapRowOf(k)
  <2>1. LinksTyped'
    BY <1>5 DEF ReapRowOf, LinksTyped
  <2>2. \A j \in BlobKey : Uploaded(j) => Uploaded(j)'
    BY <1>5 DEF ReapRowOf, Uploaded, LinksTyped
  <2>3. AnsweredIsWhole'
    BY <1>5 DEF ReapRowOf, AnsweredIsWhole, LinksTyped, Uploaded
  <2>4. LinksAreMinted'
    BY <1>5, <2>2, LinksKept DEF ReapRowOf
  <2>5. \A r \in Fetch : FetchOK(fetch[r])'
    BY <1>5, <2>2, FetchesKept DEF ReapRowOf
  <2> QED
    BY <1>5, <2>1, <2>3, <2>4, <2>5 DEF ReapRowOf, ServedAsMinted
<1> QED
  BY <1>1, <1>2, <1>3, <1>4, <1>5

\* A request puts its own state forward, mints a link or serves a file.
LEMMA RequestSteps ==
  ASSUME LinksInv, NEW r \in Fetch, MediaRequest(r)
  PROVE  LinksInv'
<1> USE DEF LinksInv
<1>0. uploadOf' = uploadOf => \A k \in BlobKey : Uploaded(k) => Uploaded(k)'
  BY DEF Uploaded
<1>1. ASSUME NEW k \in BlobKey, NEW kid, mediaArtifactFor(r, k, kid)
      PROVE  LinksInv'
  <2>1. LinksTyped'
    BY <1>1 DEF mediaArtifactFor, FetchIs, LinksTyped
  <2>2. Uploaded(k)
    BY <1>1 DEF mediaArtifactFor, AnsweredIsWhole
  <2>3. ASSUME NEW q \in Fetch PROVE FetchOK(fetch[q])'
    <3>1. CASE q = r
      <4>1. fetch'[r] = [pc |-> "row", key |-> k]
        BY <1>1 DEF mediaArtifactFor, FetchIs, LinksTyped
      <4>2. Uploaded(k)'
        BY <1>1, <2>2 DEF mediaArtifactFor, Uploaded
      <4> QED
        BY <3>1, <4>1, <4>2 DEF FetchOK, Uploaded
    <3>2. CASE q # r
      BY <1>1, <3>2, FetchesKept DEF mediaArtifactFor, FetchIs, LinksTyped, Uploaded
    <3> QED
      BY <3>1, <3>2
  <2>4. AnsweredIsWhole' /\ LinksAreMinted'
    BY <1>1, LinksKept DEF mediaArtifactFor, AnsweredIsWhole, Uploaded
  <2> QED
    BY <1>1, <2>1, <2>3, <2>4 DEF mediaArtifactFor, ServedAsMinted
<1>2. CASE GetArtifact(r)
  <2>1. LinksTyped'
    BY <1>2 DEF GetArtifact, FetchIs, LinksTyped
  <2>2. fetch[r] = [pc |-> "row", key |-> fetch[r].key] /\ Uploaded(fetch[r].key)
    BY <1>2, FetchIsOneOf DEF GetArtifact
  <2>3. PICK k \in BlobKey : k = fetch[r].key
    BY <2>2 DEF Uploaded
  <2>4. links' \subseteq links \cup {signedUrl(k)} /\ links \subseteq links'
    BY <1>2, <2>3 DEF GetArtifact
  <2>5. ASSUME NEW q \in Fetch PROVE FetchOK(fetch[q])'
    <3>1. CASE q = r
      BY <1>2, <3>1 DEF GetArtifact, FetchIs, LinksTyped, FetchOK
    <3>2. CASE q # r
      BY <1>2, <2>4, <3>2, FetchesKept DEF GetArtifact, FetchIs, LinksTyped, Uploaded
    <3> QED
      BY <3>1, <3>2
  <2>6. AnsweredIsWhole'
    BY <1>2 DEF GetArtifact, AnsweredIsWhole, Uploaded
  <2>7. LinksAreMinted'
    <3> SUFFICES ASSUME NEW l \in links' PROVE (Minted(l) /\ Uploaded(l.key))'
      BY DEF LinksAreMinted
    <3>1. Minted(l) /\ Uploaded(l.key)
      BY <2>2, <2>3, <2>4, MintedNow DEF LinksAreMinted
    <3>2. secret' = secret /\ uploadOf' = uploadOf
      BY <1>2 DEF GetArtifact
    <3> QED
      BY <3>1, <3>2 DEF Minted, Uploaded
  <2> QED
    BY <1>2, <2>1, <2>4, <2>5, <2>6, <2>7 DEF GetArtifact, ServedAsMinted
<1>3. ASSUME NEW url \in UrlsAtHand, serveSignedMedia(r, url)
      PROVE  LinksInv'
  <2>1. LinksTyped'
    BY <1>3 DEF serveSignedMedia, FetchIs, LinksTyped
  <2>2. url \in links /\ second < url.exp
    BY <1>3, VerifiedIsMinted DEF serveSignedMedia
  <2>3. ASSUME NEW q \in Fetch PROVE FetchOK(fetch[q])'
    <3>1. CASE q = r
      <4>1. fetch'[r] = [pc |-> "verified", url |-> url, at |-> second] /\ links' = links
        BY <1>3 DEF serveSignedMedia, FetchIs, LinksTyped
      <4> QED
        BY <3>1, <4>1, <2>2 DEF FetchOK
    <3>2. CASE q # r
      BY <1>3, <3>2, FetchesKept DEF serveSignedMedia, FetchIs, LinksTyped, Uploaded
    <3> QED
      BY <3>1, <3>2
  <2>4. AnsweredIsWhole' /\ LinksAreMinted'
    BY <1>3, LinksKept DEF serveSignedMedia, AnsweredIsWhole, Uploaded
  <2> QED
    BY <1>3, <2>1, <2>3, <2>4 DEF serveSignedMedia, ServedAsMinted
<1>4. CASE MediaServed(r)
  <2>1. LinksTyped'
    BY <1>4 DEF MediaServed, FetchIs, LinksTyped
  <2>2. /\ fetch[r] = [pc |-> "verified", url |-> fetch[r].url, at |-> fetch[r].at]
        /\ fetch[r].url \in links /\ fetch[r].at < fetch[r].url.exp
    BY <1>4, FetchIsOneOf DEF MediaServed
  <2>3. disk[fetch[r].url.key] \in {"none", "whole"}
    BY <2>2 DEF LinksAreMinted, AnsweredIsWhole, Uploaded
  <2>4. ServedAsMinted'
    BY <1>4, <2>2, <2>3 DEF MediaServed, ServedAsMinted
  <2>5. ASSUME NEW q \in Fetch PROVE FetchOK(fetch[q])'
    <3>1. CASE q = r
      BY <1>4, <3>1 DEF MediaServed, FetchIs, LinksTyped, FetchOK
    <3>2. CASE q # r
      BY <1>4, <3>2, FetchesKept DEF MediaServed, FetchIs, LinksTyped, Uploaded
    <3> QED
      BY <3>1, <3>2
  <2>6. AnsweredIsWhole' /\ LinksAreMinted'
    BY <1>4, LinksKept DEF MediaServed, AnsweredIsWhole, Uploaded
  <2> QED
    BY <1>4, <2>1, <2>4, <2>5, <2>6
<1> QED
  BY <1>1, <1>2, <1>3, <1>4 DEF MediaRequest

\* A restart leaves no request, and no upload that was not answered; time leaves all.
LEMMA LinksInvNext == LinksInv /\ [LinksNext]_linkVars => LinksInv'
<1> SUFFICES ASSUME LinksInv, [LinksNext]_linkVars PROVE LinksInv'
  OBVIOUS
<1> USE DEF LinksInv
<1>1. ASSUME NEW k \in BlobKey,
             put(k) \/ putEnds(k) \/ Attach(k) \/ ReapBlob(k) \/ ReapRowOf(k)
      PROVE  LinksInv'
  BY <1>1, UploadSteps
<1>2. ASSUME NEW kid \in {KidOf[j] : j \in BlobKey}, ExportLinks(kid)
      PROVE  LinksInv'
  <2>1. LinksTyped' /\ AnsweredIsWhole'
    BY <1>2 DEF ExportLinks, LinksTyped, AnsweredIsWhole, Uploaded
  <2>2. links \subseteq links'
    BY <1>2 DEF ExportLinks
  <2>3. \A r \in Fetch : FetchOK(fetch[r])'
    BY <1>2, <2>2, FetchesKept DEF ExportLinks, Uploaded
  <2>4. LinksAreMinted'
    <3> SUFFICES ASSUME NEW l \in links' PROVE (Minted(l) /\ Uploaded(l.key))'
      BY DEF LinksAreMinted
    <3>1. Minted(l) /\ Uploaded(l.key)
      <4>1. CASE l \in links
        BY <4>1 DEF LinksAreMinted
      <4>2. CASE l \notin links
        <5>1. PICK k \in BlobKey : kid \in rowOf[k] /\ l = signedUrl(k)
          BY <1>2, <4>2 DEF ExportLinks
        <5> QED
          BY <5>1, MintedNow DEF AnsweredIsWhole
      <4> QED
        BY <4>1, <4>2
    <3>2. secret' = secret /\ uploadOf' = uploadOf
      BY <1>2 DEF ExportLinks
    <3> QED
      BY <3>1, <3>2 DEF Minted, Uploaded
  <2> QED
    BY <1>2, <2>1, <2>2, <2>3, <2>4 DEF ExportLinks, ServedAsMinted
<1>3. ASSUME NEW r \in Fetch, MediaRequest(r)
      PROVE  LinksInv'
  BY <1>3, RequestSteps
<1>4. CASE Restart
  <2>1. secret' \in Nat /\ (MEDIA_SIGNING_SECRET => secret' = secret)
    BY <1>4 DEF Restart, SecretOfProcess, LinksTyped
  <2>2. LinksTyped'
    BY <1>4, <2>1 DEF Restart, LinksTyped
  <2>3. \A k \in BlobKey : Uploaded(k) => Uploaded(k)'
    BY <1>4 DEF Restart, Uploaded
  <2>4. AnsweredIsWhole'
    BY <1>4, <2>3 DEF Restart, AnsweredIsWhole
  <2>5. LinksAreMinted'
    BY <1>4, <2>1, <2>3, LinksKept DEF Restart
  <2>6. \A r \in Fetch : FetchOK(fetch[r])'
    BY <1>4 DEF Restart, FetchOK
  <2> QED
    BY <1>4, <2>2, <2>4, <2>5, <2>6 DEF Restart, ServedAsMinted
<1>5. CASE SecondPasses
  <2>1. LinksTyped' /\ AnsweredIsWhole'
    BY <1>5 DEF SecondPasses, LinksTyped, AnsweredIsWhole, Uploaded
  <2>2. LinksAreMinted' /\ \A r \in Fetch : FetchOK(fetch[r])'
    BY <1>5, LinksKept, FetchesKept DEF SecondPasses, Uploaded
  <2> QED
    BY <1>5, <2>1, <2>2 DEF SecondPasses, ServedAsMinted
<1>6. CASE UNCHANGED linkVars
  <2>1. LinksTyped' /\ AnsweredIsWhole'
    BY <1>6 DEF linkVars, LinksTyped, AnsweredIsWhole, Uploaded
  <2>2. LinksAreMinted' /\ \A r \in Fetch : FetchOK(fetch[r])'
    BY <1>6, LinksKept, FetchesKept DEF linkVars, Uploaded
  <2> QED
    BY <1>6, <2>1, <2>2 DEF linkVars, ServedAsMinted
<1> QED
  BY <1>1, <1>2, <1>3, <1>4, <1>5, <1>6 DEF LinksNext

\* routes.mjs, MEDIA_SIGNING_SECRET: a minted link verifies until its expiry.
LEMMA MintedIsLive == LinksInv => LinksLive
<1> SUFFICES ASSUME LinksInv, MEDIA_SIGNING_SECRET, NEW l \in links
             PROVE  verifySignedUrl(l) = (second < l.exp)
  BY DEF LinksLive
<1>1. Minted(l) /\ second \in Nat
  BY DEF LinksInv, LinksAreMinted, LinksTyped
<1>2. l.sig.secret = secret /\ l.exp \in Int
  BY <1>1 DEF Minted
<1>3. l.sig = signKey(secret, l.key, l.exp)
  BY <1>1, <1>2 DEF Minted
<1>4. l.exp > second <=> second < l.exp
  BY <1>1, <1>2
<1> QED
  BY <1>3, <1>4 DEF verifySignedUrl

\* The invariant behind the links, from the first process on.
THEOREM LinksInvariant == LinksSpec => []LinksInv
BY LinksInvInit, LinksInvNext, PTL DEF LinksSpec

\* signed_media.mjs and storage.ts: however uploads, the reaper and restarts come in
\* between, what a link serves is the whole recording it was minted for, in time;
\* and with a configured secret every link works until it expires.
THEOREM LinksServeAsMinted == LinksSpec => [](ServedAsMinted /\ LinksLive)
<1>1. LinksInv => ServedAsMinted
  BY DEF LinksInv
<1> QED
  BY <1>1, LinksInvariant, MintedIsLive, PTL

-----------------------------------------------------------------------------
(* The authorization decision. *)

\* authorize.ts: what an edge may say, in the order of its tests.
Refusal == {DenyRank[n] : n \in 1 .. 10}

LEMMA TenRefusals ==
  /\ DOMAIN DenyRank = 1 .. 10 /\ Len(DenyRank) = 10
  /\ "allow" \notin Refusal
  /\ {"edge_closed", "edge_expired", "outside_validity", "restricted", "ladder_none",
      "observer_readonly", "role_lacks_capability", "scope_denied", "tier_required"} \subseteq Refusal
<1>1. DOMAIN DenyRank = 1 .. 10 /\ Len(DenyRank) = 10
  BY DEF DenyRank
<1>2. /\ DenyRank[1] = "no_edge" /\ DenyRank[2] = "edge_closed" /\ DenyRank[3] = "edge_expired"
      /\ DenyRank[4] = "outside_validity" /\ DenyRank[5] = "restricted"
      /\ DenyRank[6] = "ladder_none" /\ DenyRank[7] = "observer_readonly"
      /\ DenyRank[8] = "role_lacks_capability" /\ DenyRank[9] = "scope_denied"
      /\ DenyRank[10] = "tier_required"
  BY DEF DenyRank
<1>3. ASSUME NEW n \in 1 .. 10 PROVE DenyRank[n] # "allow"
  <2>1. n = 1 \/ n = 2 \/ n = 3 \/ n = 4 \/ n = 5 \/ n = 6 \/ n = 7 \/ n = 8 \/ n = 9 \/ n = 10
    OBVIOUS
  <2> QED
    BY <2>1, <1>2
<1>4. "allow" \notin Refusal
  BY <1>3 DEF Refusal
<1>5. \A n \in 1 .. 10 : DenyRank[n] \in Refusal
  BY DEF Refusal
<1>6. {"edge_closed", "edge_expired", "outside_validity", "restricted", "ladder_none",
       "observer_readonly", "role_lacks_capability", "scope_denied", "tier_required"} \subseteq Refusal
  BY <1>2, <1>5
<1> QED
  BY <1>1, <1>4, <1>6

\* Whatever an edge is, it lets the action pass or says why not.
LEMMA EdgeAnswers ==
  ASSUME NEW e, NEW action, NEW t, NEW court
  PROVE  EdgeSays(e, action, t, court) \in Refusal \cup {"allow"}
<1>1. Lapsed(e, t) \in {"edge_closed", "edge_expired", "outside_validity", "live"}
  BY DEF Lapsed
<1>2. Lapsed(e, t) # "live" => Lapsed(e, t) \in Refusal
  BY <1>1, TenRefusals
<1> QED
  BY <1>2, TenRefusals DEF EdgeSays

\* An edge that allows is in force and not restricted.
LEMMA AllowsIsLive ==
  ASSUME NEW e, NEW action, NEW t, NEW court, EdgeSays(e, action, t, court) = "allow"
  PROVE  ~Past(e.closedAt, t) /\ ~Past(e.expiresAt, t) /\ ~e.restricted
<1>0. Lapsed(e, t) \in {"edge_closed", "edge_expired", "outside_validity", "live"}
  BY DEF Lapsed
<1>1. Lapsed(e, t) = "live"
  BY <1>0 DEF EdgeSays
<1>2. ~e.restricted
  BY <1>1 DEF EdgeSays
<1>3. Past(e.closedAt, t) => Lapsed(e, t) = "edge_closed"
  BY DEF Lapsed
<1>4. ~Past(e.closedAt, t) /\ Past(e.expiresAt, t) => Lapsed(e, t) = "edge_expired"
  BY DEF Lapsed
<1> QED
  BY <1>1, <1>2, <1>3, <1>4

\* Of some refusals one got furthest.
LEMMA SomeRefusalWins ==
  ASSUME NEW says, NEW s \in says, s \in Refusal
  PROVE  \E n \in 1 .. 10 : DenyRank[n] \in says /\ \A j \in n + 1 .. 10 : DenyRank[j] \notin says
<1> DEFINE P(n) == DenyRank[n] \in says
           Q(n) == P(n) /\ \A j \in n + 1 .. 10 : ~P(j)
<1>1. PICK m \in 1 .. 10 : P(m)
  BY DEF Refusal
<1> HIDE DEF P
<1>2. m = 1 \/ m = 2 \/ m = 3 \/ m = 4 \/ m = 5 \/ m = 6 \/ m = 7 \/ m = 8 \/ m = 9 \/ m = 10
  OBVIOUS
<1>3. \/ P(1) \/ P(2) \/ P(3) \/ P(4) \/ P(5) \/ P(6) \/ P(7) \/ P(8) \/ P(9) \/ P(10)
  BY <1>1, <1>2
<1>4. \E n \in 1 .. 10 : Q(n)
  <2>1. CASE P(10)
    BY <2>1
  <2>2. CASE P(9) /\ ~P(10)
    BY <2>2
  <2>3. CASE P(8) /\ ~P(9) /\ ~P(10)
    BY <2>3
  <2>4. CASE P(7) /\ ~P(8) /\ ~P(9) /\ ~P(10)
    BY <2>4
  <2>5. CASE P(6) /\ ~P(7) /\ ~P(8) /\ ~P(9) /\ ~P(10)
    BY <2>5
  <2>6. CASE P(5) /\ ~P(6) /\ ~P(7) /\ ~P(8) /\ ~P(9) /\ ~P(10)
    BY <2>6
  <2>7. CASE P(4) /\ ~P(5) /\ ~P(6) /\ ~P(7) /\ ~P(8) /\ ~P(9) /\ ~P(10)
    BY <2>7
  <2>8. CASE P(3) /\ ~P(4) /\ ~P(5) /\ ~P(6) /\ ~P(7) /\ ~P(8) /\ ~P(9) /\ ~P(10)
    BY <2>8
  <2>9. CASE P(2) /\ ~P(3) /\ ~P(4) /\ ~P(5) /\ ~P(6) /\ ~P(7) /\ ~P(8) /\ ~P(9) /\ ~P(10)
    BY <2>9
  <2>10. CASE /\ P(1) /\ ~P(2) /\ ~P(3) /\ ~P(4) /\ ~P(5) /\ ~P(6) /\ ~P(7) /\ ~P(8) /\ ~P(9)
              /\ ~P(10)
    BY <2>10
  <2> QED
    BY <1>3, <2>1, <2>2, <2>3, <2>4, <2>5, <2>6, <2>7, <2>8, <2>9, <2>10
<1> QED
  BY <1>4 DEF P

\* authorize.ts, can: the answer is "allow" if and only if it is not one of the two
\* things nobody is allowed, and some edge of this child allows it.
Forbidden(action, isChild) ==
  \/ action = "journal.read"
  \/ isChild /\ action \in {"expense.view", "expense.create", "expense.resolve"}

LEMMA OneEdgeDecides ==
  ASSUME NEW action, NEW es, NEW child, NEW t, NEW isChild \in BOOLEAN, NEW court
  PROVE  can(action, es, child, t, isChild, court) = "allow" <=>
           /\ ~Forbidden(action, isChild)
           /\ \E e \in es : e.child = child /\ EdgeSays(e, action, t, court) = "allow"
<1> DEFINE hers == {f \in es : f.child = child}
           says == {EdgeSays(e, action, t, court) : e \in hers}
           D == DenyRank[CHOOSE n \in DOMAIN DenyRank :
                  DenyRank[n] \in says /\ \A j \in n + 1 .. Len(DenyRank) : DenyRank[j] \notin says]
           C == can(action, es, child, t, isChild, court)
<1>1. C = IF action = "journal.read" THEN "P7_journal_never"
          ELSE IF isChild /\ action \in {"expense.view", "expense.create", "expense.resolve"}
          THEN "P6_child_financial"
          ELSE IF hers = {} THEN "no_edge"
          ELSE IF "allow" \in says THEN "allow"
          ELSE D
  BY Zenon DEF can, VerdictOf
<1>2. "allow" \in says <=> \E e \in es : e.child = child /\ EdgeSays(e, action, t, court) = "allow"
  BY Zenon
<1>3. ASSUME hers # {}, "allow" \notin says PROVE D # "allow"
  <2>1. PICK e \in hers : TRUE
    BY <1>3
  <2>2. EdgeSays(e, action, t, court) \in says
    BY <2>1
  <2>3. EdgeSays(e, action, t, court) \in Refusal
    BY <1>3, <2>2, EdgeAnswers
  <2> HIDE DEF says
  <2>4. \E n \in DOMAIN DenyRank : DenyRank[n] \in says /\ \A j \in n + 1 .. Len(DenyRank) : DenyRank[j] \notin says
    BY <2>2, <2>3, SomeRefusalWins, TenRefusals
  <2>5. \E n \in DOMAIN DenyRank : D = DenyRank[n]
    BY <2>4, Zenon
  <2> QED
    BY <2>5, TenRefusals DEF Refusal
<1> HIDE DEF says, D, hers, C
<1>4. CASE Forbidden(action, isChild)
  BY <1>1, <1>4 DEF Forbidden, C
<1>5. CASE ~Forbidden(action, isChild) /\ hers = {}
  <2>1. C = "no_edge"
    BY <1>1, <1>5 DEF Forbidden
  <2>2. ~\E e \in es : e.child = child
    BY <1>5 DEF hers
  <2> QED
    BY <2>1, <2>2 DEF C
<1>6. CASE ~Forbidden(action, isChild) /\ hers # {} /\ "allow" \in says
  <2>1. C = "allow"
    BY <1>1, <1>6 DEF Forbidden
  <2> QED
    BY <2>1, <1>2, <1>6 DEF C
<1>7. CASE ~Forbidden(action, isChild) /\ hers # {} /\ "allow" \notin says
  <2>1. C = D
    BY <1>1, <1>7 DEF Forbidden
  <2> QED
    BY <2>1, <1>2, <1>3, <1>7 DEF C
<1> QED
  BY <1>4, <1>5, <1>6, <1>7

\* authorize.ts, can: one edge more never takes an answer away.
THEOREM AnEdgeMoreNeverHurts ==
  ASSUME NEW action, NEW es, NEW more, es \subseteq more, NEW child, NEW t,
         NEW isChild \in BOOLEAN, NEW court, can(action, es, child, t, isChild, court) = "allow"
  PROVE  can(action, more, child, t, isChild, court) = "allow"
BY OneEdgeDecides

\* authorize.ts, can: an edge closed by now is as none.
THEOREM AClosedEdgeIsNone ==
  ASSUME NEW action, NEW es, NEW e, NEW child, NEW t, Past(e.closedAt, t),
         NEW isChild \in BOOLEAN, NEW court
  PROVE  can(action, es \cup {e}, child, t, isChild, court) = "allow"
           <=> can(action, es, child, t, isChild, court) = "allow"
<1>1. EdgeSays(e, action, t, court) # "allow"
  BY AllowsIsLive
<1> QED
  BY <1>1, OneEdgeDecides

-----------------------------------------------------------------------------
(* The edges of MCRules. *)

EdgeInv == held \subseteq EdgesKnown /\ question \in Asked /\ instant \in 0 .. 3

\* Every edge known has a closing instant to set.
LEMMA EdgesHaveAnEnd ==
  ASSUME NEW e \in EdgesKnown
  PROVE  "closedAt" \in DOMAIN e
<1>1. \A who, role, from, to : "closedAt" \in DOMAIN Edge(who, role, from, to)
  BY DEF Edge
<1>2. \A d : /\ DOMAIN [d EXCEPT !.expiresAt = 2] = DOMAIN d
             /\ DOMAIN [d EXCEPT !.closedAt = 1] = DOMAIN d
  OBVIOUS
<1>3. \A d, o, r, n, l :
        DOMAIN [d EXCEPT !.observerOnly = o, !.restricted = r, !.denied = n, !.ladderStep = l] = DOMAIN d
  OBVIOUS
<1> HIDE DEF Edge
<1>4. CASE e \in Guardianships
  BY <1>1, <1>4 DEF Guardianships
<1>5. CASE e \in Helpers
  BY <1>1, <1>5 DEF Helpers
<1>6. CASE e \in {[d EXCEPT !.expiresAt = 2] : d \in Helpers}
  BY <1>1, <1>2, <1>6 DEF Helpers
<1>7. CASE e = [Edge(Ada, "guardian", Never, Never) EXCEPT !.closedAt = 1]
  BY <1>1, <1>2, <1>7
<1>8. CASE e \in LimitedGuardianships
  <2>1. \A o, r, n, l : "closedAt" \in DOMAIN Limited(o, r, n, l)
    BY <1>1, <1>3 DEF Limited
  <2> HIDE DEF Limited
  <2> QED
    BY <1>8, <2>1 DEF LimitedGuardianships
<1>9. CASE e = Edge(Ben, "guardian", Never, Never)
  BY <1>1, <1>9
<1> QED
  BY <1>4, <1>5, <1>6, <1>7, <1>8, <1>9 DEF EdgesKnown

LEMMA AskedOf == ASSUME NEW q \in Asked PROVE q.isChild \in BOOLEAN
<1>1. \A a, ch, co : Query(a, ch, co).isChild = ch
  BY DEF Query
<1>2. \E a, ch, co : ch \in BOOLEAN /\ q = Query(a, ch, co)
  BY DEF Asked
<1> QED
  BY <1>1, <1>2

\* authorize.ts, can, in any state of the run.
LEMMA EdgeInvDecides == EdgeInv => AnotherEdgeNeverHurts /\ ClosedIsGone
<1> SUFFICES ASSUME EdgeInv PROVE AnotherEdgeNeverHurts /\ ClosedIsGone
  OBVIOUS
<1>1. question.isChild \in BOOLEAN
  BY AskedOf DEF EdgeInv
<1>2. ASSUME NEW e \in held, Decision({e}) = "allow" PROVE Decision(held) = "allow"
  BY <1>1, <1>2, AnEdgeMoreNeverHurts DEF Decision
<1>3. ASSUME NEW e \in held, NEW others
      PROVE  Decision(others \cup {[e EXCEPT !.closedAt = instant]}) = "allow" <=> Decision(others) = "allow"
  <2> DEFINE shut == [e EXCEPT !.closedAt = instant]
  <2>1. e \in EdgesKnown /\ instant \in Int /\ instant <= instant
    BY <1>3 DEF EdgeInv
  <2>2. shut.closedAt = instant
    BY <2>1, EdgesHaveAnEnd
  <2>3. Past(shut.closedAt, instant)
    BY <2>1, <2>2, NeverAssumption DEF Past
  <2> HIDE DEF shut
  <2>4. Decision(others \cup {shut}) = "allow" <=> Decision(others) = "allow"
    BY <1>1, <2>3, AClosedEdgeIsNone DEF Decision
  <2> QED
    BY <2>4 DEF shut
<1> QED
  BY <1>2, <1>3 DEF AnotherEdgeNeverHurts, ClosedIsGone

\* Nothing but time passes for the edges.
LEMMA EdgeInvKept == EdgeInv /\ (TimePasses \/ UNCHANGED edgeVars) => EdgeInv'
BY DEF EdgeInv, TimePasses, edgeVars

-----------------------------------------------------------------------------
(* Observers. *)

\* observer.ts: the invitations and who ended each; one in force has no end yet, and
\* a person holds one at a time.
Invitation == [user : Relative, invitedBy : Guardian, accepted : BOOLEAN, revoked : BOOLEAN]

ObserverInv ==
  /\ observers \in Seq(Invitation) /\ revoker \in Seq(SUBSET Guardian)
  /\ DOMAIN revoker = DOMAIN observers
  /\ \A k \in DOMAIN observers : revoker[k] \subseteq {observers[k].invitedBy}
  /\ \A j, k \in DOMAIN observers :
       j # k /\ observers[j].user = observers[k].user => ~(Live(observers[j]) /\ Live(observers[k]))

LEMMA ObserverInvInit == observers = <<>> /\ revoker = <<>> => ObserverInv
BY DEF ObserverInv

\* observer.ts, revoke: what it finds is the one invitation of that person in force.
LEMMA InvitationFound ==
  ASSUME ObserverInv, NEW u, InvitationOf(u) # 0
  PROVE  /\ InvitationOf(u) \in DOMAIN observers /\ observers[InvitationOf(u)].user = u
         /\ Live(observers[InvitationOf(u)])
<1> DEFINE I == {k \in DOMAIN observers : observers[k].user = u /\ Live(observers[k])}
<1>1. InvitationOf(u) = IF I = {} THEN 0 ELSE CHOOSE x \in I : \A y \in I : x <= y
  BY DEF InvitationOf
<1>2. PICK k \in I : TRUE
  BY <1>1
<1>3. I = {k} /\ k <= k
  BY <1>2 DEF ObserverInv
<1>4. \E x \in I : \A y \in I : x <= y
  BY <1>3
<1> HIDE DEF I
<1>5. (CHOOSE x \in I : \A y \in I : x <= y) \in I
  BY <1>4, Zenon
<1>6. InvitationOf(u) \in I
  BY <1>1, <1>2, <1>5
<1> QED
  BY <1>6 DEF I

LEMMA ObserverInvNext == ObserverInv /\ (ObserversNext \/ UNCHANGED observerVars) => ObserverInv'
<1> SUFFICES ASSUME ObserverInv, ObserversNext \/ UNCHANGED observerVars PROVE ObserverInv'
  OBVIOUS
<1> DEFINE Alike(j, k) == observers[j].user = observers[k].user
           N == Len(observers)
<1>0. /\ observers \in Seq(Invitation) /\ N \in Nat /\ DOMAIN observers = 1 .. N
      /\ DOMAIN revoker = 1 .. N /\ revoker \in Seq(SUBSET Guardian) /\ Len(revoker) = N
      /\ \A k \in 1 .. N : revoker[k] \in SUBSET Guardian
      /\ \A k \in 1 .. N : observers[k] \in Invitation
  BY DEF ObserverInv
<1>1. ASSUME NEW byRole, NEW g \in Guardian, NEW u \in Relative, invite(byRole, g, u)
      PROVE  ObserverInv'
  <2> DEFINE new == [user |-> u, invitedBy |-> g, accepted |-> FALSE, revoked |-> FALSE]
  <2>1. new \in Invitation
    BY DEF Invitation
  <2>2. observers' = Append(observers, new) /\ revoker' = Append(revoker, {})
    BY <1>1 DEF invite
  <2>3. observers' \in Seq(Invitation) /\ DOMAIN observers' = 1 .. N + 1
    BY <1>0, <2>1, <2>2
  <2>4. \A k \in 1 .. N : observers'[k] = observers[k]
    BY <1>0, <2>1, <2>2
  <2>5. observers'[N + 1] = new
    BY <1>0, <2>1, <2>2
  <2>6. revoker' \in Seq(SUBSET Guardian) /\ DOMAIN revoker' = 1 .. N + 1
    BY <1>0, <2>2 DEF ObserverInv
  <2>7. (\A k \in 1 .. N : revoker'[k] = revoker[k]) /\ revoker'[N + 1] = {}
    BY <1>0, <2>2 DEF ObserverInv
  <2>8. \A k \in 1 .. N : observers[k].user = u => ~Live(observers[k])
    BY <1>0, <1>1 DEF invite
  <2>9. \A k \in 1 .. N + 1 : k \in 1 .. N \/ k = N + 1
    BY <1>0
  <2>10. ASSUME NEW k \in 1 .. N + 1 PROVE revoker'[k] \subseteq {observers'[k].invitedBy}
    BY <1>0, <2>4, <2>7, <2>9 DEF ObserverInv
  <2>11. ASSUME NEW j \in 1 .. N + 1, NEW k \in 1 .. N + 1, j # k, observers'[j].user = observers'[k].user
         PROVE  ~(Live(observers'[j]) /\ Live(observers'[k]))
    <3>1. CASE j \in 1 .. N /\ k \in 1 .. N
      BY <1>0, <2>4, <2>11, <3>1 DEF ObserverInv
    <3>2. CASE j = N + 1 /\ k \in 1 .. N
      BY <2>4, <2>5, <2>8, <2>11, <3>2
    <3>3. CASE k = N + 1 /\ j \in 1 .. N
      BY <2>4, <2>5, <2>8, <2>11, <3>3
    <3> QED
      BY <2>9, <2>11, <3>1, <3>2, <3>3
  <2> QED
    BY <2>3, <2>6, <2>10, <2>11 DEF ObserverInv, Live
<1>2. ASSUME NEW k \in DOMAIN observers, acceptInvitation(k)
      PROVE  ObserverInv'
  <2>1. /\ observers' \in Seq(Invitation) /\ DOMAIN observers' = DOMAIN observers
        /\ \A j \in DOMAIN observers : /\ observers'[j].user = observers[j].user
                                       /\ observers'[j].invitedBy = observers[j].invitedBy
                                       /\ Live(observers'[j]) = Live(observers[j])
    <3>1. observers' = [observers EXCEPT ![k].accepted = TRUE]
      BY <1>2 DEF acceptInvitation
    <3>2. [observers[k] EXCEPT !.accepted = TRUE] \in Invitation
      BY <1>0, <1>2 DEF Invitation
    <3>3. observers' = [observers EXCEPT ![k] = [observers[k] EXCEPT !.accepted = TRUE]]
      BY <3>1
    <3>4. observers' \in Seq(Invitation) /\ DOMAIN observers' = DOMAIN observers
      BY <1>0, <1>2, <3>2, <3>3
    <3>5. ASSUME NEW j \in DOMAIN observers
          PROVE  /\ observers'[j].user = observers[j].user
                 /\ observers'[j].invitedBy = observers[j].invitedBy
                 /\ Live(observers'[j]) = Live(observers[j])
      BY <1>0, <1>2, <3>3 DEF Invitation, Live
    <3> QED
      BY <3>4, <3>5
  <2> QED
    BY <1>2, <2>1 DEF ObserverInv, acceptInvitation
<1>3. ASSUME NEW g \in Guardian, NEW u \in Relative, revoke(g, u)
      PROVE  ObserverInv'
  <2> DEFINE k == InvitationOf(u)
  <2>1. k \in DOMAIN observers /\ observers[k].user = u /\ Live(observers[k]) /\ observers[k].invitedBy = g
    BY <1>3, InvitationFound DEF revoke
  <2>2. /\ observers' = [j \in DOMAIN observers |->
               IF observers[j].user = u THEN [observers[j] EXCEPT !.revoked = TRUE] ELSE observers[j]]
        /\ revoker' = [j \in DOMAIN observers |->
               IF observers[j].user = u /\ Live(observers[j]) THEN {g} ELSE revoker[j]]
    BY <1>3 DEF revoke
  <2> HIDE DEF k
  <2>3. ASSUME NEW j \in DOMAIN observers
        PROVE  /\ observers'[j] \in Invitation
               /\ observers'[j].user = observers[j].user /\ observers'[j].invitedBy = observers[j].invitedBy
               /\ observers[j].user = u => ~Live(observers'[j])
               /\ observers[j].user # u => observers'[j] = observers[j]
    BY <1>0, <2>2 DEF Invitation, Live
  <2>4. /\ observers' \in Seq(Invitation) /\ DOMAIN observers' = DOMAIN observers /\ DOMAIN revoker' = DOMAIN observers
        /\ revoker' \in Seq(SUBSET Guardian)
    <3>1. observers' \in [1 .. N -> Invitation]
      BY <1>0, <2>2, <2>3
    <3>2. ASSUME NEW j \in 1 .. N PROVE revoker'[j] \in SUBSET Guardian
      BY <1>0, <2>2
    <3>3. revoker' \in [1 .. N -> SUBSET Guardian]
      BY <1>0, <2>2, <3>2
    <3> QED
      BY <1>0, <2>2, <3>1, <3>3
  <2>5. ASSUME NEW j \in DOMAIN observers PROVE revoker'[j] \subseteq {observers[j].invitedBy}
    <3>1. CASE observers[j].user = u /\ Live(observers[j])
      <4>1. j = k
        BY <2>1, <3>1 DEF ObserverInv
      <4> QED
        BY <2>1, <2>2, <3>1, <4>1
    <3>2. CASE ~(observers[j].user = u /\ Live(observers[j]))
      BY <2>2, <3>2 DEF ObserverInv
    <3> QED
      BY <3>1, <3>2
  <2>6. ASSUME NEW j \in DOMAIN observers, NEW m \in DOMAIN observers, j # m,
               observers[m].user = observers[j].user
        PROVE  ~(Live(observers'[j]) /\ Live(observers'[m]))
    BY <2>3, <2>6 DEF ObserverInv
  <2> QED
    BY <2>3, <2>4, <2>5, <2>6 DEF ObserverInv
<1>4. CASE UNCHANGED observerVars
  BY <1>4 DEF observerVars, ObserverInv
<1> QED
  BY <1>1, <1>2, <1>3, <1>4, Zenon DEF ObserversNext

\* observer.ts, revoke: what is checked follows from the invariant.
LEMMA ObserverInvRevokes == ObserverInv => OnlyTheInviterRevokes
BY DEF ObserverInv, OnlyTheInviterRevokes

-----------------------------------------------------------------------------
(* Api.handle(). *)

\* The steps there are.
HandlerStep == {"grown", "named", "guardian", "either", "child", "herself", "live", "parent", "canRaw", "rowLive",
         "canCertified", "mint", "capture", "body", "gate", "pin", "spend", "read", "write", "find", "try",
         "redeem", "outer", "after"}
Harmless == {"read", "write", "after"}
AsksStanding == {"grown", "named", "guardian", "either", "child", "herself", "live", "parent", "canRaw", "rowLive",
          "canCertified", "mint", "capture"}
Adult == {"expense.view", "expense.create", "expense.resolve", "medication.view", "medication.log",
          "emergency_card.view", "emergency_card.edit", "care_note.view", "care_note.write",
          "calendar.edit"}

\* One of these steps is among them.
Has(steps, some) == \E n \in DOMAIN steps : steps[n] \in some

\* What comes after an effect can only read, write or fail; nobody's standing is asked
\* for after an attempt has been used up.
EffectsLast(steps) ==
  \A n, m \in DOMAIN steps : n < m =>
    /\ steps[n] \in {"write", "try", "redeem"} => steps[m] \in Harmless
    /\ steps[n] \in {"pin", "spend"} => steps[m] \notin AsksStanding

\* routes.mjs: the order of a handler's steps, for each of the routes.
RouteOK(route) ==
  /\ route.steps \in Seq(HandlerStep) /\ EffectsLast(route.steps)
  /\ route.kind = "child" /\ route.action = "none" =>
       /\ Has(route.steps, {"grown", "herself"})
       /\ Has(route.steps, {"live", "rowLive", "canRaw", "canCertified", "herself"})
  /\ route.action \in Adult => Has(route.steps, {"grown"})
  /\ route.action = "letter" => Has(route.steps, {"child"})
  /\ route.swept \/ route = PostHandover

LEMMA EveryRouteIsOK == \A route \in Endpoints : RouteOK(route)
<1> USE DEF RouteOK, EffectsLast, Has, HandlerStep, Harmless, AsksStanding, Adult, Declared, For, Scoped, Mine, Unsigned
<1>1. RouteOK(GetMe)
  BY DEF GetMe
<1>2. RouteOK(DeleteMe)
  BY DEF DeleteMe
<1>3. RouteOK(PostInvite)
  BY DEF PostInvite
<1>4. RouteOK(GetInvite)
  BY DEF GetInvite
<1>5. RouteOK(AcceptInvite)
  BY DEF AcceptInvite
<1>6. RouteOK(RevokeInvite)
  BY DEF RevokeInvite
<1>7. RouteOK(BootstrapInvite)
  BY DEF BootstrapInvite
<1>8. RouteOK(PostChildCode)
  BY DEF PostChildCode
<1>9. RouteOK(PostMyCode)
  BY DEF PostMyCode
<1>10. RouteOK(CancelCode)
  BY DEF CancelCode
<1>11. RouteOK(RedeemCode)
  BY DEF RedeemCode
<1>12. RouteOK(GetDevices)
  BY DEF GetDevices
<1>13. RouteOK(RevokeDevice)
  BY DEF RevokeDevice
<1>14. RouteOK(VerifyControls)
  BY DEF VerifyControls
<1>15. RouteOK(GetOverrides)
  BY DEF GetOverrides
<1>16. RouteOK(PutOverride)
  BY DEF PutOverride
<1>17. RouteOK(DeleteOverride)
  BY DEF DeleteOverride
<1>18. RouteOK(GetTheme)
  BY DEF GetTheme
<1>19. RouteOK(PutTheme)
  BY DEF PutTheme
<1>20. RouteOK(GetFavorites)
  BY DEF GetFavorites
<1>21. RouteOK(PutFavorites)
  BY DEF PutFavorites
<1>22. RouteOK(PutProfile)
  BY DEF PutProfile
<1>23. RouteOK(PutAvailability)
  BY DEF PutAvailability
<1>24. RouteOK(PostCall)
  BY DEF PostCall
<1>25. RouteOK(EndCall)
  BY DEF EndCall
<1>26. RouteOK(JoinCall)
  BY DEF JoinCall
<1>27. RouteOK(PostToken)
  BY DEF PostToken
<1>28. RouteOK(DeleteToken)
  BY DEF DeleteToken
<1>29. RouteOK(GetNow)
  BY DEF GetNow
<1>30. RouteOK(GetCustody)
  BY DEF GetCustody
<1>31. RouteOK(GetPresence)
  BY DEF GetPresence
<1>32. RouteOK(GetRibbon)
  BY DEF GetRibbon
<1>33. RouteOK(GetAvailability)
  BY DEF GetAvailability
<1>34. RouteOK(GetInbox)
  BY DEF GetInbox
<1>35. RouteOK(PostOpened)
  BY DEF PostOpened
<1>36. RouteOK(PostMessage)
  BY DEF PostMessage
<1>37. RouteOK(PostMedia)
  BY DEF PostMedia
<1>38. RouteOK(GetMedia)
  BY DEF GetMedia
<1>39. RouteOK(GetNotes)
  BY DEF GetNotes
<1>40. RouteOK(PostNote)
  BY DEF PostNote
<1>41. RouteOK(PostKioskPin)
  BY DEF PostKioskPin
<1>42. RouteOK(PostPin)
  BY DEF PostPin
<1>43. RouteOK(PostChallenge)
  BY DEF PostChallenge
<1>44. RouteOK(PostPasskey)
  BY DEF PostPasskey
<1>45. RouteOK(PostHomework)
  BY DEF PostHomework
<1>46. RouteOK(GetExport)
  BY DEF GetExport
<1>47. RouteOK(GetCertified)
  BY DEF GetCertified
<1>48. RouteOK(PostHandover)
  BY DEF PostHandover
<1>49. RouteOK(GetExpenses)
  BY DEF GetExpenses
<1>50. RouteOK(PostExpense)
  BY DEF PostExpense
<1>51. RouteOK(ResolveExpense)
  BY DEF ResolveExpense
<1>52. RouteOK(GetMedications)
  BY DEF GetMedications
<1>53. RouteOK(PostDose)
  BY DEF PostDose
<1>54. RouteOK(GetCard)
  BY DEF GetCard
<1>55. RouteOK(PutCard)
  BY DEF PutCard
<1>56. RouteOK(GetBag)
  BY DEF GetBag
<1>57. RouteOK(PostBag)
  BY DEF PostBag
<1>58. RouteOK(GetLate)
  BY DEF GetLate
<1>59. RouteOK(PostLate)
  BY DEF PostLate
<1>60. RouteOK(GetArrival)
  BY DEF GetArrival
<1>61. RouteOK(PostArrival)
  BY DEF PostArrival
<1>62. RouteOK(GetCareNotes)
  BY DEF GetCareNotes
<1>63. RouteOK(PostCareNote)
  BY DEF PostCareNote
<1>64. RouteOK(GetLetters)
  BY DEF GetLetters
<1>65. RouteOK(PostLetter)
  BY DEF PostLetter
<1>66. RouteOK(OpenLetter)
  BY DEF OpenLetter
<1>67. RouteOK(DeleteLetter)
  BY DEF DeleteLetter
<1>68. RouteOK(PostTable)
  BY DEF PostTable
<1>69. RouteOK(JoinTable)
  BY DEF JoinTable
<1> HIDE DEF RouteOK
<1> QED
  BY <1>1, <1>2, <1>3, <1>4, <1>5, <1>6, <1>7, <1>8, <1>9, <1>10, <1>11, <1>12, <1>13, <1>14,
     <1>15, <1>16, <1>17, <1>18, <1>19, <1>20, <1>21, <1>22, <1>23, <1>24, <1>25, <1>26, <1>27,
     <1>28, <1>29, <1>30, <1>31, <1>32, <1>33, <1>34, <1>35, <1>36, <1>37, <1>38, <1>39, <1>40,
     <1>41, <1>42, <1>43, <1>44, <1>45, <1>46, <1>47, <1>48, <1>49, <1>50, <1>51, <1>52, <1>53,
     <1>54, <1>55, <1>56, <1>57, <1>58, <1>59, <1>60, <1>61, <1>62, <1>63, <1>64, <1>65, <1>66,
     <1>67, <1>68, <1>69, Zenon DEF Endpoints

-----------------------------------------------------------------------------
(* What is left of a handler's steps. *)

LEMMA TailOfSteps ==
  ASSUME NEW s \in Seq(HandlerStep), s # <<>>
  PROVE  /\ Head(s) \in HandlerStep /\ Tail(s) \in Seq(HandlerStep)
         /\ EffectsLast(s) => EffectsLast(Tail(s))
         /\ EffectsLast(s) /\ Head(s) \in {"write", "try", "redeem"} =>
              \A n \in DOMAIN Tail(s) : Tail(s)[n] \in Harmless
         /\ EffectsLast(s) /\ Head(s) \in {"pin", "spend"} =>
              \A n \in DOMAIN Tail(s) : Tail(s)[n] \notin AsksStanding
         /\ (\A n \in DOMAIN s : s[n] \notin AsksStanding) =>
              Head(s) \notin AsksStanding /\ \A n \in DOMAIN Tail(s) : Tail(s)[n] \notin AsksStanding
         /\ (\A n \in DOMAIN s : s[n] \in Harmless) =>
              Head(s) \in Harmless /\ \A n \in DOMAIN Tail(s) : Tail(s)[n] \in Harmless
         /\ \A some : Has(s, some) /\ Head(s) \notin some => Has(Tail(s), some)
<1>1. /\ Len(s) \in Nat /\ Len(s) > 0 /\ DOMAIN s = 1 .. Len(s) /\ Head(s) = s[1]
      /\ DOMAIN Tail(s) = 1 .. (Len(s) - 1)
      /\ \A n \in 1 .. (Len(s) - 1) : Tail(s)[n] = s[n + 1]
  OBVIOUS
<1>2. Head(s) \in HandlerStep /\ Tail(s) \in Seq(HandlerStep)
  OBVIOUS
<1>3. EffectsLast(s) => EffectsLast(Tail(s))
  BY <1>1 DEF EffectsLast
<1>4. EffectsLast(s) /\ Head(s) \in {"write", "try", "redeem"} =>
        \A n \in DOMAIN Tail(s) : Tail(s)[n] \in Harmless
  BY <1>1 DEF EffectsLast
<1>7. EffectsLast(s) /\ Head(s) \in {"pin", "spend"} =>
        \A n \in DOMAIN Tail(s) : Tail(s)[n] \notin AsksStanding
  BY <1>1 DEF EffectsLast
<1>8. (\A n \in DOMAIN s : s[n] \notin AsksStanding) =>
        Head(s) \notin AsksStanding /\ \A n \in DOMAIN Tail(s) : Tail(s)[n] \notin AsksStanding
  BY <1>1
<1>5. (\A n \in DOMAIN s : s[n] \in Harmless) =>
              Head(s) \in Harmless /\ \A n \in DOMAIN Tail(s) : Tail(s)[n] \in Harmless
  BY <1>1
<1>6. ASSUME NEW some, Has(s, some), Head(s) \notin some PROVE Has(Tail(s), some)
  <2>1. PICK n \in 1 .. Len(s) : s[n] \in some
    BY <1>1, <1>6 DEF Has
  <2>2. n # 1
    BY <1>1, <1>6, <2>1
  <2>3. n - 1 \in DOMAIN Tail(s) /\ Tail(s)[n - 1] = s[n]
    BY <1>1, <2>2
  <2> QED
    BY <2>1, <2>3 DEF Has
<1> QED
  BY <1>2, <1>3, <1>4, <1>5, <1>6, <1>7, <1>8

\* routes.mjs: what those who pass a step have shown.
LEMMA WhoPasses ==
  /\ Passes("grown") => ~IsChild
  /\ Passes("child") => IsChild
  /\ Passes("herself") => IsChild /\ request.who.child = request.child
  /\ Passes("live") => LiveGuardian(LAMBDA e : NotEnded(e) /\ ~e.restricted)
  /\ Passes("rowLive") => LiveGuardian(LAMBDA e : Lapsed(e, today) = "live" /\ ~e.restricted)
  /\ Passes("canRaw") => Allowed("export.raw")
  /\ Passes("canCertified") => Allowed("export.certified")
  /\ \A step \in HandlerStep \ AsksStanding : Passes(step)
<1> HIDE DEF LiveGuardian, Allowed, IsChild
<1>1. \A step \in HandlerStep \ AsksStanding : Passes(step)
  BY DEF Passes, HandlerStep, AsksStanding
<1>2. /\ Passes("grown") => ~IsChild
      /\ Passes("child") => IsChild
      /\ Passes("herself") => IsChild /\ request.who.child = request.child
  BY DEF Passes
<1>3. /\ Passes("live") => LiveGuardian(LAMBDA e : NotEnded(e) /\ ~e.restricted)
      /\ Passes("rowLive") => LiveGuardian(LAMBDA e : Lapsed(e, today) = "live" /\ ~e.restricted)
  BY DEF Passes
<1>4. /\ Passes("canRaw") => Allowed("export.raw")
      /\ Passes("canCertified") => Allowed("export.certified")
  BY DEF Passes
<1> QED
  BY <1>1, <1>2, <1>3, <1>4

\* routes.mjs: the steps that ask for a guardianship find one in force, or her own path.
Guards == IF IsChild THEN {"grown", "herself"} ELSE {"live", "rowLive", "canRaw", "canCertified", "herself"}

LEMMA AllowedIsInForce ==
  ASSUME NEW action, IsChild \in BOOLEAN, Allowed(action) PROVE InForce(request.child)
<1> HIDE DEF IsChild
<1>1. PICK isChild \in BOOLEAN, court \in BOOLEAN : isChild = IsChild /\ court = TRUE
  OBVIOUS
<1>2. can(action, edges, request.child, today, isChild, court) = "allow"
  BY <1>1, Zenon DEF Allowed
<1>4. \E e \in edges : e.child = request.child /\ EdgeSays(e, action, today, court) = "allow"
  BY <1>2, OneEdgeDecides
<1>3. PICK e \in edges : e.child = request.child /\ EdgeSays(e, action, today, court) = "allow"
  BY <1>4
<1> QED
  BY <1>3, AllowsIsLive DEF InForce

LEMMA GuardsProveBelonging ==
  ASSUME IsChild \in BOOLEAN, NEW step \in Guards, Passes(step)
  PROVE  Belongs(request.who, request.child)
<1>1. CASE IsChild
  <2>1. step = "herself"
    BY <1>1, WhoPasses DEF Guards
  <2> QED
    BY <1>1, <2>1, WhoPasses DEF Belongs, IsChild
<1>2. CASE ~IsChild
  <2>1. step # "herself"
    BY <1>2, WhoPasses
  <2>2. InForce(request.child)
    <3>1. CASE step = "live"
      <4>1. PICK e \in edges : e.child = request.child /\ NotEnded(e) /\ ~e.restricted
        BY <3>1, WhoPasses DEF LiveGuardian
      <4>2. ~Past(e.closedAt, today) /\ ~Past(e.expiresAt, today)
        BY <4>1 DEF NotEnded, Past
      <4> QED
        BY <4>1, <4>2 DEF InForce
    <3>2. CASE step = "rowLive"
      <4>1. PICK e \in edges : e.child = request.child /\ Lapsed(e, today) = "live" /\ ~e.restricted
        BY <3>2, WhoPasses DEF LiveGuardian
      <4>2. ~Past(e.closedAt, today) /\ ~Past(e.expiresAt, today)
        BY <4>1 DEF Lapsed
      <4> QED
        BY <4>1, <4>2 DEF InForce
    <3>3. CASE step \in {"canRaw", "canCertified"}
      BY <3>3, WhoPasses, AllowedIsInForce
    <3> QED
      BY <1>2, <2>1, <3>1, <3>2, <3>3 DEF Guards
  <2> QED
    BY <1>2, <2>2 DEF Belongs, IsChild
<1> QED
  BY <1>1, <1>2

-----------------------------------------------------------------------------
(* The invariant behind the order of a request's checks. *)

UnderWay == {"authenticate", "authorize", "body", "handler"}
Request ==
  [at : UnderWay \cup {"answered"}, who : Sessions, child : Children, route : Endpoints, left : Seq(HandlerStep),
   status : {0, 200, 400, 401, 403, 409, 500}, leaks : BOOLEAN]

AccessTyped ==
  /\ revoked \in BOOLEAN /\ today \in 0 .. LastAccessDay /\ effects \subseteq {"own", "outer", "attempt"}
  /\ stood \subseteq {"device", "family"}
  /\ (request = NoRequest /\ effects = {}) \/ request \in Request

\* api.ts: before the handler nothing has been done; from the body on the device was
\* looked at; in the handler, what no check has shown yet a check to come asks for,
\* and after an effect nothing refuses any more.
StillAsks ==
  /\ request.route.kind = "child" => "family" \in stood \/ Has(request.left, Guards)
  /\ IsChild /\ request.route.action \in Adult => Has(request.left, {"grown"})
  /\ ~IsChild /\ request.route.action = "letter" => Has(request.left, {"child"})

RequestOK ==
  /\ request.at \in UnderWay => Standing(request.who, request.child) \subseteq stood
  /\ request.at \in UnderWay \ {"handler"} => effects = {} /\ request.left = request.route.steps
  /\ request.at = "authenticate" => request.route.kind # "open"
  /\ request.at \in UnderWay \ {"authenticate"} => (request.route.kind # "open" => "device" \in stood)
  /\ request.at \in {"body", "handler"} => StillAsks
  /\ request.at = "handler" =>
       /\ EffectsLast(request.left)
       /\ ~(effects \subseteq {"attempt"}) => \A n \in DOMAIN request.left : request.left[n] \in Harmless
       /\ effects # {} => \A n \in DOMAIN request.left : request.left[n] \notin AsksStanding
  /\ Served => request.left = <<>>
  /\ request.at = "answered" => request.status # 0

AccessInv == AccessTyped /\ (request # NoRequest => RequestOK) /\ ServedInOrder

LEMMA IdleIsNoRequest == ASSUME AccessTyped PROVE request # NoRequest <=> request \in Request
BY DEF AccessTyped, Request, NoRequest, UnderWay

LEMMA AccessInvInit == AccessInit => AccessInv
<1> SUFFICES ASSUME AccessInit PROVE AccessInv
  OBVIOUS
<1>1. request.at = "idle" /\ ~Served
  BY DEF AccessInit, NoRequest, Served
<1>2. ServedInOrder
  BY <1>1 DEF ServedInOrder, ServedWithStanding, AdultsOnly, RefusedLeavesOnlyTheAttempt, ServedForAChild
<1>3. AccessTyped
  BY DEF AccessInit, AccessTyped, LastAccessDay
<1> QED
  BY <1>2, <1>3 DEF AccessInv, AccessInit

\* A request that goes on is not one that was answered.
LEMMA UnderWayIsUnserved ==
  ASSUME request.at \in UnderWay PROVE ~Served /\ ServedInOrder
<1>1. request.at # "answered"
  BY DEF UnderWay
<1> QED
  BY <1>1 DEF Served, ServedInOrder, ServedWithStanding, AdultsOnly, RefusedLeavesOnlyTheAttempt, ServedForAChild

LEMMA UnderWayIsUnservedNext ==
  ASSUME request'.at \in UnderWay PROVE ~Served' /\ ServedInOrder'
<1>1. request'.at # "answered"
  BY DEF UnderWay
<1> QED
  BY <1>1 DEF Served, ServedInOrder, ServedWithStanding, AdultsOnly, RefusedLeavesOnlyTheAttempt, ServedForAChild

LEMMA AnsweredRequest ==
  ASSUME request \in Request, NEW code \in {400, 401, 403, 409, 500}, Replies(code)
  PROVE  request'.at = "answered" /\ request'.status = code /\ request' \in Request
<1>1. request' = [request EXCEPT !.at = "answered", !.status = code]
  BY DEF Replies
<1>2. request' = [at |-> "answered", who |-> request.who, child |-> request.child, route |-> request.route,
                  left |-> request.left, status |-> code, leaks |-> request.leaks]
  BY <1>1 DEF Request
<1> QED
  BY <1>2 DEF Request

\* Answering with anything but 200 is safe, if a refusal leaves at most an attempt.
LEMMA AnswerIsSafe ==
  ASSUME AccessInv, request \in Request, NEW code \in {400, 401, 403, 409, 500}, Replies(code),
         effects' \subseteq {"own", "outer", "attempt"},
         code \in {400, 401, 403} => effects' = {}, code = 409 => effects' \subseteq {"attempt"}
  PROVE  AccessInv'
<1>2. request'.at = "answered" /\ request'.status = code /\ request' \in Request
  BY AnsweredRequest
<1>3. ~Served'
  BY <1>2 DEF Served
<1>4. ServedInOrder'
  BY <1>2, <1>3 DEF ServedInOrder, ServedWithStanding, AdultsOnly, RefusedLeavesOnlyTheAttempt, ServedForAChild
<1>5. AccessTyped'
  BY <1>2 DEF Replies, Here, AccessInv, AccessTyped
<1>6. RequestOK'
  BY <1>2, <1>3 DEF RequestOK, UnderWay
<1> QED
  BY <1>4, <1>5, <1>6 DEF AccessInv

\* An answer that comes before any effect, or a failure at any time.
LEMMA PlainAnswerIsSafe ==
  ASSUME AccessInv, request \in Request, NEW code \in {400, 401, 403, 409, 500}, Answer(code),
         code # 500 => effects = {}
  PROVE  AccessInv'
<1>1. Replies(code) /\ effects' = effects /\ effects \subseteq {"own", "outer", "attempt"}
  BY DEF Answer, AccessInv, AccessTyped
<1>2. effects' \subseteq {"own", "outer", "attempt"}
  BY <1>1
<1>3. (code \in {400, 401, 403} => effects' = {}) /\ (code = 409 => effects' \subseteq {"attempt"})
  BY <1>1
<1> QED
  BY <1>1, <1>2, <1>3, AnswerIsSafe, Zenon

\* A request keeps who asks for what, and what is known of her, while nothing else moves.
LEMMA SameRequest ==
  ASSUME request'.who = request.who, request'.child = request.child, request'.route = request.route, Here
  PROVE  /\ IsChild' = IsChild /\ Guards' = Guards
         /\ Standing(request.who, request.child)' = Standing(request.who, request.child)
<1>1. IsChild' = IsChild
  BY DEF IsChild
<1>2. InForce(request.child)' <=> InForce(request.child)
  BY DEF InForce, Here
<1>3. Belongs(request.who, request.child)' <=> Belongs(request.who, request.child)
  BY <1>2 DEF Belongs
<1> HIDE DEF Belongs
<1> QED
  BY <1>1, <1>3 DEF Guards, Standing, Here

\* On to the next stage, with what that stage relies on.
LEMMA GoingOnIsSafe ==
  ASSUME AccessInv, request \in Request, NEW stage \in {"authorize", "body", "handler"}, GoTo(stage),
         request.at \in UnderWay \ {"handler"},
         request.route.kind # "open" => "device" \in stood,
         stage \in {"body", "handler"} => StillAsks,
         stage = "handler" => EffectsLast(request.left)
  PROVE  AccessInv'
<1>1. request' = [at |-> stage, who |-> request.who, child |-> request.child, route |-> request.route,
                  left |-> request.left, status |-> request.status, leaks |-> request.leaks]
  BY DEF GoTo, Request
<1>2. request' \in Request /\ request'.at \in UnderWay
  BY <1>1 DEF Request, UnderWay
<1>3. Here /\ UNCHANGED effects /\ effects = {}
  <2>1. request # NoRequest
    BY IdleIsNoRequest DEF AccessInv
  <2> QED
    BY <2>1 DEF GoTo, AccessInv, RequestOK
<1>4. AccessTyped'
  BY <1>2, <1>3 DEF AccessInv, AccessTyped, Here
<1>5. /\ IsChild' = IsChild /\ Guards' = Guards
      /\ Standing(request.who, request.child)' = Standing(request.who, request.child)
  BY <1>1, <1>3, SameRequest
<1>6. Standing(request.who, request.child) \subseteq stood /\ request.left = request.route.steps
  <2>1. request # NoRequest
    BY IdleIsNoRequest DEF AccessInv
  <2> QED
    BY <2>1 DEF AccessInv, RequestOK
<1>7. stood' = stood
  BY <1>3 DEF Here
<1>8. StillAsks => StillAsks'
  BY <1>1, <1>5, <1>7 DEF StillAsks
<1>9. ~Served' /\ ServedInOrder'
  BY <1>2, UnderWayIsUnservedNext
<1> HIDE DEF Standing, StillAsks, Served
<1>10. RequestOK'
  <2>1. Standing(request.who, request.child)' \subseteq stood'
    BY <1>5, <1>6, <1>7
  <2>2. effects' = {} /\ request'.left = request'.route.steps /\ request'.left = request.left
    BY <1>1, <1>3, <1>6
  <2>3. request'.at = stage /\ request'.route = request.route
    BY <1>1
  <2> QED
    BY <1>7, <1>8, <1>9, <2>1, <2>2, <2>3 DEF RequestOK
<1> QED
  BY <1>4, <1>9, <1>10 DEF AccessInv

\* api.ts: the request arrives.
LEMMA ArriveSafe ==
  ASSUME AccessInv, NEW who \in Sessions, NEW child \in Children, NEW route \in Endpoints,
         Arrive(who, child, route)
  PROVE  AccessInv'
<1> DEFINE first == IF route.kind = "open" THEN "body" ELSE "authenticate"
<1>1. request' = [at |-> first, who |-> who, child |-> child, route |-> route, left |-> route.steps,
                  status |-> 0, leaks |-> FALSE]
  BY DEF Arrive
<1>2. RouteOK(route)
  BY EveryRouteIsOK
<1>3. first \in UnderWay /\ first # "handler" /\ first # "authorize"
  BY DEF UnderWay
<1>4. request' \in Request
  BY <1>1, <1>2, <1>3 DEF Request, RouteOK
<1>5. request = NoRequest /\ effects' = {} /\ revoked' = revoked /\ today' = today /\ edges' = edges
  <2>1. request.at # "answered" /\ request.at \notin UnderWay
    BY DEF Arrive, NoRequest, UnderWay
  <2> QED
    BY <2>1 DEF Arrive, AccessInv, AccessTyped, Request
<1>6. stood' = Standing(who, child)
  BY DEF Arrive
<1>7. Standing(request.who, request.child)' = Standing(who, child)
  <2>1. request'.who = who /\ request'.child = child
    BY <1>1
  <2> QED
    BY <1>5, <2>1 DEF Standing, Belongs, InForce
<1>8. stood' \subseteq {"device", "family"}
  BY <1>6 DEF Standing
<1>9. AccessTyped'
  BY <1>4, <1>5, <1>8 DEF AccessInv, AccessTyped
<1>10. request'.at \in UnderWay /\ request'.at = first
  BY <1>1, <1>3
<1>11. ~Served' /\ ServedInOrder'
  BY <1>10, UnderWayIsUnservedNext
<1>12. first = "body" => StillAsks'
  <2> SUFFICES ASSUME first = "body" PROVE StillAsks'
    OBVIOUS
  <2>1. route.kind = "open"
    BY DEF UnderWay
  <2>2. request'.route = route /\ request'.left = route.steps
    BY <1>1
  <2> QED
    BY <1>2, <2>1, <2>2 DEF StillAsks, RouteOK
<1> HIDE DEF Standing, StillAsks, Served
<1>13. RequestOK'
  <2>1. request'.route = route /\ request'.left = route.steps
    BY <1>1
  <2>2. first = "authenticate" => route.kind # "open"
    OBVIOUS
  <2>3. first = "body" => route.kind = "open"
    OBVIOUS
  <2> HIDE DEF first
  <2> QED
    BY <1>3, <1>5, <1>6, <1>7, <1>10, <1>11, <1>12, <2>1, <2>2, <2>3 DEF RequestOK, UnderWay
<1> QED
  BY <1>9, <1>11, <1>13 DEF AccessInv

\* api.ts: the token and the device.
LEMMA AuthenticateSafe == ASSUME AccessInv, Authenticate PROVE AccessInv'
<1>1. request \in Request /\ request # NoRequest /\ request.at = "authenticate"
  <2>1. request # NoRequest
    BY DEF Authenticate, NoRequest
  <2> QED
    BY <2>1, IdleIsNoRequest DEF AccessInv, Authenticate
<1>2. effects = {} /\ Standing(request.who, request.child) \subseteq stood
  BY <1>1 DEF AccessInv, RequestOK, UnderWay
<1>3. CASE Answer(401)
  BY <1>1, <1>2, <1>3, PlainAnswerIsSafe
<1>4. CASE ~(request.who.device /\ revoked) /\ GoTo("authorize")
  <2>1. "device" \in stood
    BY <1>2, <1>4 DEF Standing
  <2> QED
    BY <1>1, <1>4, <2>1, GoingOnIsSafe DEF UnderWay
<1> QED
  BY <1>3, <1>4 DEF Authenticate

\* What is known of a request under way.
LEMMA RequestKnown ==
  ASSUME AccessInv, request.at \in UnderWay
  PROVE  request \in Request /\ request # NoRequest /\ RequestOK /\ RouteOK(request.route)
<1>1. request # NoRequest
  BY DEF NoRequest, UnderWay
<1>2. request \in Request /\ RequestOK
  BY <1>1, IdleIsNoRequest DEF AccessInv
<1>3. RouteOK(request.route)
  BY <1>2, EveryRouteIsOK DEF Request
<1> QED
  BY <1>1, <1>2, <1>3

\* api.ts: the declared action, or none.
LEMMA AuthorizeSafe == ASSUME AccessInv, Authorize PROVE AccessInv'
<1>1. request.at = "authorize" /\ request.at \in UnderWay
  BY DEF Authorize, UnderWay
<1>2. request \in Request /\ request # NoRequest /\ RequestOK /\ RouteOK(request.route)
  BY <1>1, RequestKnown
<1>3. /\ effects = {} /\ Standing(request.who, request.child) \subseteq stood
      /\ request.left = request.route.steps
      /\ request.route.kind # "open" => "device" \in stood
  BY <1>1, <1>2 DEF RequestOK, UnderWay
<1>4. CASE Answer(403)
  BY <1>2, <1>3, <1>4, PlainAnswerIsSafe
<1>5. CASE GoTo("body") /\ (request.route.action = "none" \/ Authorized)
  <2>1. IsChild \in BOOLEAN
    BY DEF IsChild
  <2>2. Authorized => Belongs(request.who, request.child)
    <3>1. CASE IsChild
      BY <3>1 DEF Authorized, Belongs, IsChild
    <3>2. CASE ~IsChild
      BY <2>1, <3>2, AllowedIsInForce DEF Authorized, Belongs, IsChild
    <3> QED
      BY <3>1, <3>2
  <2>3. Belongs(request.who, request.child) => "family" \in stood
    BY <1>3 DEF Standing
  <2>4. request.route.kind = "child" => "family" \in stood \/ Has(request.left, Guards)
    BY <1>2, <1>3, <1>5, <2>2, <2>3 DEF RouteOK, Guards
  <2>5. StillAsks
    BY <1>2, <1>3, <2>4 DEF StillAsks, RouteOK
  <2> QED
    BY <1>1, <1>2, <1>3, <1>5, <2>5, GoingOnIsSafe
<1> QED
  BY <1>4, <1>5 DEF Authorize

\* api.ts: the body of the request.
LEMMA ParseBodySafe == ASSUME AccessInv, ParseBody PROVE AccessInv'
<1>1. request.at = "body" /\ request.at \in UnderWay
  BY DEF ParseBody, UnderWay
<1>2. request \in Request /\ request # NoRequest /\ RequestOK /\ RouteOK(request.route)
  BY <1>1, RequestKnown
<1>3. /\ effects = {} /\ request.left = request.route.steps /\ StillAsks
      /\ request.route.kind # "open" => "device" \in stood
  BY <1>1, <1>2 DEF RequestOK, UnderWay
<1>4. CASE Answer(400)
  BY <1>2, <1>3, <1>4, PlainAnswerIsSafe
<1>5. CASE GoTo("handler")
  <2>1. EffectsLast(request.left)
    BY <1>2, <1>3 DEF RouteOK
  <2> QED
    BY <1>1, <1>2, <1>3, <1>5, <2>1, GoingOnIsSafe
<1> QED
  BY <1>4, <1>5 DEF ParseBody

\* routes.mjs: a handler turns nobody away for want of standing after an effect, and
\* refuses nothing after it has done what it was asked.
LEMMA RefusesBeforeEffects ==
  ASSUME AccessInv, InHandler
  PROVE  /\ ~Passes(NextStep) => effects = {}
         /\ NextStep \in MayRefuse => effects \subseteq {"attempt"}
<1>1. request.at = "handler" /\ request.left # <<>> /\ request.at \in UnderWay
  BY DEF InHandler, UnderWay
<1>2. request \in Request /\ RequestOK
  BY <1>1, RequestKnown
<1>3. request.left \in Seq(HandlerStep)
  BY <1>2 DEF Request
<1>4. ~(effects \subseteq {"attempt"}) => NextStep \in Harmless
  BY <1>1, <1>2, <1>3, TailOfSteps DEF RequestOK, NextStep
<1>5. effects # {} => NextStep \in HandlerStep \ AsksStanding
  BY <1>1, <1>2, <1>3, TailOfSteps DEF RequestOK, NextStep
<1>6. NextStep \in Harmless => NextStep \notin MayRefuse
  BY DEF Harmless, MayRefuse
<1> QED
  BY <1>4, <1>5, <1>6, WhoPasses

\* routes.mjs: a step taken leaves what it did and what it showed.
LEMMA TakesStepSafe == ASSUME AccessInv, TakesStep PROVE AccessInv'
<1>1. request.at = "handler" /\ request.left # <<>> /\ request.at \in UnderWay /\ Passes(NextStep)
  BY DEF TakesStep, InHandler, UnderWay
<1>2. request \in Request /\ request # NoRequest /\ RequestOK
  BY <1>1, RequestKnown
<1>3. /\ Standing(request.who, request.child) \subseteq stood /\ StillAsks
      /\ request.route.kind # "open" => "device" \in stood
      /\ EffectsLast(request.left)
      /\ ~(effects \subseteq {"attempt"}) => \A n \in DOMAIN request.left : request.left[n] \in Harmless
      /\ effects # {} => \A n \in DOMAIN request.left : request.left[n] \notin AsksStanding
  BY <1>1, <1>2 DEF RequestOK, UnderWay
<1>4. request.left \in Seq(HandlerStep) /\ request.leaks \in BOOLEAN
  BY <1>2 DEF Request
<1>5. PICK leaks \in BOOLEAN : request' = [StepDone EXCEPT !.leaks = leaks \/ @]
  BY <1>4, Zenon DEF TakesStep
<1>6. request' = [at |-> "handler", who |-> request.who, child |-> request.child, route |-> request.route,
                  left |-> Tail(request.left), status |-> request.status, leaks |-> (leaks \/ request.leaks)]
  BY <1>1, <1>2, <1>5 DEF StepDone, Request
<1>7. request' \in Request /\ request'.at \in UnderWay /\ request'.at = "handler"
  BY <1>2, <1>4, <1>6, TailOfSteps, <1>1 DEF Request, UnderWay
<1>8. Here /\ effects' = StepLeaves(NextStep)
  BY DEF TakesStep
<1>9. AccessTyped'
  BY <1>7, <1>8 DEF AccessInv, AccessTyped, Here, StepLeaves
<1>10. /\ IsChild' = IsChild /\ Guards' = Guards
       /\ Standing(request.who, request.child)' = Standing(request.who, request.child)
  BY <1>6, <1>8, SameRequest
<1>11. stood' = stood /\ request'.route = request.route /\ request'.left = Tail(request.left)
  BY <1>6, <1>8 DEF Here
<1>12. IsChild \in BOOLEAN
  BY DEF IsChild
<1>13. StillAsks'
  <2>1. request.route.kind = "child" => "family" \in stood \/ Has(Tail(request.left), Guards)
    <3>1. CASE NextStep \in Guards
      <4>1. Belongs(request.who, request.child)
        BY <1>1, <1>12, <3>1, GuardsProveBelonging
      <4> QED
        BY <1>3, <4>1 DEF Standing
    <3>2. CASE NextStep \notin Guards
      BY <1>1, <1>3, <1>4, <3>2, TailOfSteps DEF StillAsks, NextStep
    <3> QED
      BY <3>1, <3>2
  <2>2. IsChild /\ request.route.action \in Adult => Has(Tail(request.left), {"grown"})
    <3>1. IsChild => NextStep # "grown"
      BY <1>1, WhoPasses
    <3> QED
      BY <1>1, <1>3, <1>4, <3>1, TailOfSteps DEF StillAsks, NextStep
  <2>3. ~IsChild /\ request.route.action = "letter" => Has(Tail(request.left), {"child"})
    <3>1. ~IsChild => NextStep # "child"
      BY <1>1, WhoPasses
    <3> QED
      BY <1>1, <1>3, <1>4, <3>1, TailOfSteps DEF StillAsks, NextStep
  <2> QED
    BY <1>10, <1>11, <2>1, <2>2, <2>3 DEF StillAsks
<1>14. EffectsLast(request'.left)
  BY <1>1, <1>3, <1>4, <1>11, TailOfSteps
<1>15. /\ ~(effects' \subseteq {"attempt"}) => \A n \in DOMAIN request'.left : request'.left[n] \in Harmless
       /\ effects' # {} => \A n \in DOMAIN request'.left : request'.left[n] \notin AsksStanding
  <2> DEFINE rest == Tail(request.left)
             Can(some) == \A n \in DOMAIN rest : rest[n] \in some
             Asks == \E n \in DOMAIN rest : rest[n] \in AsksStanding
  <2>1. ~(effects \subseteq {"attempt"}) => Can(Harmless)
    BY <1>1, <1>3, <1>4, TailOfSteps
  <2>2. effects # {} => ~Asks
    BY <1>1, <1>3, <1>4, TailOfSteps
  <2>3. NextStep \in {"write", "try", "redeem"} => Can(Harmless)
    BY <1>1, <1>3, <1>4, TailOfSteps DEF NextStep
  <2>4. NextStep \in {"pin", "spend"} => ~Asks
    BY <1>1, <1>3, <1>4, TailOfSteps DEF NextStep
  <2>5. Can(Harmless) => ~Asks
    BY DEF Harmless, AsksStanding
  <2> HIDE DEF Can, Asks
  <2>6. ~(effects' \subseteq {"attempt"}) => Can(Harmless)
    BY <1>8, <2>1, <2>3 DEF StepLeaves
  <2>7. effects' # {} => ~Asks
    BY <1>8, <2>2, <2>3, <2>4, <2>5 DEF StepLeaves
  <2> QED
    BY <1>11, <2>6, <2>7 DEF Can, Asks
<1>16. ~Served' /\ ServedInOrder'
  BY <1>7, UnderWayIsUnservedNext
<1> HIDE DEF Standing, StillAsks, Served
<1>17. RequestOK'
  <2>1. Standing(request.who, request.child)' \subseteq stood'
    BY <1>3, <1>10, <1>11
  <2> QED
    BY <1>3, <1>7, <1>11, <1>13, <1>14, <1>15, <1>16, <2>1 DEF RequestOK
<1> QED
  BY <1>9, <1>16, <1>17 DEF AccessInv

\* routes.mjs: the answers a handler gives by itself.
LEMMA HandlerAnswersSafely == ASSUME AccessInv, TurnedAway \/ Refuses \/ Throws PROVE AccessInv'
<1>1. InHandler /\ request.at \in UnderWay
  BY DEF TurnedAway, Refuses, Throws, InHandler, UnderWay
<1>2. request \in Request
  BY <1>1, RequestKnown
<1>3. CASE TurnedAway
  BY <1>1, <1>2, <1>3, RefusesBeforeEffects, PlainAnswerIsSafe DEF TurnedAway
<1>4. CASE Refuses
  <2>1. effects \subseteq {"attempt"} /\ Replies(409) /\ effects' \in RefusalLeaves(NextStep)
    BY <1>1, <1>4, RefusesBeforeEffects DEF Refuses
  <2>2. effects' \subseteq {"attempt"}
    BY <2>1 DEF RefusalLeaves
  <2> QED
    BY <1>2, <2>1, <2>2, AnswerIsSafe
<1>5. CASE Throws
  BY <1>2, <1>5, PlainAnswerIsSafe DEF Throws
<1> QED
  BY <1>3, <1>4, <1>5

\* api.ts: who is through with every step has shown what the route asks for.
LEMMA FinishSafe == ASSUME AccessInv, Finish PROVE AccessInv'
<1>1. request.at = "handler" /\ request.left = <<>> /\ request.at \in UnderWay
  BY DEF Finish, UnderWay
<1>2. request \in Request /\ request # NoRequest /\ RequestOK /\ RouteOK(request.route)
  BY <1>1, RequestKnown
<1>3. StillAsks /\ (request.route.kind # "open" => "device" \in stood)
  BY <1>1, <1>2 DEF RequestOK, UnderWay
<1>4. \A some : ~Has(request.left, some)
  BY <1>1 DEF Has
<1>5. /\ request.route.kind = "child" => "family" \in stood
      /\ ~(IsChild /\ request.route.action \in Adult)
      /\ request.route.action = "letter" => IsChild
  BY <1>3, <1>4 DEF StillAsks
<1>6. PICK code \in {200, 500} : code = IF Sweeps /\ request.leaks THEN 500 ELSE 200
  OBVIOUS
<1>7. request' = [at |-> "answered", who |-> request.who, child |-> request.child, route |-> request.route,
                  left |-> request.left, status |-> code, leaks |-> request.leaks]
  <2>1. request' = [request EXCEPT !.at = "answered", !.status = code]
    BY <1>6, Zenon DEF Finish
  <2> QED
    BY <1>2, <2>1 DEF Request
<1>8. /\ request' \in Request /\ request'.at = "answered" /\ request'.status = code
      /\ request'.left = <<>> /\ request'.route = request.route /\ request'.leaks = request.leaks
  <2>1. request' \in Request
    BY <1>2, <1>7 DEF Request
  <2> QED
    BY <1>1, <1>7, <2>1
<1>9. Here /\ effects' \subseteq {"own", "outer", "attempt"}
  BY DEF Finish, AccessInv, AccessTyped
<1>10. AccessTyped'
  BY <1>8, <1>9 DEF AccessInv, AccessTyped, Here
<1>11. RequestOK'
  BY <1>8 DEF RequestOK, UnderWay, Served
<1>12. stood' = stood /\ (IsChild' <=> IsChild)
  BY <1>7, <1>9 DEF Here, IsChild
<1>13. ServedWithStanding'
  BY <1>3, <1>5, <1>8, <1>12 DEF ServedWithStanding, ServedForAChild, Served
<1>14. Served' /\ IsChild /\ request.leaks /\ request.route.kind # "open" => request.route = PostHandover
  <2>1. Served' => code = 200
    BY <1>8 DEF Served
  <2>2. code = 200 => ~(Sweeps /\ request.leaks)
    BY <1>6
  <2> QED
    BY <1>2, <2>1, <2>2 DEF Sweeps, RouteOK
<1>15. AdultsOnly'
  BY <1>5, <1>8, <1>12, <1>14 DEF AdultsOnly, ServedForAChild, Adult
<1>16. RefusedLeavesOnlyTheAttempt'
  BY <1>8 DEF RefusedLeavesOnlyTheAttempt
<1> QED
  BY <1>10, <1>11, <1>13, <1>15, <1>16 DEF AccessInv, ServedInOrder

\* api.ts, routes.mjs: what happens to her family while a request waits.
LEMMA MeanwhileSafe ==
  ASSUME AccessInv, EdgeCloses \/ EdgeRestricted \/ DeviceRevoked \/ DayPasses
  PROVE  AccessInv'
<1>1. /\ request # NoRequest /\ request.at # "answered" /\ UNCHANGED <<request, effects>>
      /\ stood' = stood \cup Standing(request.who, request.child)'
  BY Zenon DEF EdgeCloses, EdgeRestricted, DeviceRevoked, DayPasses, Meanwhile
<1>2. revoked' \in BOOLEAN
  BY DEF EdgeCloses, EdgeRestricted, DeviceRevoked, DayPasses, AccessInv, AccessTyped
<1>3. today' \in 0 .. LastAccessDay
  <2>1. today' = today \/ (today < LastAccessDay /\ today' = today + 1)
    <3>1. CASE EdgeCloses
      <4>1. PICK e \in edges : UNCHANGED <<revoked, today>>
        BY <3>1, Zenon DEF EdgeCloses
      <4> QED
        BY <4>1
    <3>2. CASE EdgeRestricted
      <4>1. PICK e \in edges : UNCHANGED <<revoked, today>>
        BY <3>2, Zenon DEF EdgeRestricted
      <4> QED
        BY <4>1
    <3>3. CASE DeviceRevoked
      <4>1. UNCHANGED <<edges, today>>
        BY <3>3, Zenon DEF DeviceRevoked
      <4> QED
        BY <4>1
    <3>4. CASE DayPasses
      BY <3>4 DEF DayPasses
    <3> QED
      BY <3>1, <3>2, <3>3, <3>4
  <2> QED
    BY <2>1 DEF AccessInv, AccessTyped, LastAccessDay
<1>4. request \in Request /\ request.at \in UnderWay /\ RequestOK
  <2>1. request \in Request /\ RequestOK
    BY <1>1, IdleIsNoRequest DEF AccessInv
  <2> QED
    BY <1>1, <2>1 DEF Request
<1>5. Standing(request.who, request.child)' \subseteq {"device", "family"}
  BY DEF Standing
<1>6. AccessTyped'
  BY <1>1, <1>2, <1>3, <1>4, <1>5 DEF AccessInv, AccessTyped
<1>7. request' = request /\ effects' = effects /\ stood \subseteq stood'
  BY <1>1
<1>8. (IsChild' <=> IsChild) /\ Guards' = Guards
  BY <1>7 DEF IsChild, Guards
<1>9. StillAsks => StillAsks'
  BY <1>7, <1>8 DEF StillAsks
<1>10. ~Served' /\ ServedInOrder'
  BY <1>4, <1>7, UnderWayIsUnservedNext
<1> HIDE DEF Standing, StillAsks, Served
<1>11. RequestOK'
  BY <1>1, <1>4, <1>7, <1>9, <1>10 DEF RequestOK, UnderWay
<1> QED
  BY <1>6, <1>10, <1>11 DEF AccessInv

LEMMA AccessInvNext == ASSUME AccessInv, AccessNext \/ UNCHANGED accessVars PROVE AccessInv'
<1>1. CASE AccessNext
  BY <1>1, ArriveSafe, AuthenticateSafe, AuthorizeSafe, ParseBodySafe, HandlerAnswersSafely,
     TakesStepSafe, FinishSafe, MeanwhileSafe DEF AccessNext, Handler
<1>2. CASE UNCHANGED accessVars
  <2>1. /\ edges' = edges /\ revoked' = revoked /\ today' = today /\ request' = request
        /\ effects' = effects /\ stood' = stood
    BY <1>2 DEF accessVars
  <2>2. AccessTyped'
    BY <2>1 DEF AccessInv, AccessTyped
  <2>3. /\ (IsChild' <=> IsChild) /\ Guards' = Guards /\ (Served' <=> Served)
        /\ Standing(request.who, request.child)' = Standing(request.who, request.child)
    BY <2>1 DEF IsChild, Guards, Served, Standing, Belongs, InForce
  <2>4. ServedInOrder'
    BY <2>1, <2>3 DEF AccessInv, ServedInOrder, ServedWithStanding, AdultsOnly, RefusedLeavesOnlyTheAttempt,
                      ServedForAChild
  <2>5. StillAsks' <=> StillAsks
    BY <2>1, <2>3 DEF StillAsks
  <2> HIDE DEF Standing, StillAsks, Served
  <2>6. request # NoRequest => RequestOK'
    BY <2>1, <2>3, <2>5 DEF AccessInv, RequestOK
  <2> QED
    BY <2>1, <2>2, <2>4, <2>6 DEF AccessInv
<1> QED
  BY <1>1, <1>2

\* What a run checks of the requests follows.
LEMMA AccessInvTypes == ASSUME AccessInv PROVE AccessTypeOK
<1>1. CASE request = NoRequest
  BY <1>1 DEF AccessInv, AccessTyped, AccessTypeOK, NoRequest, Served
<1>2. CASE request # NoRequest
  <2>1. request \in Request /\ RequestOK
    BY <1>2, IdleIsNoRequest DEF AccessInv
  <2>2. request.at = "answered" => request.status \in {0, 200, 400, 401, 403, 409, 500}
    BY <2>1 DEF Request
  <2> QED
    BY <2>1, <2>2 DEF AccessInv, AccessTyped, AccessTypeOK, Request, UnderWay, RequestOK
<1> QED
  BY <1>1, <1>2

-----------------------------------------------------------------------------
(* The offline outbox. *)

RecordedIds == {made[k] : k \in DOMAIN made}

OutboxTyped ==
  /\ outbox \subseteq OutboxItem /\ {attempt, timer} \subseteq OutboxItem \cup {NoItem}
  /\ button \in {"idle", "busy", "sent", "error", "retrying"} /\ mounted \in BOOLEAN /\ online \in BOOLEAN
  /\ made \in Seq(Recording)
  /\ stored \in [Recording -> Nat] /\ unheard \in [Recording -> Nat]
  /\ arrived \subseteq Recording /\ refused \subseteq Recording /\ toldSafe \subseteq Recording

\* receipt_screen.dart: what is queued or on its way was recorded, a recording is
\* queued once, and the outbox goes with the screen.
QueueIsHers ==
  /\ \A x, j \in outbox : x.id = j.id => x = j
  /\ \A x \in outbox : x.id \in RecordedIds
  /\ attempt # NoItem => attempt.id \in RecordedIds /\ attempt.attempts < MAX_ATTEMPTS /\ button = "busy"
  /\ ~mounted => outbox = {}

\* _retryTimer: armed only while nothing is sent, with the item that is next.
TimerIsNext ==
  /\ timer # NoItem => /\ mounted /\ button = "retrying"
                       /\ timer \in outbox /\ timer.attempts < MAX_ATTEMPTS
  /\ button = "retrying" /\ mounted => timer = nextToSend(outbox) /\ outbox # {}

\* An item without a storage key has no upload of its own that was heard of.
UploadsHeard ==
  /\ \A r \in Recording \ RecordedIds : stored[r] = 0
  /\ \A x \in outbox : ~x.keyed /\ x.id # attempt.id => stored[x.id] <= unheard[x.id]
  /\ attempt # NoItem /\ ~attempt.keyed => stored[attempt.id] <= unheard[attempt.id]

\* What was refused is neither queued nor under way.
RefusedIsGone ==
  /\ refused \subseteq RecordedIds /\ attempt.id \notin refused
  /\ \A x \in outbox : x.id \notin refused

OutboxInv ==
  /\ OutboxTyped /\ QueueIsHers /\ TimerIsNext /\ UploadsHeard /\ RefusedIsGone
  /\ NeverDiscarded /\ StoredOnceHeard

HIDE KioskAssumption
USE OutboxAssumption

LEMMA NoItemIsNone == NoItem \notin OutboxItem /\ NoItem.id = NoRecording /\ NoItem.id \notin Recording
BY DEF NoItem, OutboxItem

LEMMA RequeuedIs ==
  ASSUME NEW item \in OutboxItem, outbox \subseteq OutboxItem
  PROVE  Requeued(item) = sent(outbox, item) \cup {[item EXCEPT !.attempts = @ + 1]}
BY DEF Requeued, recordFailure, enqueue, sent

\* offline.ts, nextToSend: among items that were recorded there is an oldest.
LEMMA NextIsEligible ==
  ASSUME made \in Seq(Recording), NEW box \in SUBSET OutboxItem, \A x \in box : x.id \in RecordedIds,
         nextToSend(box) # NoItem
  PROVE  nextToSend(box) \in box /\ nextToSend(box).attempts < MAX_ATTEMPTS
<1> DEFINE eligible == {x \in box : x.attempts < MAX_ATTEMPTS}
           ages == {Age(x) : x \in eligible}
<1>1. eligible # {} /\ nextToSend(box) = CHOOSE x \in eligible : \A j \in eligible : Age(x) <= Age(j)
  BY DEF nextToSend
<1>2. ASSUME NEW x \in eligible PROVE Age(x) \in Nat
  <2>1. \E k \in DOMAIN made : made[k] = x.id
    BY DEF RecordedIds
  <2>2. Age(x) \in DOMAIN made
    BY <2>1 DEF Age
  <2> QED
    BY <2>2
<1>3. ages \in SUBSET Nat /\ ages # {}
  BY <1>1, <1>2
<1>4. PICK a \in ages : \A b \in ages : a <= b
  <2> HIDE DEF ages
  <2> QED
    BY <1>3, LeastNat
<1>5. \E x \in eligible : \A j \in eligible : Age(x) <= Age(j)
  BY <1>4
<1>6. nextToSend(box) \in eligible
  BY <1>1, <1>5
<1> QED
  BY <1>6

LEMMA OutboxInvInit == OutboxInit => OutboxInv
<1> SUFFICES ASSUME OutboxInit PROVE OutboxInv
  OBVIOUS
<1>1. OutboxTyped
  BY DEF OutboxInit, OutboxTyped
<1>2. QueueIsHers
  BY DEF OutboxInit, QueueIsHers
<1>3. TimerIsNext
  BY DEF OutboxInit, TimerIsNext
<1>4. UploadsHeard /\ StoredOnceHeard
  BY DEF OutboxInit, UploadsHeard, StoredOnceHeard
<1>5. RefusedIsGone /\ NeverDiscarded
  BY DEF OutboxInit, RefusedIsGone, NeverDiscarded
<1> QED
  BY <1>1, <1>2, <1>3, <1>4, <1>5 DEF OutboxInv

\* receipt_screen.dart, _sendOneBack: a new recording.
LEMMA SendOneBackKeeps == ASSUME OutboxInv, NEW r \in Recording, sendOneBack(r) PROVE OutboxInv'
<1> USE DEF OutboxInv
<1>1. /\ mounted /\ attempt = NoItem /\ button \in {"idle", "error"} /\ r \notin RecordedIds
      /\ attempt' = [id |-> r, attempts |-> 0, keyed |-> FALSE] /\ button' = "busy"
      /\ UNCHANGED <<outbox, timer, mounted, online, serverVars, toldVars>>
  BY DEF sendOneBack, Busy, RecordedIds
<1>2. UNCHANGED <<outbox, timer, mounted, online, stored, unheard, arrived, refused, toldSafe>>
  BY <1>1 DEF serverVars, toldVars
<1>3. made' \in Seq(Recording) /\ RecordedIds' = RecordedIds \cup {r}
  <2>1. made' = Append(made, r) /\ made \in Seq(Recording) /\ r \in Recording
    BY DEF sendOneBack, OutboxTyped
  <2> HIDE DEF OutboxInv
  <2>2. /\ Append(made, r) \in Seq(Recording)
        /\ {Append(made, r)[k] : k \in DOMAIN Append(made, r)} = {made[k] : k \in DOMAIN made} \cup {r}
    BY <2>1
  <2> QED
    BY <2>1, <2>2, Zenon DEF RecordedIds
<1>4. attempt' \in OutboxItem /\ attempt' # NoItem /\ attempt'.id = r /\ timer = NoItem
  <2>1. attempt' \in OutboxItem
    BY <1>1 DEF OutboxItem
  <2>2. timer = NoItem
    BY <1>1 DEF TimerIsNext
  <2> QED
    BY <1>1, <2>1, <2>2, NoItemIsNone
<1>5. OutboxTyped'
  BY <1>1, <1>2, <1>3, <1>4 DEF OutboxTyped
<1>6. QueueIsHers'
  BY <1>1, <1>2, <1>3, <1>4 DEF QueueIsHers
<1>7. TimerIsNext'
  BY <1>1, <1>2, <1>4 DEF TimerIsNext
<1>8. UploadsHeard' /\ StoredOnceHeard'
  <2>1. stored[r] = 0 /\ unheard[r] \in Nat
    BY <1>1 DEF UploadsHeard, OutboxTyped
  <2>2. \A x \in outbox : x.id # attempt.id
    BY <1>1, NoItemIsNone DEF OutboxTyped, OutboxItem
  <2> QED
    BY <1>1, <1>2, <1>3, <1>4, <2>1, <2>2 DEF UploadsHeard, StoredOnceHeard
<1>9. RefusedIsGone'
  BY <1>1, <1>2, <1>3, <1>4 DEF RefusedIsGone
<1>10. NeverDiscarded'
  BY <1>1, <1>2, <1>4, NoItemIsNone DEF NeverDiscarded, OutboxTyped
<1> QED
  BY <1>5, <1>6, <1>7, <1>8, <1>9, <1>10

\* The storage key arrives.
LEMMA UploadAnsweredKeeps == ASSUME OutboxInv, UploadAnswered PROVE OutboxInv'
<1> USE DEF OutboxInv
<1>1. /\ attempt \in OutboxItem /\ attempt # NoItem /\ ~attempt.keyed
      /\ stored' = [stored EXCEPT ![attempt.id] = @ + 1]
      /\ attempt' = [id |-> attempt.id, attempts |-> attempt.attempts, keyed |-> TRUE]
      /\ UNCHANGED <<outbox, timer, button, mounted, online, made, unheard, arrived, refused, toldSafe>>
  BY DEF UploadAnswered, Busy, OutboxTyped, OutboxItem, toldVars
<1>2. attempt' \in OutboxItem /\ attempt' # NoItem /\ attempt'.id = attempt.id /\ attempt.id \in Recording
  <2>1. attempt' \in OutboxItem /\ attempt.id \in Recording /\ attempt'.id = attempt.id
    BY <1>1 DEF OutboxItem
  <2> QED
    BY <2>1, NoItemIsNone
<1>3. RecordedIds' = RecordedIds
  BY <1>1 DEF RecordedIds
<1>4. stored' \in [Recording -> Nat]
  BY <1>1, <1>2 DEF OutboxTyped
<1>5. OutboxTyped'
  BY <1>1, <1>2, <1>4 DEF OutboxTyped
<1>6. QueueIsHers'
  BY <1>1, <1>2, <1>3 DEF QueueIsHers
<1>7. TimerIsNext'
  BY <1>1 DEF TimerIsNext, nextToSend, Age
<1>8. stored[attempt.id] <= unheard[attempt.id] /\ attempt.id \in RecordedIds
  BY <1>1 DEF UploadsHeard, QueueIsHers
<1>9. UploadsHeard'
  BY <1>1, <1>2, <1>3, <1>8 DEF UploadsHeard, OutboxTyped, OutboxItem
<1>10. StoredOnceHeard'
  BY <1>1, <1>2, <1>8 DEF StoredOnceHeard, OutboxTyped
<1>11. RefusedIsGone'
  BY <1>1, <1>2, <1>3 DEF RefusedIsGone
<1>12. NeverDiscarded'
  BY <1>1, <1>2 DEF NeverDiscarded
<1> QED
  BY <1>5, <1>6, <1>7, <1>9, <1>10, <1>11, <1>12

\* The message is captured.
LEMMA SendAnsweredKeeps == ASSUME OutboxInv, SendAnswered PROVE OutboxInv'
<1> USE DEF OutboxInv
<1>1. /\ attempt \in OutboxItem /\ attempt # NoItem /\ attempt.keyed /\ button = "busy" /\ timer = NoItem
      /\ arrived' = arrived \cup {attempt.id} /\ attempt' = NoItem
      /\ UNCHANGED <<timer, mounted, online, made, stored, unheard, refused, toldSafe>>
  BY DEF SendAnswered, Busy, OutboxTyped, QueueIsHers, TimerIsNext, toldVars
<1>2. /\ outbox' = sent(outbox, attempt) /\ button' \in {"busy", "sent"}
      /\ ~mounted => outbox' = {}
      /\ mounted => button' = "sent"
  <2>1. CASE mounted
    BY <2>1 DEF SendAnswered
  <2>2. CASE ~mounted
    BY <1>1, <2>2 DEF SendAnswered, QueueIsHers, sent
  <2> QED
    BY <2>1, <2>2
<1>3. attempt.id \in Recording /\ \A x \in outbox' : x \in outbox /\ x.id # attempt.id
  BY <1>1, <1>2 DEF OutboxItem, sent
<1>4. RecordedIds' = RecordedIds
  BY <1>1 DEF RecordedIds
<1>5. OutboxTyped'
  BY <1>1, <1>2, <1>3 DEF OutboxTyped
<1>6. QueueIsHers'
  BY <1>1, <1>2, <1>3, <1>4 DEF QueueIsHers
<1>7. TimerIsNext'
  BY <1>1, <1>2 DEF TimerIsNext
<1>8. UploadsHeard'
  BY <1>1, <1>3, <1>4 DEF UploadsHeard
<1>9. StoredOnceHeard'
  BY <1>1 DEF StoredOnceHeard
<1>10. RefusedIsGone'
  BY <1>1, <1>3, <1>4, NoItemIsNone DEF RefusedIsGone, OutboxTyped
<1>11. NeverDiscarded'
  BY <1>1, <1>2 DEF NeverDiscarded, sent
<1> QED
  BY <1>5, <1>6, <1>7, <1>8, <1>9, <1>10, <1>11

\* An error, told to her face while she is there to see it.
LEMMA RefusedKeeps == ASSUME OutboxInv, Refused PROVE OutboxInv'
<1> USE DEF OutboxInv
<1>1. /\ attempt \in OutboxItem /\ attempt # NoItem /\ button = "busy" /\ timer = NoItem
      /\ attempt' = NoItem
      /\ UNCHANGED <<timer, mounted, online, made, stored, unheard, arrived, toldSafe>>
  BY DEF Refused, Busy, OutboxTyped, QueueIsHers, TimerIsNext, serverVars
<1>2. /\ outbox' = sent(outbox, attempt) /\ button' \in {"busy", "error"}
      /\ ~mounted => outbox' = {}
      /\ refused' = IF mounted THEN refused \cup {attempt.id} ELSE refused
      /\ mounted => button' = "error"
  <2>1. CASE mounted
    BY <2>1 DEF Refused, AfterRefusal
  <2>2. CASE ~mounted
    BY <1>1, <2>2 DEF Refused, QueueIsHers, sent
  <2> QED
    BY <2>1, <2>2
<1>3. /\ attempt.id \in Recording /\ attempt.id \in RecordedIds
      /\ \A x \in outbox' : x \in outbox /\ x.id # attempt.id
  BY <1>1, <1>2 DEF OutboxItem, sent, QueueIsHers
<1>4. RecordedIds' = RecordedIds
  BY <1>1 DEF RecordedIds
<1>5. OutboxTyped'
  BY <1>1, <1>2, <1>3 DEF OutboxTyped
<1>6. QueueIsHers'
  BY <1>1, <1>2, <1>3, <1>4 DEF QueueIsHers
<1>7. TimerIsNext'
  BY <1>1, <1>2 DEF TimerIsNext
<1>8. UploadsHeard'
  BY <1>1, <1>3, <1>4 DEF UploadsHeard
<1>9. StoredOnceHeard'
  BY <1>1 DEF StoredOnceHeard
<1>10. RefusedIsGone'
  <2>1. refused' \subseteq refused \cup {attempt.id}
    BY <1>2
  <2> QED
    BY <1>1, <1>3, <1>4, <2>1, NoItemIsNone DEF RefusedIsGone, OutboxTyped
<1>11. NeverDiscarded'
  BY <1>1, <1>2 DEF NeverDiscarded, sent
<1> QED
  BY <1>5, <1>6, <1>7, <1>8, <1>9, <1>10, <1>11

\* No answer: the attempt's own copy is queued, the timer is set.
LEMMA UnansweredKeeps == ASSUME OutboxInv, NEW reached \in BOOLEAN, Unanswered(reached) PROVE OutboxInv'
<1> USE DEF OutboxInv
<1> DEFINE again == [attempt EXCEPT !.attempts = @ + 1]
           both == reached /\ ~attempt.keyed
<1>1. /\ attempt \in OutboxItem /\ attempt # NoItem /\ button = "busy" /\ timer = NoItem
      /\ attempt.attempts < MAX_ATTEMPTS /\ attempt.id \in RecordedIds /\ attempt.id \in Recording
      /\ attempt' = NoItem
      /\ UNCHANGED <<mounted, online, made, refused>>
      /\ arrived' = IF reached /\ attempt.keyed THEN arrived \cup {attempt.id} ELSE arrived
  BY DEF Unanswered, Busy, OutboxTyped, QueueIsHers, TimerIsNext, OutboxItem
<1>2. /\ again = [id |-> attempt.id, attempts |-> attempt.attempts + 1, keyed |-> attempt.keyed]
      /\ again \in OutboxItem /\ again.id = attempt.id /\ again.keyed = attempt.keyed
  BY <1>1 DEF OutboxItem
<1> HIDE DEF again
<1>3. /\ outbox' = IF mounted THEN sent(outbox, attempt) \cup {again} ELSE outbox
      /\ button' = IF mounted THEN "retrying" ELSE button
      /\ timer' = IF mounted THEN nextToSend(outbox') ELSE timer
      /\ toldSafe' = IF mounted THEN toldSafe \cup {attempt.id} ELSE toldSafe
  BY <1>1, RequeuedIs DEF Unanswered, again, OutboxTyped
<1>4. \A x \in outbox' : x = again \/ (x \in outbox /\ (mounted => x.id # attempt.id))
  BY <1>3 DEF sent
<1>5. RecordedIds' = RecordedIds
  BY <1>1 DEF RecordedIds
<1>6. /\ \A r \in Recording \ {attempt.id} : stored'[r] = stored[r] /\ unheard'[r] = unheard[r]
      /\ ~attempt.keyed => stored'[attempt.id] <= unheard'[attempt.id]
      /\ attempt.keyed => stored' = stored /\ unheard' = unheard
      /\ stored' \in [Recording -> Nat] /\ unheard' \in [Recording -> Nat]
  <2>1. stored \in [Recording -> Nat] /\ unheard \in [Recording -> Nat]
    BY DEF OutboxTyped
  <2>2. ~attempt.keyed => stored[attempt.id] <= unheard[attempt.id]
    BY <1>1 DEF UploadsHeard
  <2>3. CASE both
    <3>1. /\ stored' = [stored EXCEPT ![attempt.id] = @ + 1]
          /\ unheard' = [unheard EXCEPT ![attempt.id] = @ + 1]
      BY <2>3 DEF Unanswered
    <3> QED
      BY <1>1, <2>1, <2>2, <2>3, <3>1
  <2>4. CASE ~both
    <3>1. stored' = stored /\ unheard' = unheard
      BY <2>4 DEF Unanswered
    <3> QED
      BY <2>1, <2>2, <3>1
  <2> QED
    BY <2>3, <2>4
<1>7. \A x \in outbox' : x \in OutboxItem /\ x.id \in RecordedIds
  BY <1>1, <1>2, <1>4 DEF OutboxTyped, QueueIsHers
<1>8. timer' # NoItem => /\ mounted /\ timer' \in outbox' /\ timer'.attempts < MAX_ATTEMPTS
  <2>1. made \in Seq(Recording) /\ outbox' \in SUBSET OutboxItem /\ \A x \in outbox' : x.id \in RecordedIds
    BY <1>7 DEF OutboxTyped
  <2>2. CASE mounted
    <3>1. PICK box : box = outbox'
      OBVIOUS
    <3>2. timer' = nextToSend(box)
      BY <1>3, <2>2, <3>1
    <3> QED
      BY <2>1, <2>2, <3>1, <3>2, NextIsEligible
  <2>3. CASE ~mounted
    BY <1>1, <1>3, <2>3
  <2> QED
    BY <2>2, <2>3 DEF OutboxTyped
<1>9. OutboxTyped'
  <2>1. outbox' \subseteq OutboxItem
    BY <1>7
  <2>2. timer' \in OutboxItem \cup {NoItem}
    BY <1>7, <1>8
  <2> QED
    BY <1>1, <1>3, <1>6, <2>1, <2>2 DEF OutboxTyped
<1>10. QueueIsHers'
  <2>1. \A x, j \in outbox' : x.id = j.id => x = j
    <3>1. CASE mounted
      BY <1>2, <1>4, <3>1 DEF QueueIsHers
    <3>2. CASE ~mounted
      BY <1>3, <3>2 DEF QueueIsHers
    <3> QED
      BY <3>1, <3>2 DEF OutboxTyped
  <2> QED
    BY <1>1, <1>3, <1>5, <1>7, <2>1 DEF QueueIsHers
<1>11. TimerIsNext'
  <2>1. mounted => again \in outbox'
    BY <1>3
  <2>2. mounted => timer' = nextToSend(outbox)'
    BY <1>1, <1>3 DEF nextToSend, Age
  <2> QED
    BY <1>1, <1>3, <1>8, <2>1, <2>2 DEF TimerIsNext
<1>12. UploadsHeard'
  <2>1. \A x \in outbox' : ~x.keyed => stored'[x.id] <= unheard'[x.id]
    <3> SUFFICES ASSUME NEW x \in outbox', ~x.keyed PROVE stored'[x.id] <= unheard'[x.id]
      OBVIOUS
    <3>1. CASE x = again
      BY <1>2, <1>6, <3>1
    <3>2. CASE x # again
      <4>1. x \in outbox /\ mounted /\ x.id # attempt.id /\ x.id \in Recording
        BY <1>3, <1>4, <1>7, <3>2 DEF QueueIsHers, OutboxItem, OutboxTyped
      <4> QED
        BY <1>6, <4>1 DEF UploadsHeard
    <3> QED
      BY <3>1, <3>2
  <2>2. \A r \in Recording \ RecordedIds : stored'[r] = 0
    BY <1>1, <1>6 DEF UploadsHeard
  <2> QED
    BY <1>1, <1>5, <2>1, <2>2 DEF UploadsHeard
<1>13. StoredOnceHeard'
  <2> SUFFICES ASSUME NEW r \in Recording PROVE stored'[r] <= 1 + unheard'[r]
    BY DEF StoredOnceHeard
  <2>1. stored[r] <= 1 + unheard[r] /\ stored'[r] \in Nat /\ unheard'[r] \in Nat
    BY <1>6 DEF StoredOnceHeard
  <2> QED
    BY <1>6, <2>1
<1>14. RefusedIsGone'
  BY <1>1, <1>2, <1>4, <1>5, NoItemIsNone DEF RefusedIsGone, OutboxTyped
<1>15. NeverDiscarded'
  <2> SUFFICES ASSUME mounted, NEW r \in toldSafe'
               PROVE  r \in arrived' \cup refused' \cup {x.id : x \in outbox'}
    BY <1>1 DEF NeverDiscarded
  <2>1. again \in outbox' /\ \A x \in outbox : x.id # attempt.id => x \in outbox'
    BY <1>3 DEF sent
  <2>2. CASE r = attempt.id
    BY <1>2, <2>1, <2>2
  <2>3. CASE r # attempt.id
    <3>1. r \in arrived \cup refused \cup {x.id : x \in outbox}
      BY <1>3, <2>3 DEF NeverDiscarded
    <3> QED
      BY <1>1, <2>1, <2>3, <3>1
  <2> QED
    BY <2>2, <2>3
<1> QED
  BY <1>9, <1>10, <1>11, <1>12, <1>13, <1>14, <1>15

\* The timer fires, or she leaves, or the network comes and goes.
LEMMA RetryFiresKeeps == ASSUME OutboxInv, RetryFires PROVE OutboxInv'
<1> USE DEF OutboxInv
<1>1. /\ timer # NoItem /\ mounted /\ button = "retrying" /\ timer \in outbox /\ timer.attempts < MAX_ATTEMPTS
      /\ attempt = NoItem
      /\ timer' = NoItem /\ attempt' = timer /\ button' = "busy"
      /\ UNCHANGED <<outbox, mounted, online, made, stored, unheard, arrived, refused, toldSafe>>
  BY DEF RetryFires, TimerIsNext, QueueIsHers, serverVars, toldVars
<1>2. RecordedIds' = RecordedIds
  BY <1>1 DEF RecordedIds
<1>3. timer \in OutboxItem /\ \A x \in outbox : x.id \in Recording
  BY <1>1 DEF OutboxTyped, OutboxItem
<1>4. OutboxTyped'
  BY <1>1, <1>3 DEF OutboxTyped
<1>5. QueueIsHers'
  BY <1>1, <1>2 DEF QueueIsHers
<1>6. TimerIsNext'
  BY <1>1 DEF TimerIsNext
<1>7. \A x \in outbox : ~x.keyed => stored[x.id] <= unheard[x.id]
  BY <1>1, <1>3, NoItemIsNone DEF UploadsHeard
<1>8. UploadsHeard' /\ StoredOnceHeard'
  BY <1>1, <1>2, <1>7 DEF UploadsHeard, StoredOnceHeard
<1>9. RefusedIsGone'
  BY <1>1, <1>2 DEF RefusedIsGone
<1>10. NeverDiscarded'
  BY <1>1, NoItemIsNone DEF NeverDiscarded, OutboxTyped
<1> QED
  BY <1>4, <1>5, <1>6, <1>8, <1>9, <1>10

LEMMA DisposeKeeps == ASSUME OutboxInv, dispose PROVE OutboxInv'
<1> USE DEF OutboxInv
<1>1. /\ mounted' = FALSE /\ timer' = NoItem /\ outbox' = {}
      /\ UNCHANGED <<attempt, button, online, made, stored, unheard, arrived, refused, toldSafe>>
  BY DEF dispose, serverVars, toldVars
<1>2. RecordedIds' = RecordedIds
  BY <1>1 DEF RecordedIds
<1>3. OutboxTyped'
  BY <1>1 DEF OutboxTyped
<1>4. QueueIsHers' /\ TimerIsNext'
  BY <1>1, <1>2 DEF QueueIsHers, TimerIsNext
<1>5. UploadsHeard' /\ StoredOnceHeard'
  BY <1>1, <1>2 DEF UploadsHeard, StoredOnceHeard
<1>6. RefusedIsGone' /\ NeverDiscarded'
  BY <1>1, <1>2 DEF RefusedIsGone, NeverDiscarded
<1> QED
  BY <1>3, <1>4, <1>5, <1>6

LEMMA NothingButTheNetworkKeeps ==
  ASSUME OutboxInv, NetChanges \/ UNCHANGED outboxVars PROVE OutboxInv'
<1> USE DEF OutboxInv
<1>1. /\ UNCHANGED <<outbox, attempt, timer, button, mounted, made, stored, unheard, arrived, refused, toldSafe>>
      /\ online' \in BOOLEAN
  BY DEF NetChanges, outboxVars, clientVars, serverVars, toldVars, OutboxTyped
<1>2. RecordedIds' = RecordedIds
  BY <1>1 DEF RecordedIds
<1>3. OutboxTyped'
  BY <1>1 DEF OutboxTyped
<1>4. QueueIsHers'
  BY <1>1, <1>2 DEF QueueIsHers
<1>5. TimerIsNext'
  BY <1>1 DEF TimerIsNext, nextToSend, Age
<1>6. UploadsHeard' /\ StoredOnceHeard'
  BY <1>1, <1>2 DEF UploadsHeard, StoredOnceHeard
<1>7. RefusedIsGone' /\ NeverDiscarded'
  BY <1>1, <1>2 DEF RefusedIsGone, NeverDiscarded
<1> QED
  BY <1>3, <1>4, <1>5, <1>6, <1>7

LEMMA OutboxInvNext == OutboxInv /\ (OutboxNext \/ UNCHANGED outboxVars) => OutboxInv'
BY SendOneBackKeeps, UploadAnsweredKeeps, SendAnsweredKeeps, RefusedKeeps, UnansweredKeeps, RetryFiresKeeps,
   DisposeKeeps, NothingButTheNetworkKeeps DEF OutboxNext

\* receipt_screen.dart: what is refused was never queued again, so it never arrives.
LEMMA RefusedNeverArrives ==
  OutboxInv /\ (OutboxNext \/ UNCHANGED outboxVars) => RefusedStaysRefused
<1> SUFFICES ASSUME OutboxInv, OutboxNext, NEW r \in refused, r \notin arrived PROVE r \notin arrived'
  BY DEF RefusedStaysRefused
<1>1. r # attempt.id
  BY DEF OutboxInv, RefusedIsGone
<1>2. arrived' \subseteq arrived \cup {attempt.id}
  BY DEF OutboxNext, sendOneBack, UploadAnswered, SendAnswered, Refused, Unanswered, RetryFires, dispose,
         NetChanges, serverVars
<1> QED
  BY <1>1, <1>2

LEMMA OutboxInvTypes == OutboxInv => OutboxTypeOK
<1> SUFFICES ASSUME OutboxInv PROVE OutboxTypeOK
  OBVIOUS
<1> QED
  BY DEF OutboxInv, OutboxTyped, QueueIsHers, TimerIsNext, OutboxTypeOK

-----------------------------------------------------------------------------
(* The sweep and the gate of MCRules. *)
HIDE OutboxAssumption

AtHome == [home |-> 0, tz |-> {}, parts |-> {}]
PartsKnown == {Bedtime, Asleep, Wake, School, [Bedtime EXCEPT !.days = {1}]}

\* A postponement was counted each time, and no more often than there are.
WordsInv ==
  /\ c \in Contexts \cup {AtHome} /\ i \in Notes /\ asOf \in Nat
  /\ at \in Int /\ defers \in Nat /\ defers <= MaxDefers /\ postponed = defers
  /\ arrival \in {"trying", "arrived", "no_window"}

LEMMA ContextKnown ==
  ASSUME NEW ctx \in Contexts \cup {AtHome}
  PROVE  /\ ctx.home \in {0, 1, 3} /\ ctx.parts \subseteq PartsKnown
         /\ \A iv \in ctx.tz : /\ iv.shift \in {2, -1} /\ iv.start \in Int
                               /\ iv.end \in Int \cup {Unbounded}
<1>1. CASE ctx = AtHome
  BY <1>1 DEF AtHome
<1>2. CASE ctx \in Contexts
  <2>1. PICK h \in {0, 1, 3}, z \in Timelines, p \in Schedules : ctx = [home |-> h, tz |-> z, parts |-> p]
    BY <1>2 DEF Contexts
  <2>2. \A iv \in z : iv.shift \in {2, -1} /\ iv.start \in Int /\ iv.end \in Int \cup {Unbounded}
    BY DEF Timelines
  <2>3. p \subseteq PartsKnown
    <3>1. PICK once : once = [Bedtime EXCEPT !.days = {1}]
      OBVIOUS
    <3>2. Schedules = { {}, {Bedtime}, {Asleep}, {Bedtime, Asleep, Wake}, {Wake, School, Asleep}, {once} }
      BY <3>1 DEF Schedules
    <3>3. PartsKnown = {Bedtime, Asleep, Wake, School, once}
      BY <3>1 DEF PartsKnown
    <3> QED
      BY <3>2, <3>3
  <2> QED
    BY <2>1, <2>2, <2>3
<1> QED
  BY <1>1, <1>2

LEMMA PartKnown ==
  ASSUME NEW p \in PartsKnown
  PROVE  /\ {p.wall, p.until} \subseteq Int
         /\ p.kind = "bedtime" => p.wall = 4
         /\ p.kind = "asleep" => p.wall = 5
         /\ p.kind = "wake" => p.wall = 1
         /\ p.kind = "school" => p.wall = 2
         /\ p.kind \in {"bedtime", "asleep", "wake", "school"}
BY DEF PartsKnown, Bedtime, Asleep, Wake, School

LEMMA ContextSound ==
  ASSUME NEW ctx \in Contexts \cup {AtHome}
  PROVE  IsContext(ctx) /\ \A kind : OneWallClock(ctx, kind)
<1>1. \A p \in ctx.parts : p \in PartsKnown
  BY ContextKnown
<1>2. IsContext(ctx)
  BY <1>1, ContextKnown, PartKnown DEF IsContext
<1>3. ASSUME NEW kind PROVE OneWallClock(ctx, kind)
  BY <1>1, PartKnown DEF OneWallClock
<1> QED
  BY <1>2, <1>3

\* The trips and homes of MCRules lie at most four ticks apart.
LEMMA TripsWithinADay ==
  ASSUME Day > 3, NEW ctx \in Contexts \cup {AtHome} PROVE ZonesWithinADay(ctx)
<1>1. ASSUME NEW t \in Int PROVE resolveZone(ctx, t) \in {0, 1, 2, 3, -1}
  <2>1. CASE \E iv \in ctx.tz : Covers(iv, t)
    <3>1. (CHOOSE iv \in ctx.tz : Covers(iv, t)) \in ctx.tz
      BY <2>1
    <3> QED
      BY <2>1, <3>1, ContextKnown DEF resolveZone
  <2>2. CASE ~\E iv \in ctx.tz : Covers(iv, t)
    BY <2>2, ContextKnown DEF resolveZone
  <2> QED
    BY <2>1, <2>2
<1>2. ASSUME NEW x \in {0, 1, 2, 3, -1}, NEW y \in {0, 1, 2, 3, -1} PROVE x <= y + Day
  BY TimeAssumption
<1> QED
  BY <1>1, <1>2 DEF ZonesWithinADay

LEMMA NotesAreIntents == ASSUME NEW note \in Notes PROVE IsIntent(note)
<1>1. \A p, d, t, e : NoteFor(p, d, t, e) =
        [state |-> "pending", policy |-> p, kind |-> "bedtime", date |-> d, instant |-> t, expires |-> e]
  BY DEF NoteFor
<1>2. CASE \E p \in {"immediate", "at_daypart", "when_reachable"}, e \in {9, 60} : note = NoteFor(p, NoDate, NoDate, e)
  BY <1>1, <1>2 DEF IsIntent
<1>3. CASE \E p \in {"at_daypart", "on_local_date"}, d \in {0, 1, 2} : note = NoteFor(p, d, NoDate, 60)
  BY <1>1, <1>3, TimeAssumption DEF IsIntent
<1>4. CASE \E p \in {"at_instant", "on_event"}, t \in {4, 8} : note = NoteFor(p, NoDate, t, 60)
  BY <1>1, <1>4, TimeAssumption DEF IsIntent
<1>5. CASE note = NoteFor("on_event", NoDate, NoDate, 60)
  BY <1>1, <1>5 DEF IsIntent
<1>6. CASE note = Parked
  <2>1. Parked = [state |-> "expired", policy |-> "immediate", kind |-> "bedtime", date |-> NoDate,
                  instant |-> NoDate, expires |-> 60]
    BY <1>1 DEF Parked
  <2> QED
    BY <1>6, <2>1 DEF IsIntent
<1> QED
  BY <1>2, <1>3, <1>4, <1>5, <1>6 DEF Notes

LEMMA WordsInvInit == RulesInit => WordsInv
<1> SUFFICES ASSUME RulesInit PROVE WordsInv
  OBVIOUS
<1>1. asOf = 0 /\ defers = 0 /\ arrival = "trying" /\ postponed = 0
  BY DEF RulesInit
<1>2. at \in Int
  <2>1. at \in 0 .. MaxNow
    BY DEF RulesInit, Fixed
  <2> QED
    BY <2>1, NowAssumption
<1>3. SweepInit
  BY DEF RulesInit
<1>4. Parked \in Notes
  BY DEF Notes
<1>5. i \in Notes
  BY <1>3, <1>4 DEF SweepInit
<1>6. c \in Contexts \cup {AtHome}
  <2>1. CASE focus = "sweep"
    BY <1>3, <2>1 DEF SweepInit
  <2>2. CASE focus = "gate"
    BY <2>2 DEF RulesInit
  <2>3. CASE focus \notin {"sweep", "gate"}
    BY <2>3 DEF RulesInit, AtHome
  <2> QED
    BY <2>1, <2>2, <2>3
<1> QED
  BY <1>1, <1>2, <1>5, <1>6, TimeAssumption DEF WordsInv

\* gate.ts: a delivery put off is put off once more, never beyond the last and never
\* to an instant that has been.
LEMMA GateStep ==
  ASSUME WordsInv, GateNext, UNCHANGED sweepVars PROVE WordsInv' /\ at' >= at
<1>0. i' = i /\ asOf' = asOf
  BY DEF sweepVars
<1>1. CASE GateOpens \/ NowhereToGo
  BY <1>0, <1>1 DEF GateOpens, NowhereToGo, WordsInv
<1>2. CASE Postpone
  <2>1. PICK no \in BOOLEAN : no = FALSE
    OBVIOUS
  <2>2. PICK v : v = gate(c, at, no, defers)
    OBVIOUS
  <2>3. Verdict = v
    BY <2>1, <2>2, Zenon DEF Verdict
  <2>4. /\ ~v.allow /\ v.deferTo.ok /\ at' = v.deferTo.at /\ postponed' = postponed + 1
        /\ defers' = v.defers /\ UNCHANGED <<c, arrival>>
    BY <1>2, <2>3 DEF Postpone
  <2>5. IsContext(c) /\ at \in Int /\ defers \in Nat
    BY ContextSound DEF WordsInv
  <2>6. defers < MaxDefers /\ defers' = defers + 1 /\ at' \in Int /\ at' >= at
    BY <2>2, <2>4, <2>5, GatePostpones
  <2> QED
    BY <1>0, <2>4, <2>6, TimeAssumption DEF WordsInv
<1> QED
  BY <1>1, <1>2 DEF GateNext

LEMMA WordsInvNext == WordsInv /\ [RulesNext]_allVars => WordsInv' /\ PostponedForward
<1> SUFFICES ASSUME WordsInv, [RulesNext]_allVars PROVE WordsInv' /\ at' >= at
  BY DEF PostponedForward
<1>1. CASE RulesNext /\ focus = "gate"
  <2>1. GateNext /\ UNCHANGED sweepVars
    BY <1>1 DEF RulesNext
  <2> QED
    BY <2>1, GateStep
<1>2. CASE RulesNext /\ focus = "sweep"
  <2>1. NextSweep /\ UNCHANGED gateVars
    BY <1>2 DEF RulesNext
  <2> QED
    BY <2>1 DEF NextSweep, gateVars, WordsInv
<1>3. CASE (RulesNext /\ focus \notin {"sweep", "gate"}) \/ UNCHANGED allVars
  <2>1. UNCHANGED <<c, sweepVars, gateVars>>
    <3>1. CASE RulesNext /\ focus \notin {"sweep", "gate"}
      BY <3>1 DEF RulesNext
    <3>2. CASE UNCHANGED allVars
      BY <3>2 DEF allVars, rulesVars, sweepVars, gateVars
    <3> QED
      BY <1>3, <3>1, <3>2
  <2> QED
    BY <2>1 DEF sweepVars, gateVars, WordsInv
<1> QED
  BY <1>1, <1>2, <1>3

\* materialize.ts: what the sweep schedules is neither late nor later than it need be.
LEMMA WordsInvArrives == ASSUME Day > 3, WordsInv PROVE NeverDumpedLate /\ RollsToEarliestSlot /\ DecidedInTime
<1>1. IsContext(c) /\ OneWallClock(c, i.kind) /\ ZonesWithinADay(c) /\ IsIntent(i) /\ asOf \in Int
  BY ContextSound, TripsWithinADay, NotesAreIntents DEF WordsInv
<1>2. PICK res : res = materialize(i, c, asOf)
  OBVIOUS
<1>3. NeverDumpedLate
  <2>1. /\ Sound(res, asOf)
        /\ res.ok => asOf < i.expires /\ i.state \notin Terminal
    BY <1>1, <1>2, NothingDumpedLate
  <2> QED
    BY <1>2, <2>1 DEF NeverDumpedLate, Result, Sound
<1>4. RollsToEarliestSlot
  <2> SUFFICES ASSUME i.policy = "at_daypart", i.date = NoDate, Result.ok
               PROVE  Result.at = LeastOf({t \in FutureSlots : t >= asOf - Grace})
    BY DEF RollsToEarliestSlot
  <2>1. i.state \notin Terminal /\ ~(i.expires <= asOf)
    BY <1>1, SkipSound DEF Result, materialize
  <2>2. Result = AtDaypart(c, i.kind, NoDate, asOf)
    BY <2>1 DEF Result, materialize
  <2>3. Result.at = LeastOf(SlotsAhead(c, i.kind, asOf))
    BY <1>1, <2>2, RollsToTheEarliest
  <2> QED
    BY <2>3 DEF SlotsAhead, FutureSlots
<1>5. DecidedInTime
  BY DEF WordsInv, DecidedInTime
<1> QED
  BY <1>3, <1>4, <1>5

\* materialize.ts, on_local_date: a night keeps its instant, and once past is past.
LEMMA NightKeepsItsInstant == WordsInv /\ WordsInv' /\ [RulesNext]_allVars => NamedNightNeverMoves
<1> SUFFICES ASSUME WordsInv, WordsInv', RulesNext, i.policy = "on_local_date"
             PROVE  /\ Result.ok /\ Result'.ok => Result'.at = Result.at
                    /\ Result.reason = "target_in_past" => ~Result'.ok
  BY DEF NamedNightNeverMoves, allVars, rulesVars
<1>1. IsContext(c) /\ IsIntent(i) /\ asOf \in Int /\ asOf' \in Int
  BY ContextSound, NotesAreIntents DEF WordsInv
<1>3. i' = i /\ c' = c /\ asOf <= asOf'
  <2>1. CASE focus = "sweep"
    BY <2>1 DEF RulesNext, NextSweep, WordsInv
  <2>2. CASE focus = "gate"
    <3>1. GateNext /\ UNCHANGED sweepVars
      BY <2>2 DEF RulesNext
    <3>2. c' = c
      BY <3>1 DEF GateNext, GateOpens, Postpone, NowhereToGo
    <3> QED
      BY <1>1, <3>1, <3>2 DEF sweepVars
  <2>3. CASE focus \notin {"sweep", "gate"}
    BY <1>1, <2>3 DEF RulesNext, sweepVars
  <2> QED
    BY <2>1, <2>2, <2>3
<1>4. PICK u \in Int : u = asOf'
  BY <1>1
<1>5. PICK before, after : before = materialize(i, c, asOf) /\ after = materialize(i, c, u)
  OBVIOUS
<1>6. Result = before /\ Result' = after
  BY <1>3, <1>4, <1>5 DEF Result
<1>7. before.ok /\ after.ok => before.at = after.at
  BY <1>1, <1>5, NamedNightFixed
<1>8. before.reason = "target_in_past" => ~after.ok
  BY <1>1, <1>3, <1>4, <1>5, NamedNightStaysPast
<1> QED
  BY <1>6, <1>7, <1>8

-----------------------------------------------------------------------------
(* The rules together. *)

\* A behaviour is about one of the parts; the others keep the state they began in,
\* so that each invariant holds whatever the behaviour is about.
RulesInv ==
  KioskInv /\ LinksInv /\ EdgeInv /\ ObserverInv /\ AccessInv /\ OutboxInv /\ WordsInv

LEMMA RulesInvInit == RulesInit => RulesInv
<1> SUFFICES ASSUME RulesInit PROVE RulesInv
  OBVIOUS
<1>1. /\ KioskInit /\ LinksInit /\ CircleInit /\ AccessInit /\ EdgesInit /\ instant = 0
  <2>1. KioskInit
    BY Zenon DEF RulesInit
  <2>2. LinksInit
    BY Zenon DEF RulesInit
  <2>3. CircleInit
    BY Zenon DEF RulesInit
  <2>4. AccessInit
    BY Zenon DEF RulesInit
  <2>5. EdgesInit
    BY Zenon DEF RulesInit
  <2>6. instant = 0
    BY Zenon DEF RulesInit
  <2> QED
    BY <2>1, <2>2, <2>3, <2>4, <2>5, <2>6
<1>2. KioskInv /\ LinksInv /\ AccessInv
  BY <1>1, KioskInvInit, LinksInvInit, AccessInvInit
<1>3. ObserverInv
  BY <1>1, ObserverInvInit DEF CircleInit
<1>4. EdgeInv
  <2>1. held \subseteq EdgesKnown
    BY <1>1, Zenon DEF EdgesInit
  <2>2. question \in Asked
    <3>1. Query("call", FALSE, FALSE) \in Asked
      BY Zenon DEF Asked
    <3> QED
      BY <1>1, <3>1, Zenon DEF EdgesInit
  <2> QED
    BY <1>1, <2>1, <2>2 DEF EdgeInv
<1>5. OutboxInv /\ WordsInv
  <2>1. OutboxInit
    BY Zenon DEF RulesInit
  <2> QED
    BY <2>1, OutboxInvInit, WordsInvInit
<1> QED
  BY <1>2, <1>3, <1>4, <1>5 DEF RulesInv

\* A step of the rules is a step of each part or leaves that part alone.
LEMMA StepOfThePart ==
  ASSUME [RulesNext]_allVars
  PROVE  /\ [KioskNext]_kioskVars /\ [LinksNext]_linkVars
         /\ TimePasses \/ UNCHANGED edgeVars
         /\ ObserversNext \/ UNCHANGED observerVars
         /\ AccessNext \/ UNCHANGED accessVars
         /\ OutboxNext \/ UNCHANGED outboxVars
<1>1. CASE RulesNext
  BY <1>1, Zenon DEF RulesNext
<1>2. CASE UNCHANGED allVars
  <2>1. UNCHANGED <<rulesVars, kioskVars, outboxVars, circleVars, accessVars, linkVars>>
    BY <1>2 DEF allVars
  <2>2. UNCHANGED edgeVars
    BY <2>1 DEF rulesVars, edgeVars
  <2>3. UNCHANGED observerVars
    BY <2>1 DEF circleVars, observerVars
  <2> QED
    BY <2>1, <2>2, <2>3
<1> QED
  BY <1>1, <1>2

LEMMA RulesInvNext == RulesInv /\ [RulesNext]_allVars => RulesInv'
<1> SUFFICES ASSUME RulesInv, [RulesNext]_allVars PROVE RulesInv'
  OBVIOUS
<1>1. KioskInv' /\ LinksInv'
  BY StepOfThePart, KioskInvStep, LinksInvNext DEF RulesInv
<1>2. EdgeInv' /\ ObserverInv'
  BY StepOfThePart, EdgeInvKept, ObserverInvNext DEF RulesInv
<1>3. AccessInv'
  BY StepOfThePart, AccessInvNext DEF RulesInv
<1>4. OutboxInv' /\ WordsInv'
  BY StepOfThePart, OutboxInvNext, WordsInvNext DEF RulesInv
<1> QED
  BY <1>1, <1>2, <1>3, <1>4 DEF RulesInv

\* The invariant behind what is proved of the rules.
THEOREM RulesInvariant == RulesSpec => []RulesInv
BY RulesInvInit, RulesInvNext, PTL DEF RulesSpec

\* api.ts, routes.mjs and signed_media.mjs: for every set of children, sessions and
\* guardianships, whichever of the routes is asked for and whatever happens to the
\* family and the device between two awaits, nobody is served without standing, a
\* child is shown nothing kept from her and a refusal leaves nothing behind; and a
\* link serves what it was minted for.
THEOREM RequestsAreAlwaysServed == RulesSpec => []RequestsAreServed
<1>1. RulesInv => RequestsAreServed
  BY MintedIsLive DEF RulesInv, LinksInv, AccessInv, RequestsAreServed, About
<1> QED
  BY <1>1, RulesInvariant, PTL

\* authorize.ts and observer.ts: an edge more never hurts, a closed edge is as none,
\* and an invitation is ended by nobody but the parent who made it.
THEOREM EdgesAlwaysDecide == RulesSpec => []EdgesDecide
<1>1. RulesInv => EdgesDecide
  BY EdgeInvDecides, ObserverInvRevokes DEF RulesInv, EdgesDecide, About
<1> QED
  BY <1>1, RulesInvariant, PTL

\* lock.ts, among the other rules: the lock gives nothing away.
THEOREM LockHoldsInTheRules == RulesSpec => []LockHolds
<1>1. RulesInv => LockHolds
  BY DEF RulesInv, KioskInv
<1> QED
  BY <1>1, RulesInvariant, PTL

\* api.ts: the request's stage, its answer and what is known of her keep their types.
THEOREM AccessTypesHold == RulesSpec => []AccessTypeOK
<1>1. RulesInv => AccessTypeOK
  BY AccessInvTypes DEF RulesInv
<1> QED
  BY <1>1, RulesInvariant, PTL

\* materialize.ts, tick.ts and receipt_screen.dart: whatever the intent, the zones and
\* the routine of the run's contexts, a night she is promised is neither in the past
\* nor one that a nearer slot could be; the gate has decided within as many
\* postponements as it allows; and no recording is dropped or stored twice.
THEOREM WordsAlwaysArrive == ASSUME Day > 3 PROVE RulesSpec => []WordsArrive
<1>1. RulesInv => WordsArrive
  <2>1. ASSUME RulesInv PROVE WordsArrive
    <3>1. NeverDumpedLate /\ RollsToEarliestSlot /\ DecidedInTime
      BY <2>1, WordsInvArrives DEF RulesInv
    <3>2. NeverDiscarded /\ StoredOnceHeard
      BY <2>1 DEF RulesInv, OutboxInv
    <3> QED
      BY <3>1, <3>2 DEF WordsArrive, About
  <2> QED
    BY <2>1
<1> QED
  BY <1>1, RulesInvariant, PTL

\* What was settled of her words stays so: a night that is named keeps its instant
\* however late it is asked again, a postponed word is looked at later than before,
\* and a recording that was refused is never stored after all.
THEOREM WhatWasSettledStays ==
  RulesSpec => [][NamedNightNeverMoves /\ PostponedForward /\ RefusedStaysRefused]_allVars
<1>1. RulesInv /\ RulesInv' /\ [RulesNext]_allVars
      => [NamedNightNeverMoves /\ PostponedForward /\ RefusedStaysRefused]_allVars
  <2>1. ASSUME RulesInv, RulesInv', [RulesNext]_allVars
        PROVE  NamedNightNeverMoves /\ PostponedForward /\ RefusedStaysRefused
    <3>1. NamedNightNeverMoves
      BY <2>1, NightKeepsItsInstant DEF RulesInv
    <3>2. PostponedForward
      BY <2>1, WordsInvNext DEF RulesInv
    <3>3. RefusedStaysRefused
      BY <2>1, StepOfThePart, RefusedNeverArrives DEF RulesInv
    <3> QED
      BY <3>1, <3>2, <3>3
  <2> QED
    BY <2>1
<1> QED
  BY <1>1, RulesInvariant, PTL DEF RulesSpec

\* receipt_screen.dart: the queue, the timer and what the server stored keep their types.
THEOREM OutboxTypesHold == RulesSpec => []OutboxTypeOK
<1>1. RulesInv => OutboxTypeOK
  BY OutboxInvTypes DEF RulesInv
<1> QED
  BY <1>1, RulesInvariant, PTL

-----------------------------------------------------------------------------
(* Her days: signals, pings, the turns of a group call, what becomes hers. *)

\* signal.ts, SignalState: what deliver() counts is what she saw.
SignalInv ==
  /\ shownToday \in Nat /\ sentToday = shownToday /\ CeilingHolds
  /\ mutedLeft \in Nat /\ reach \in {"open", "silent_hours", "blocked_window"}

LEMMA SignalInvInit == SignalInit => SignalInv
BY SignalAssumption DEF SignalInit, SignalInv, CeilingHolds

\* signal.ts, deliver: what is let through is below the ceiling, and nothing blocks her.
LEMMA LetThrough ==
  ASSUME SignalInv, NEW kind, NEW principal, NEW conf, DeliverError(kind, principal, conf) = "ok"
  PROVE  sentToday < DAILY_CEILING /\ reach = "open" /\ mutedLeft = 0 /\ ~transitioning
BY SignalAssumption DEF SignalInv, DeliverError

LEMMA SignalStep ==
  SignalInv /\ (SignalNext \/ UNCHANGED signalVars) => SignalInv' /\ QuietIsQuiet
<1> SUFFICES ASSUME SignalInv, SignalNext \/ UNCHANGED signalVars
             PROVE  SignalInv' /\ (current' \notin {Silence, current} => reach = "open" /\ mutedLeft = 0 /\ ~transitioning)
  BY DEF QuietIsQuiet
<1> USE SignalAssumption DEF SignalInv, CeilingHolds
<1>1. ASSUME NEW p \in Pending, Ask(p)
      PROVE  SignalInv' /\ current' = current
  BY <1>1 DEF Ask
<1>2. ASSUME NEW principal, NEW conf, deliver(principal, conf)
      PROVE  SignalInv' /\ (current' # current => reach = "open" /\ mutedLeft = 0 /\ ~transitioning)
  <2>1. PICK error : error = DeliverError(prioritise(asking).kind, principal, conf)
    OBVIOUS
  <2>2. /\ error # "ok" => UNCHANGED <<current, sentToday, shownToday>>
        /\ error = "ok" => sentToday' = sentToday + 1 /\ shownToday' = shownToday + 1
        /\ UNCHANGED <<mutedLeft, reach>>
    BY <1>2, <2>1 DEF deliver, Show
  <2>3. error = "ok" => sentToday < DAILY_CEILING /\ reach = "open" /\ mutedLeft = 0 /\ ~transitioning
    BY <2>1, LetThrough
  <2> QED
    BY <2>2, <2>3
<1>3. ASSUME redeliverIfReachable
      PROVE  SignalInv' /\ (current' # current => reach = "open" /\ mutedLeft = 0 /\ ~transitioning)
  <2>1. PICK error : error = DeliverError(deferred.kind, "parent", "both_parents")
    OBVIOUS
  <2>2. /\ error # "ok" => UNCHANGED <<current, sentToday, shownToday>>
        /\ \/ UNCHANGED <<current, sentToday, shownToday>>
           \/ sentToday' = sentToday + 1 /\ shownToday' = shownToday + 1
        /\ UNCHANGED <<mutedLeft, reach>>
    BY <1>3, <2>1 DEF redeliverIfReachable, Show
  <2>3. error = "ok" => sentToday < DAILY_CEILING /\ reach = "open" /\ mutedLeft = 0 /\ ~transitioning
    BY <2>1, LetThrough
  <2> QED
    BY <2>2, <2>3
<1>4. ASSUME expire \/ act \/ transitionComplete \/ muteForAnHour \/ SignalTick \/ NewDay
      PROVE  SignalInv' /\ current' \in {Silence, current}
  BY <1>4 DEF expire, act, transitionComplete, muteForAnHour, SignalTick, NewDay
<1>5. CASE UNCHANGED signalVars
  BY <1>5 DEF signalVars
<1>6. CASE SignalNext
  BY <1>1, <1>2, <1>3, <1>4, <1>6 DEF SignalNext
<1> QED
  BY <1>5, <1>6

\* agency.ts, PingLog: counted per parent and date.
PingInv ==
  /\ pingLog \in [Guardian \X (0..MaxDate) -> Nat]
  /\ banked \in [Guardian \X (0..MaxDate) -> Nat]
  /\ tapped \in [Guardian \X (0..MaxDate) -> Nat]
  /\ EveryTapReaches

LEMMA PingInvInit == CircleInit => PingInv
BY CircleAssumption DEF CircleInit, PingInv, EveryTapReaches

LEMMA OneMore ==
  ASSUME NEW D, NEW f \in [D -> Nat], NEW d
  PROVE  /\ [f EXCEPT ![d] = @ + 1] \in [D -> Nat]
         /\ \A k \in D : [f EXCEPT ![d] = @ + 1][k] = IF k = d THEN f[k] + 1 ELSE f[k]
<1>1. \A k \in D : [f EXCEPT ![d] = @ + 1][k] = IF k = d THEN f[k] + 1 ELSE f[k]
  OBVIOUS
<1>2. \A k \in D : [f EXCEPT ![d] = @ + 1][k] \in Nat
  BY <1>1
<1> QED
  BY <1>1, <1>2

LEMMA PingInvNext == PingInv /\ (PingsNext \/ UNCHANGED pingVars) => PingInv'
<1> SUFFICES ASSUME PingInv, PingsNext \/ UNCHANGED pingVars PROVE PingInv'
  OBVIOUS
<1>1. ASSUME NEW g \in Guardian, tapPing(g) PROVE PingInv'
  <2>1. PICK d, D : d = <<g, localDate>> /\ D = Guardian \X (0..MaxDate)
    OBVIOUS
  <2>0. /\ pingLog \in [D -> Nat] /\ banked \in [D -> Nat] /\ tapped \in [D -> Nat]
        /\ \A k \in D : /\ pingLog[k] = IF tapped[k] < PingLimit THEN tapped[k] ELSE PingLimit
                        /\ pingLog[k] + banked[k] = tapped[k]
    BY <2>1 DEF PingInv, EveryTapReaches
  <2>2. /\ tapped' = [tapped EXCEPT ![d] = @ + 1]
        /\ IF pingLog[d] >= PingLimit
           THEN banked' = [banked EXCEPT ![d] = @ + 1] /\ pingLog' = pingLog
           ELSE pingLog' = [pingLog EXCEPT ![d] = @ + 1] /\ banked' = banked
    BY <1>1, <2>1 DEF tapPing, UsedOn
  <2>3. pingLog' \in [D -> Nat] /\ banked' \in [D -> Nat] /\ tapped' \in [D -> Nat]
    BY <2>0, <2>2, OneMore
  <2>4. ASSUME NEW k \in D
        PROVE  /\ pingLog'[k] = IF tapped'[k] < PingLimit THEN tapped'[k] ELSE PingLimit
               /\ pingLog'[k] + banked'[k] = tapped'[k]
    <3>1. /\ pingLog[k] \in Nat /\ banked[k] \in Nat /\ tapped[k] \in Nat
          /\ pingLog[k] = IF tapped[k] < PingLimit THEN tapped[k] ELSE PingLimit
          /\ pingLog[k] + banked[k] = tapped[k]
      BY <2>0
    <3>2. CASE k = d
      <4>1. /\ tapped'[k] = tapped[k] + 1
            /\ pingLog[k] >= PingLimit => banked'[k] = banked[k] + 1 /\ pingLog'[k] = pingLog[k]
            /\ ~(pingLog[k] >= PingLimit) => pingLog'[k] = pingLog[k] + 1 /\ banked'[k] = banked[k]
        BY <2>0, <2>2, <3>2
      <4> QED
        BY <3>1, <4>1, CircleAssumption
    <3>3. CASE k # d
      <4>1. tapped'[k] = tapped[k] /\ pingLog'[k] = pingLog[k] /\ banked'[k] = banked[k]
        BY <2>0, <2>2, <3>3
      <4> QED
        BY <3>1, <4>1
    <3> QED
      BY <3>2, <3>3
  <2> QED
    BY <2>1, <2>3, <2>4 DEF PingInv, EveryTapReaches
<1>2. CASE DateMoves \/ UNCHANGED pingVars
  BY <1>2 DEF DateMoves, pingVars, PingInv, EveryTapReaches
<1> QED
  BY <1>1, <1>2 DEF PingsNext

\* guardian/pending.ts, nextSolo: who is not older than the one whose turn it is has had
\* one more than who is.
GroupInv ==
  /\ turns \in [Sibling -> Nat]
  /\ soloTurn \in Sibling \cup {NoTurn} \/ Sibling = {}
  /\ \A a, b \in Sibling : a < b => turns[a] - turns[b] = IF a <= soloTurn /\ soloTurn < b THEN 1 ELSE 0

LEMMA GroupInvInit == CircleInit => GroupInv
BY CircleAssumption DEF CircleInit, GroupInv, Sibling, NoTurn

LEMMA GroupInvFair == GroupInv => TurnsComeRound
BY DEF GroupInv, TurnsComeRound

LEMMA GroupInvNext == GroupInv /\ (GroupNext \/ UNCHANGED groupVars) => GroupInv'
<1> SUFFICES ASSUME GroupInv, GroupNext \/ UNCHANGED groupVars PROVE GroupInv'
  OBVIOUS
<1>1. CASE UNCHANGED groupVars
  BY <1>1 DEF groupVars, GroupInv
<1>2. CASE GroupNext
  <2>1. soloTurn' = nextSolo /\ turns' = [a \in Sibling |-> IF a = soloTurn' THEN turns[a] + 1 ELSE turns[a]]
    BY <1>2 DEF GroupNext, SoloTurnPasses
  <2>2. PICK n : n = soloTurn'
    OBVIOUS
  <2>3. CASE Sibling = {}
    BY <2>1, <2>3 DEF GroupInv
  <2>4. CASE Sibling # {}
    <3>1. /\ Sibling \subseteq Nat /\ Youngest \in Nat /\ Eldest \in Nat /\ NoTurn = Eldest + 1
          /\ \A a \in Sibling : Youngest <= a /\ a <= Eldest /\ turns[a] \in Nat
          /\ Youngest \in Sibling /\ soloTurn \in Sibling \cup {NoTurn}
      BY <2>4, CircleAssumption DEF GroupInv, Sibling, NoTurn
    <3>2. /\ n = IF soloTurn = NoTurn THEN Youngest ELSE IF soloTurn = Eldest THEN NoTurn ELSE soloTurn + 1
          /\ n \in Sibling \cup {NoTurn}
      BY <2>1, <2>2, <3>1 DEF nextSolo, Sibling
    <3>3. ASSUME NEW a \in Sibling, NEW b \in Sibling, a < b
          PROVE  turns'[a] - turns'[b] = IF a <= n /\ n < b THEN 1 ELSE 0
      <4>1. /\ turns'[a] = (IF a = n THEN turns[a] + 1 ELSE turns[a])
            /\ turns'[b] = (IF b = n THEN turns[b] + 1 ELSE turns[b])
        BY <2>1, <2>2
      <4>2. turns[a] - turns[b] = IF a <= soloTurn /\ soloTurn < b THEN 1 ELSE 0
        BY <3>3 DEF GroupInv
      <4>3. /\ a \in Nat /\ b \in Nat /\ Youngest <= a /\ a <= Eldest /\ Youngest <= b /\ b <= Eldest
            /\ turns[a] \in Nat /\ turns[b] \in Nat
        BY <3>1
      <4>4. CASE soloTurn = NoTurn
        BY <3>1, <3>2, <3>3, <4>1, <4>2, <4>3, <4>4
      <4>5. CASE soloTurn = Eldest
        BY <3>1, <3>2, <3>3, <4>1, <4>2, <4>3, <4>5
      <4>6. CASE soloTurn # NoTurn /\ soloTurn # Eldest
        BY <3>1, <3>2, <3>3, <4>1, <4>2, <4>3, <4>6
      <4> QED
        BY <4>4, <4>5, <4>6
    <3>4. turns' \in [Sibling -> Nat]
      BY <2>1, <3>1
    <3> QED
      BY <2>2, <3>2, <3>3, <3>4 DEF GroupInv
  <2> QED
    BY <2>3, <2>4
<1> QED
  BY <1>1, <1>2

\* rungs.ts, publishWindow: what she publishes leaves no minute two answers.
GrowingInv ==
  /\ age \in Nat
  /\ \A x, y \in grants : x.grant = y.grant => x = y
  /\ \A w \in windows : w.startMinute \in Nat /\ w.endMinute \in Nat /\ w.startMinute < w.endMinute
  /\ \A w, x \in windows : w # x => ~Clashes(w, x)
  /\ windows # {} => holds("publish_availability")
  /\ RemainingIsTrue

LEMMA GrowingInvInit == GrowingInit => GrowingInv
<1> SUFFICES ASSUME GrowingInit PROVE GrowingInv
  OBVIOUS
<1>1. Kid \ closedFor = Kid
  BY DEF GrowingInit
<1>2. RemainingIsTrue
  BY <1>1 DEF GrowingInit, RemainingIsTrue
<1> QED
  BY <1>2, GrowingAssumption DEF GrowingInit, GrowingInv

LEMMA GrowingInvAnswers == GrowingInv => OneAnswerAMinute /\ RemainingIsTrue
<1> SUFFICES ASSUME GrowingInv PROVE OneAnswerAMinute
  BY DEF GrowingInv
<1>1. ASSUME NEW w \in windows, NEW x \in windows, NEW m \in Nat,
             m >= w.startMinute, m < w.endMinute, m >= x.startMinute, m < x.endMinute
      PROVE  w = x
  <2>1. Clashes(w, x)
    BY <1>1 DEF GrowingInv, Clashes
  <2> QED
    BY <2>1 DEF GrowingInv
<1>2. ASSUME NEW m \in 0..SlotMinutes - 1, NEW s \in Published(m), NEW t \in Published(m)
      PROVE  s = t
  <2>1. PICK w \in windows : m >= w.startMinute /\ m < w.endMinute /\ s = w.state
    BY <1>2 DEF Published
  <2>2. PICK x \in windows : m >= x.startMinute /\ m < x.endMinute /\ t = x.state
    BY <1>2 DEF Published
  <2>3. m \in Nat
    BY GrowingAssumption
  <2> QED
    BY <1>1, <2>1, <2>2, <2>3
<1>3. ASSUME NEW w \in windows, NEW x \in windows, w.startMinute = x.startMinute
      PROVE  w = x
  <2>1. Clashes(w, x)
    BY <1>3 DEF GrowingInv, Clashes
  <2> QED
    BY <2>1 DEF GrowingInv
<1> QED
  BY <1>2, <1>3 DEF OneAnswerAMinute, GrowingInv

\* maturation.ts, QUIETING: each scaffold has one age.
LEMMA FadedFrom ==
  ASSUME NEW a \in Nat
  PROVE  /\ surfacesAt(a).faded \subseteq surfacesAt(a + 1).faded
         /\ surfacesAt(a + 1).faded \cap surfacesAt(a + 1).showing = {}
         /\ sendGuardApplies("A", a + 1) => sendGuardApplies("A", a)
<1>1. PICK Feature, q : q \in [Feature -> Nat] /\ Feature = DOMAIN QUIETING /\ q = QUIETING
  <2>1. \A f \in DOMAIN QUIETING : QUIETING[f] \in Nat
    BY DEF QUIETING
  <2>2. QUIETING = [f \in DOMAIN QUIETING |-> QUIETING[f]]
    BY DEF QUIETING
  <2> QED
    BY <2>1, <2>2
<1>2. \A n : /\ surfacesAt(n).faded = {f \in Feature : n >= q[f]}
             /\ surfacesAt(n).showing = {f \in Feature : n < q[f]}
             /\ sendGuardApplies("A", n) <=> "send_time_guard_child_side" \in {f \in Feature : n < q[f]}
  BY <1>1 DEF surfacesAt, scaffoldsAt, sendGuardApplies
<1>3. \A f \in Feature : q[f] \in Nat
  BY <1>1
<1> QED
  BY <1>2, <1>3

LEMMA GrowingStep ==
  GrowingInv /\ (GrowingNext \/ UNCHANGED growingVars) => GrowingInv' /\ GrantsOnlyGrow /\ FadedStaysFaded
<1> SUFFICES ASSUME GrowingInv, GrowingNext \/ UNCHANGED growingVars
             PROVE  /\ GrowingInv'
                    /\ grants \subseteq grants'
                    /\ age' \in {age, age + 1}
  <2>1. ASSUME GrowingInv, age' \in {age, age + 1} PROVE FadedStaysFaded
    <3>1. PICK b : b = age'
      OBVIOUS
    <3>2. CASE b = age
      BY <3>1, <3>2 DEF FadedStaysFaded, growingVars
    <3>3. CASE b = age + 1
      <4>1. /\ surfacesAt(age).faded \subseteq surfacesAt(b).faded
            /\ surfacesAt(b).faded \cap surfacesAt(b).showing = {}
            /\ sendGuardApplies("A", b) => sendGuardApplies("A", age)
        <5>1. age \in Nat
          BY <2>1 DEF GrowingInv
        <5>2. /\ surfacesAt(age).faded \subseteq surfacesAt(age + 1).faded
              /\ surfacesAt(age + 1).faded \cap surfacesAt(age + 1).showing = {}
              /\ sendGuardApplies("A", age + 1) => sendGuardApplies("A", age)
          BY <5>1, FadedFrom, Zenon
        <5> QED
          BY <3>3, <5>2, Zenon
      <4>2. /\ surfacesAt(b) = surfacesAt(age)'
            /\ sendGuardApplies("A", b) <=> sendGuardApplies("A", age)'
        BY <3>1, Zenon DEF surfacesAt, scaffoldsAt, sendGuardApplies
      <4>3. /\ surfacesAt(age).faded \subseteq surfacesAt(age').faded
            /\ surfacesAt(age').faded \cap surfacesAt(age').showing = {}
            /\ sendGuardApplies("A", age') => sendGuardApplies("A", age)
        BY <3>1, <4>1, Zenon
      <4> QED
        BY <4>3, Zenon DEF FadedStaysFaded
    <3> QED
      BY <2>1, <3>1, <3>2, <3>3
  <2> QED
    BY <2>1, Zenon DEF GrantsOnlyGrow, GrowingInv
<1>1. ASSUME Birthday PROVE GrowingInv' /\ grants \subseteq grants' /\ age' \in {age, age + 1}
  BY <1>1 DEF Birthday, GrowingInv, holds, RemainingIsTrue
<1>2. ASSUME recordGrants PROVE GrowingInv' /\ grants \subseteq grants' /\ age' \in {age, age + 1}
  <2>1. /\ grants' = Recorded /\ UNCHANGED <<age, windows, closedFor, remainingSaid>>
    BY <1>2 DEF recordGrants
  <2>2. \A x, y \in Recorded : x.grant = y.grant => x = y
    <3>1. \A x \in Recorded : x \in grants \/ \E h \in Grant : ~holds(h) /\ x = [grant |-> h, age |-> age]
      BY DEF Recorded
    <3> QED
      BY <3>1 DEF GrowingInv, holds
  <2>3. grants \subseteq Recorded
    BY DEF Recorded
  <2>4. windows' # {} => holds("publish_availability")'
    BY <2>1, <2>3 DEF GrowingInv, holds
  <2> QED
    BY <2>1, <2>2, <2>3, <2>4 DEF GrowingInv, RemainingIsTrue
<1>3. ASSUME NEW w \in Window, publishWindow(w)
      PROVE  GrowingInv' /\ grants \subseteq grants' /\ age' \in {age, age + 1}
  <2>1. /\ holds("publish_availability") /\ w.startMinute < w.endMinute
        /\ \A x \in windows : ~Clashes(w, x)
        /\ windows' = windows \cup {w} /\ UNCHANGED <<age, grants, closedFor, remainingSaid>>
    BY <1>3 DEF publishWindow
  <2>2. w.startMinute \in Nat /\ w.endMinute \in Nat
    BY GrowingAssumption DEF Window
  <2>3. \A x \in windows : ~Clashes(x, w)
    BY <2>1 DEF Clashes
  <2> QED
    BY <2>1, <2>2, <2>3 DEF GrowingInv, holds, RemainingIsTrue
<1>4. ASSUME NEW w \in Window, unpublishWindow(w)
      PROVE  GrowingInv' /\ grants \subseteq grants' /\ age' \in {age, age + 1}
  BY <1>4 DEF unpublishWindow, GrowingInv, holds, RemainingIsTrue
<1>5. ASSUME NEW kid \in Kid, closeFor(kid)
      PROVE  GrowingInv' /\ grants \subseteq grants' /\ age' \in {age, age + 1}
  <2>1. closedFor' = closedFor \cup {kid} /\ remainingSaid' = RemainingAfter(kid) /\ UNCHANGED <<age, grants, windows>>
    BY <1>5 DEF closeFor
  <2>2. RemainingIsTrue'
    BY <2>1 DEF RemainingIsTrue, RemainingAfter
  <2> QED
    BY <2>1, <2>2 DEF GrowingInv, holds
<1>6. ASSUME UNCHANGED <<age, grants, windows, closedFor, remainingSaid>>
      PROVE  GrowingInv' /\ grants \subseteq grants' /\ age' \in {age, age + 1}
  BY <1>6 DEF GrowingInv, holds, RemainingIsTrue
<1>7. CASE UNCHANGED growingVars
  BY <1>6, <1>7 DEF growingVars
<1>8. CASE GrowingNext
  BY <1>1, <1>2, <1>3, <1>4, <1>5, <1>6, <1>8 DEF GrowingNext, adjustRung
<1> QED
  BY <1>7, <1>8

\* rungs.ts and exchange.ts: the flags of the archive are her own last words.
ArrangedInv ==
  /\ archive \in [Item -> [hidden : BOOLEAN, era : Era \cup {NoEra}, byGuardian : Caption \cup {NoCaption},
                            byChild : Caption \cup {NoCaption}]]
  /\ wrote \in [Item -> Caption \cup {NoCaption}]
  /\ \A id \in Item : (archive[id].hidden <=> id \in putAway) /\ archive[id].byChild = wrote[id]
  /\ hungAway \subseteq MadeAt /\ hungAway = putAway \cap MadeAt

LEMMA ArrangedInvInit == KeepsakesInit => ArrangedInv
<1> SUFFICES ASSUME KeepsakesInit PROVE ArrangedInv
  OBVIOUS
<1>1. /\ archive \in [Item -> [hidden : {FALSE}, era : {NoEra}, byGuardian : Caption \cup {NoCaption},
                            byChild : {NoCaption}]]
      /\ hungAway \subseteq MadeAt /\ putAway = hungAway /\ wrote = [k \in Item |-> NoCaption]
  BY DEF KeepsakesInit
<1>2. ASSUME NEW id \in Item
      PROVE  /\ archive[id] \in [hidden : BOOLEAN, era : Era \cup {NoEra}, byGuardian : Caption \cup {NoCaption},
                                 byChild : Caption \cup {NoCaption}]
             /\ ~archive[id].hidden /\ archive[id].byChild = NoCaption /\ id \notin putAway
  <2>1. archive[id] \in [hidden : {FALSE}, era : {NoEra}, byGuardian : Caption \cup {NoCaption}, byChild : {NoCaption}]
    BY <1>1
  <2>2. id \notin MadeAt
    BY KeepsakesAssumption
  <2> QED
    BY <1>1, <2>1, <2>2
<1>3. archive \in [Item -> [hidden : BOOLEAN, era : Era \cup {NoEra}, byGuardian : Caption \cup {NoCaption},
                            byChild : Caption \cup {NoCaption}]]
  BY <1>1, <1>2
<1> QED
  BY <1>1, <1>2, <1>3 DEF ArrangedInv

LEMMA ArrangedInvHers == ArrangedInv => HersToArrange
<1> SUFFICES ASSUME ArrangedInv PROVE HersToArrange
  OBVIOUS
<1>1. archiveView("guardian") = Item \ putAway /\ archiveView("child") = Item
  BY DEF archiveView, ArrangedInv
<1> QED
  BY <1>1 DEF HersToArrange, ArrangedInv, displayCaption

LEMMA GivenIs == (\A old : Given({}, old) = old) /\ (\A v, old : Given({v}, old) = v)
BY DEF Given

LEMMA ArrangedInvNext == ArrangedInv /\ (ArchiveKept \/ UNCHANGED archiveVars) => ArrangedInv'
<1> SUFFICES ASSUME ArrangedInv, ArchiveKept \/ UNCHANGED archiveVars PROVE ArrangedInv'
  OBVIOUS
<1>1. ASSUME NEW actor \in {"child", "guardian"}, NEW id \in Item, NEW change \in Change, curate(id, actor, change)
      PROVE  ArrangedInv'
  <2>1. /\ actor = "child" /\ UNCHANGED hungAway
        /\ archive' = [archive EXCEPT ![id].hidden = Given(change.hidden, @), ![id].era = Given(change.era, @),
                                      ![id].byChild = Given(change.caption, @)]
        /\ putAway' = IF change.hidden = {} THEN putAway
                      ELSE IF TRUE \in change.hidden THEN putAway \cup {id} ELSE putAway \ {id}
        /\ wrote' = [wrote EXCEPT ![id] = Given(change.caption, @)]
    BY <1>1 DEF curate, MayCurate
  <2>2. /\ change.hidden = {} \/ \E h \in BOOLEAN : change.hidden = {h}
        /\ change.era = {} \/ \E e \in Era \cup {NoEra} : change.era = {e}
        /\ change.caption = {} \/ \E n \in Caption : change.caption = {n}
    BY DEF Change, Same
  <2>3. PICK h, e, n : h = Given(change.hidden, archive[id].hidden) /\ e = Given(change.era, archive[id].era)
                       /\ n = Given(change.caption, archive[id].byChild)
    OBVIOUS
  <2>4. archive[id] \in [hidden : BOOLEAN, era : Era \cup {NoEra}, byGuardian : Caption \cup {NoCaption},
                         byChild : Caption \cup {NoCaption}]
    BY DEF ArrangedInv
  <2>5. h \in BOOLEAN /\ e \in Era \cup {NoEra} /\ n \in Caption \cup {NoCaption}
    <3>1. /\ archive[id].hidden \in BOOLEAN /\ archive[id].era \in Era \cup {NoEra}
          /\ archive[id].byChild \in Caption \cup {NoCaption}
      BY <2>4
    <3>2. h = archive[id].hidden \/ \E v \in BOOLEAN : h = v
      BY <2>2, <2>3, GivenIs
    <3>3. e = archive[id].era \/ \E v \in Era \cup {NoEra} : e = v
      <4>1. CASE change.era = {}
        BY <2>3, <4>1, GivenIs, Zenon
      <4>2. ASSUME NEW v \in Era \cup {NoEra}, change.era = {v} PROVE e = v
        BY <2>3, <4>2, GivenIs, Zenon
      <4> QED
        BY <2>2, <4>1, <4>2
    <3>4. n = archive[id].byChild \/ \E v \in Caption : n = v
      <4>1. CASE change.caption = {}
        BY <2>3, <4>1, GivenIs, Zenon
      <4>2. ASSUME NEW v \in Caption, change.caption = {v} PROVE n = v
        BY <2>3, <4>2, GivenIs, Zenon
      <4> QED
        BY <2>2, <4>1, <4>2
    <3>5. h \in BOOLEAN
      BY <3>1, <3>2, Zenon
    <3> QED
      BY <3>1, <3>3, <3>4, <3>5
  <2>6. /\ archive'[id] = [archive[id] EXCEPT !.hidden = h, !.era = e, !.byChild = n]
        /\ \A k \in Item : k # id => archive'[k] = archive[k]
        /\ archive' \in [Item -> [hidden : BOOLEAN, era : Era \cup {NoEra}, byGuardian : Caption \cup {NoCaption},
                            byChild : Caption \cup {NoCaption}]]
    <3>1. PICK r : r = [archive[id] EXCEPT !.hidden = h, !.era = e, !.byChild = n]
      OBVIOUS
    <3>2. archive' = [archive EXCEPT ![id] = r]
      <4>1. archive' = [archive EXCEPT ![id].hidden = h, ![id].era = e, ![id].byChild = n]
        BY <2>1, <2>3
      <4> QED
        BY <3>1, <4>1 DEF ArrangedInv
    <3>3. r \in [hidden : BOOLEAN, era : Era \cup {NoEra}, byGuardian : Caption \cup {NoCaption},
                 byChild : Caption \cup {NoCaption}]
      BY <2>4, <2>5, <3>1
    <3> QED
      BY <3>1, <3>2, <3>3 DEF ArrangedInv
  <2>7. archive'[id].hidden = h /\ archive'[id].byChild = n
    BY <2>4, <2>6
  <2>8. h <=> id \in putAway'
    <3>1. archive[id].hidden <=> id \in putAway
      BY DEF ArrangedInv
    <3>2. CASE change.hidden = {}
      BY <2>1, <2>3, <3>1, <3>2, GivenIs
    <3>3. CASE change.hidden = {TRUE}
      BY <2>1, <2>3, <3>3, GivenIs
    <3>4. CASE change.hidden = {FALSE}
      BY <2>1, <2>3, <3>4, GivenIs
    <3> QED
      BY <2>2, <3>2, <3>3, <3>4
  <2>9. \A k : k # id => (k \in putAway' <=> k \in putAway)
    BY <2>1
  <2>10. /\ wrote' \in [Item -> Caption \cup {NoCaption}] /\ wrote'[id] = n
         /\ \A k \in Item : k # id => wrote'[k] = wrote[k]
    <3>1. archive[id].byChild = wrote[id]
      BY DEF ArrangedInv
    <3>2. wrote' = [wrote EXCEPT ![id] = n]
      BY <2>1, <2>3, <3>1
    <3> QED
      BY <2>5, <3>2 DEF ArrangedInv
  <2>11. id \notin MadeAt
    BY KeepsakesAssumption
  <2>12. ASSUME NEW k \in Item
         PROVE  (archive'[k].hidden <=> k \in putAway') /\ archive'[k].byChild = wrote'[k]
    <3>1. CASE k = id
      BY <2>7, <2>8, <2>10, <3>1
    <3>2. CASE k # id
      <4>1. archive'[k] = archive[k] /\ wrote'[k] = wrote[k] /\ (k \in putAway' <=> k \in putAway)
        BY <2>6, <2>9, <2>10, <3>2
      <4>2. (archive[k].hidden <=> k \in putAway) /\ archive[k].byChild = wrote[k]
        BY DEF ArrangedInv
      <4> QED
        BY <4>1, <4>2
    <3> QED
      BY <3>1, <3>2
  <2>13. hungAway' \subseteq MadeAt /\ hungAway' = putAway' \cap MadeAt
    BY <2>1, <2>9, <2>11 DEF ArrangedInv
  <2> QED
    BY <2>6, <2>10, <2>12, <2>13, Zenon DEF ArrangedInv
<1>2. ASSUME NEW actor \in {"child", "guardian"}, NEW w \in MadeAt, NEW hidden \in BOOLEAN, hideWork(w, actor, hidden)
      PROVE  ArrangedInv'
  <2>1. /\ actor = "child" /\ UNCHANGED <<archive, wrote>>
        /\ hungAway' = IF hidden THEN hungAway \cup {w} ELSE hungAway \ {w}
        /\ putAway' = IF hidden THEN putAway \cup {w} ELSE putAway \ {w}
    BY <1>2 DEF hideWork, MayCurate
  <2>2. w \notin Item
    BY KeepsakesAssumption
  <2>3. \A id \in Item : id \in putAway' <=> id \in putAway
    BY <2>1, <2>2
  <2>4. hungAway' \subseteq MadeAt /\ hungAway' = putAway' \cap MadeAt
    BY <2>1 DEF ArrangedInv
  <2> QED
    BY <2>1, <2>3, <2>4 DEF ArrangedInv
<1>3. CASE UNCHANGED archiveVars
  BY <1>3 DEF archiveVars, ArrangedInv
<1>4. CASE ArchiveKept
  BY <1>1, <1>2, <1>4 DEF ArchiveKept
<1> QED
  BY <1>3, <1>4

\* onboarding.ts, WhoStep: somebody is selected wherever there is somebody.
Asks(w) ==
  /\ w.selected \subseteq joined
  /\ w.kind # "nobody_yet" => w.selected # {}
  /\ w = [kind |-> w.kind, selected |-> w.selected]

WhoInv ==
  /\ ob = [step |-> ob.step, name |-> ob.name, age |-> ob.age, who |-> ob.who]
  /\ passedOn = [age |-> passedOn.age, who |-> passedOn.who]
  /\ passedOn.who \subseteq joined
  /\ passedOn.who # {} => Asks(whoScreen)
  /\ whoScreen # Skipped => Asks(whoScreen)
  /\ ob.who # Skipped => Asks(ob.who)

LEMMA WhoInvInit == FirstRunInit => WhoInv
BY DEF FirstRunInit, WhoInv, begin

LEMMA WhoInvTalks == WhoInv => NeverNobody
<1> SUFFICES ASSUME WhoInv, ob.who # Skipped
             PROVE  /\ outcome(ob).talkingTo \subseteq joined
                    /\ outcome(ob).talkingTo = {} => ob.who.kind = "nobody_yet"
  BY DEF NeverNobody
<1>1. Asks(ob.who)
  BY DEF WhoInv
<1>2. outcome(ob).talkingTo = IF ob.who.kind = "nobody_yet" THEN {} ELSE ob.who.selected
  BY DEF outcome
<1> QED
  BY <1>1, <1>2 DEF Asks

LEMMA WhoIsAsked == Asks(whoStep(joined))
<1>1. joined = {} => whoStep(joined).kind = "nobody_yet"
  BY DEF whoStep
<1>2. /\ whoStep(joined).selected = joined
      /\ whoStep(joined) = [kind |-> whoStep(joined).kind, selected |-> joined]
  BY DEF whoStep
<1> QED
  BY <1>1, <1>2 DEF Asks

LEMMA ToggledAsks == ASSUME NEW g \in joined, Asks(whoScreen) PROVE Asks(toggleWho(whoScreen, g))
<1>1. PICK k, s : whoScreen = [kind |-> k, selected |-> s]
  BY DEF Asks
<1>2. s \subseteq joined /\ (k # "nobody_yet" => s # {})
  BY <1>1 DEF Asks
<1>3. PICK next : next = IF g \in s THEN s \ {g} ELSE s \cup {g}
  OBVIOUS
<1>4. next \subseteq joined
  BY <1>2, <1>3
<1>5. toggleWho(whoScreen, g) = IF k # "choose" \/ next = {} THEN whoScreen ELSE [kind |-> k, selected |-> next]
  BY <1>1, <1>3 DEF toggleWho
<1> QED
  BY <1>4, <1>5 DEF Asks

LEMMA WhoInvNext == WhoInv /\ (OnboardingNext \/ UNCHANGED firstVars) => WhoInv'
<1> SUFFICES ASSUME WhoInv, OnboardingNext \/ UNCHANGED firstVars PROVE WhoInv'
  OBVIOUS
<1>1. CASE /\ ob' = [step |-> ob'.step, name |-> ob'.name, age |-> ob'.age, who |-> ob'.who] /\ ob'.who = ob.who
           /\ passedOn' = [age |-> passedOn'.age, who |-> passedOn'.who] /\ passedOn'.who = passedOn.who
           /\ UNCHANGED <<joined, whoScreen>>
  BY <1>1 DEF WhoInv, Asks
<1>2. ASSUME NEW ch, obType(ch) PROVE WhoInv'
  BY <1>1, <1>2 DEF obType, WhoInv
<1>3. CASE NameNext \/ ColourNextStep
  BY <1>1, <1>3 DEF NameNext, ColourNextStep, WhoInv
<1>4. ASSUME NEW t, AgeNext(t) PROVE WhoInv'
  BY <1>1, <1>4 DEF AgeNext, WhoInv
<1>5. ASSUME UNCHANGED joined, whoScreen' = whoStep(joined), passedOn' = [passedOn EXCEPT !.who = joined],
             ob' = [ob EXCEPT !.step = ob'.step]
      PROVE  WhoInv'
  <2>1. PICK m, b : m = whoStep(joined) /\ b = ob'.step
    OBVIOUS
  <2>2. Asks(m)
    BY <2>1, WhoIsAsked
  <2>3. whoScreen' = m /\ ob' = [ob EXCEPT !.step = b] /\ passedOn' = [age |-> passedOn.age, who |-> joined]
    BY <1>5, <2>1 DEF WhoInv
  <2> QED
    BY <1>5, <2>2, <2>3 DEF WhoInv, Asks
<1>6. CASE BirthdayNextStep
  <2>1. /\ whoScreen' = whoStep(joined) /\ passedOn' = [passedOn EXCEPT !.who = joined]
        /\ ob' = [ob EXCEPT !.step = "who"] /\ joined' = joined
    BY <1>6 DEF BirthdayNextStep
  <2>2. ob'.step = "who"
    BY <2>1 DEF WhoInv
  <2> QED
    BY <1>5, <2>1, <2>2
<1>7. CASE obBack
  <2>1. PICK b : ob' = [ob EXCEPT !.step = b] /\ UNCHANGED joined
    BY <1>7 DEF obBack
  <2>2. ob'.step = b /\ ob'.who = ob.who
        /\ ob' = [step |-> ob'.step, name |-> ob'.name, age |-> ob'.age, who |-> ob'.who]
    BY <2>1 DEF WhoInv
  <2>3. CASE ob.step = "done"
    BY <1>5, <1>7, <2>1, <2>2, <2>3 DEF obBack
  <2>4. CASE ob.step # "done"
    BY <1>1, <1>7, <2>1, <2>2, <2>4 DEF obBack, WhoInv
  <2> QED
    BY <2>3, <2>4
<1>8. ASSUME NEW g, toggle(g) PROVE WhoInv'
  <2>1. /\ g \in joined /\ Asks(whoScreen) /\ whoScreen' = toggleWho(whoScreen, g)
        /\ UNCHANGED <<ob, joined, passedOn>>
    BY <1>8 DEF toggle, WhoInv
  <2>2. PICK w : w = toggleWho(whoScreen, g)
    OBVIOUS
  <2>3. Asks(w) /\ whoScreen' = w
    BY <2>1, <2>2, ToggledAsks
  <2> QED
    BY <2>1, <2>3 DEF WhoInv, Asks
<1>9. CASE WhoNext
  <2>1. ob' = [ob EXCEPT !.step = "done", !.who = whoScreen] /\ UNCHANGED <<joined, whoScreen, passedOn>>
    BY <1>9 DEF WhoNext
  <2>2. ob' = [step |-> ob'.step, name |-> ob'.name, age |-> ob'.age, who |-> ob'.who] /\ ob'.who = whoScreen
    BY <2>1 DEF WhoInv
  <2> QED
    BY <2>1, <2>2 DEF WhoInv, Asks
<1>10. ASSUME NEW g, Accepted(g) PROVE WhoInv'
  BY <1>10 DEF Accepted, WhoInv, Asks
<1>11. CASE UNCHANGED firstVars
  BY <1>11 DEF firstVars, WhoInv, Asks
<1>12. CASE OnboardingNext
  BY <1>2, <1>3, <1>4, <1>6, <1>7, <1>8, <1>9, <1>10, <1>12 DEF OnboardingNext
<1> QED
  BY <1>11, <1>12

-----------------------------------------------------------------------------
(* Her days, among the other rules. *)

DaysInv ==
  SignalInv /\ PingInv /\ GroupInv /\ GrowingInv /\ ArrangedInv /\ WhoInv

LEMMA DaysInvInit == RulesInit => DaysInv
<1> SUFFICES ASSUME RulesInit PROVE DaysInv
  OBVIOUS
<1>1. SignalInv
  <2>1. SignalInit
    BY Zenon DEF RulesInit
  <2> QED
    BY <2>1, SignalInvInit
<1>2. PingInv /\ GroupInv
  <2>1. CircleInit
    BY Zenon DEF RulesInit
  <2> QED
    BY <2>1, PingInvInit, GroupInvInit
<1>3. GrowingInv
  <2>1. GrowingInit
    BY Zenon DEF RulesInit
  <2> QED
    BY <2>1, GrowingInvInit
<1>4. ArrangedInv
  <2>1. KeepsakesInit
    BY Zenon DEF RulesInit
  <2> QED
    BY <2>1, ArrangedInvInit
<1>5. WhoInv
  <2>1. FirstRunInit
    BY Zenon DEF RulesInit
  <2> QED
    BY <2>1, WhoInvInit
<1> QED
  BY <1>1, <1>2, <1>3, <1>4, <1>5, Zenon DEF DaysInv

\* What StepOfThePart is to the lock and the others, of her days.
LEMMA StepOfTheDays ==
  ASSUME [RulesNext]_allVars
  PROVE  /\ SignalNext \/ UNCHANGED signalVars
         /\ PingsNext \/ UNCHANGED pingVars
         /\ GroupNext \/ UNCHANGED groupVars
         /\ GrowingNext \/ UNCHANGED growingVars
         /\ ArchiveKept \/ UNCHANGED archiveVars
         /\ OnboardingNext \/ UNCHANGED firstVars
<1>1. CASE RulesNext
  <2>1. /\ SignalNext \/ UNCHANGED signalVars
        /\ PingsNext \/ UNCHANGED pingVars
        /\ GroupNext \/ UNCHANGED groupVars
        /\ GrowingNext \/ UNCHANGED growingVars
        /\ ArchiveKept \/ UNCHANGED archiveVars
    BY <1>1, Zenon DEF RulesNext
  <2>2. FirstRunNext \/ UNCHANGED firstRunVars
    BY <1>1, Zenon DEF RulesNext
  <2>3. OnboardingNext \/ UNCHANGED firstVars
    <3>1. CASE UNCHANGED firstRunVars
      BY <3>1 DEF firstRunVars
    <3>2. ASSUME \E t \in Days : Midnight(t) PROVE UNCHANGED firstVars
      BY <3>2, Zenon DEF Midnight
    <3>3. CASE FirstRunNext
      BY <3>2, <3>3, Zenon DEF FirstRunNext
    <3> QED
      BY <2>2, <3>1, <3>3
  <2> QED
    BY <2>1, <2>3
<1>2. CASE UNCHANGED allVars
  <2>1. UNCHANGED <<signalVars, circleVars, growingVars, keepVars, firstRunVars>>
    BY <1>2 DEF allVars
  <2>2. UNCHANGED pingVars /\ UNCHANGED groupVars
    BY <2>1 DEF circleVars
  <2>3. UNCHANGED archiveVars
    BY <2>1 DEF keepVars
  <2>4. UNCHANGED firstVars
    BY <2>1 DEF firstRunVars
  <2> QED
    BY <2>1, <2>2, <2>3, <2>4
<1> QED
  BY <1>1, <1>2

LEMMA DaysInvNext ==
  DaysInv /\ [RulesNext]_allVars => DaysInv' /\ GrantsOnlyGrow /\ FadedStaysFaded /\ QuietIsQuiet
<1> SUFFICES ASSUME DaysInv, [RulesNext]_allVars
             PROVE  DaysInv' /\ GrantsOnlyGrow /\ FadedStaysFaded /\ QuietIsQuiet
  OBVIOUS
<1>1. SignalInv /\ PingInv /\ GroupInv /\ GrowingInv /\ ArrangedInv /\ WhoInv
  BY Zenon DEF DaysInv
<1>2. SignalInv' /\ QuietIsQuiet
  BY <1>1, StepOfTheDays, SignalStep
<1>3. GrowingInv' /\ GrantsOnlyGrow /\ FadedStaysFaded
  BY <1>1, StepOfTheDays, GrowingStep
<1>4. PingInv' /\ GroupInv'
  BY <1>1, StepOfTheDays, PingInvNext, GroupInvNext
<1>5. ArrangedInv' /\ WhoInv'
  BY <1>1, StepOfTheDays, ArrangedInvNext, WhoInvNext
<1> QED
  BY <1>2, <1>3, <1>4, <1>5, Zenon DEF DaysInv

\* The invariant behind what is proved of her days.
THEOREM DaysInvariant == RulesSpec => []DaysInv
BY DaysInvInit, DaysInvNext, PTL DEF RulesSpec

\* signal.ts, agency.ts, guardian/pending.ts, rungs.ts, family.ts, exchange.ts and
\* onboarding.ts: whatever the limits, the catalogue, the children and the parents,
\* she sees no more prompts in a day than the ceiling, every tap reaches a parent or
\* is banked, no child of a group call is two turns ahead, no minute has two published
\* answers, the number said to be left is true, a guardian sees what she left showing
\* and she talks to nobody who had not joined.
THEOREM DaysAreHers ==
  RulesSpec => [](/\ CeilingHolds /\ EveryTapReaches /\ TurnsComeRound
                  /\ OneAnswerAMinute /\ RemainingIsTrue /\ HersToArrange /\ NeverNobody)
<1>1. DaysInv => /\ CeilingHolds /\ EveryTapReaches /\ TurnsComeRound
                 /\ OneAnswerAMinute /\ RemainingIsTrue /\ HersToArrange /\ NeverNobody
  <2> SUFFICES ASSUME DaysInv
               PROVE  /\ CeilingHolds /\ EveryTapReaches /\ TurnsComeRound
                      /\ OneAnswerAMinute /\ RemainingIsTrue /\ HersToArrange /\ NeverNobody
    OBVIOUS
  <2>1. SignalInv /\ PingInv /\ GroupInv /\ GrowingInv /\ ArrangedInv /\ WhoInv
    BY Zenon DEF DaysInv
  <2>2. CeilingHolds /\ EveryTapReaches
    BY <2>1, Zenon DEF SignalInv, PingInv
  <2>3. TurnsComeRound /\ OneAnswerAMinute /\ RemainingIsTrue /\ HersToArrange /\ NeverNobody
    BY <2>1, GroupInvFair, GrowingInvAnswers, ArrangedInvHers, WhoInvTalks
  <2> QED
    BY <2>2, <2>3
<1> QED
  BY <1>1, DaysInvariant, PTL

\* maturation.ts and signal.ts, step by step: a rung reached is never taken back and
\* is recorded once, a scaffold that faded does not come back, and no prompt appears
\* where something blocks her, within the hour she muted or while she acts on one.
THEOREM WhatIsHersStays ==
  RulesSpec => [][GrantsOnlyGrow /\ FadedStaysFaded /\ QuietIsQuiet]_allVars
<1>1. DaysInv /\ [RulesNext]_allVars => [GrantsOnlyGrow /\ FadedStaysFaded /\ QuietIsQuiet]_allVars
  BY DaysInvNext
<1> QED
  BY <1>1, DaysInvariant, PTL DEF RulesSpec
=============================================================================
