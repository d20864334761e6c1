-------------------------------- MODULE Outbox --------------------------------
(***************************************************************************)
(* The offline outbox (packages/offline, client/lib/offline_outbox.dart)   *)
(* as receipt_screen.dart drives it: a recording is uploaded, then sent,   *)
(* and an attempt that got no answer is queued and retried on a timer.     *)
(* Backoff delays are left out: the timer fires some time after it is set. *)
(* So is resolve(), which only compares the two edits it is given.         *)
(***************************************************************************)
EXTENDS Naturals, Sequences

CONSTANTS
  Recording,        \* what she records, each once
  MAX_ATTEMPTS,
  MayLeave,         \* whether she ever leaves the screen
  NoRecording

ASSUME OutboxAssumption ==
  MAX_ATTEMPTS \in Nat \ {0} /\ NoRecording \notin Recording /\ MayLeave \in BOOLEAN

VARIABLES
  outbox,     \* the queued items [id, attempts, keyed]
  attempt,    \* the item _attemptSend is at work on
  timer,      \* the item _retryTimer was armed with
  button,     \* _SendState
  mounted, online,
  made,       \* the recordings made so far, oldest first
  stored,     \* external: how often the server stored the bytes of a recording
  unheard,    \* how many of those uploads went unanswered
  arrived,    \* external: recordings captured as messages
  refused, toldSafe    \* history: what the screen told her

clientVars == <<outbox, attempt, timer, button>>
serverVars == <<stored, unheard, arrived>>
toldVars == <<refused, toldSafe>>
outboxVars == <<clientVars, mounted, online, made, serverVars, toldVars>>

NoItem == [id |-> NoRecording, attempts |-> 0, keyed |-> FALSE]
OutboxItem == [id : Recording, attempts : 0..MAX_ATTEMPTS, keyed : BOOLEAN]

OutboxInit ==
  /\ outbox = {} /\ attempt = NoItem /\ timer = NoItem /\ button = "idle"
  /\ mounted = TRUE /\ online \in BOOLEAN /\ made = <<>>
  /\ stored = [r \in Recording |-> 0] /\ unheard = [r \in Recording |-> 0]
  /\ arrived = {} /\ refused = {} /\ toldSafe = {}

Busy == attempt # NoItem
Age(item) == CHOOSE k \in DOMAIN made : made[k] = item.id

enqueue(box, item) == box \cup {item}
sent(box, item) == {i \in box : i.id # item.id}
recordFailure(box, item) ==
  {IF i.id = item.id THEN [i EXCEPT !.attempts = @ + 1] ELSE i : i \in box}

\* Oldest first among the items with attempts left.
nextToSend(box) ==
  LET eligible == {i \in box : i.attempts < MAX_ATTEMPTS} IN
  IF eligible = {} THEN NoItem
  ELSE CHOOSE i \in eligible : \A j \in eligible : Age(i) <= Age(j)

\* The button is live only when nothing is being sent or waiting.
sendOneBack(r) ==
  /\ mounted /\ ~Busy /\ button \in {"idle", "error"}
  /\ r \notin {made[k] : k \in DOMAIN made}
  /\ made' = Append(made, r)
  /\ attempt' = [id |-> r, attempts |-> 0, keyed |-> FALSE] /\ button' = "busy"
  /\ UNCHANGED <<outbox, timer, mounted, online, serverVars, toldVars>>

UploadAnswered ==
  /\ Busy /\ ~attempt.keyed /\ online
  /\ stored' = [stored EXCEPT ![attempt.id] = @ + 1]
  /\ attempt' = [attempt EXCEPT !.keyed = TRUE]
  /\ UNCHANGED <<outbox, timer, button, mounted, online, made, unheard, arrived, toldVars>>

SendAnswered ==
  /\ Busy /\ attempt.keyed /\ online
  /\ arrived' = arrived \cup {attempt.id}
  /\ attempt' = NoItem
  /\ IF mounted THEN outbox' = sent(outbox, attempt) /\ button' = "sent"
                ELSE UNCHANGED <<outbox, button>>
  /\ UNCHANGED <<timer, mounted, online, made, stored, unheard, toldVars>>

AfterRefusal(item) == sent(outbox, item)

\* The server answered either half with an error.
Refused ==
  /\ Busy /\ online /\ attempt' = NoItem
  /\ IF mounted
     THEN /\ outbox' = AfterRefusal(attempt) /\ button' = "error"
          /\ refused' = refused \cup {attempt.id}
     ELSE UNCHANGED <<outbox, button, refused>>
  /\ UNCHANGED <<timer, mounted, online, made, serverVars, toldSafe>>

\* Mutant: the failure is recorded on the copy already in the outbox.
RequeuedStale(item) ==
  recordFailure(IF \E i \in outbox : i.id = item.id THEN outbox ELSE enqueue(outbox, item), item)

\* The attempt's own copy, with its storage key, takes the place of the queued one.
Requeued(item) == recordFailure(enqueue(sent(outbox, item), item), item)

\* No answer; the request itself may have got through.
Unanswered(reached) ==
  /\ Busy /\ ~online
  /\ IF reached /\ ~attempt.keyed
     THEN /\ stored' = [stored EXCEPT ![attempt.id] = @ + 1]
          /\ unheard' = [unheard EXCEPT ![attempt.id] = @ + 1]
     ELSE UNCHANGED <<stored, unheard>>
  /\ arrived' = IF reached /\ attempt.keyed THEN arrived \cup {attempt.id} ELSE arrived
  /\ attempt' = NoItem
  /\ IF mounted
     THEN /\ outbox' = Requeued(attempt) /\ button' = "retrying"
          /\ timer' = nextToSend(Requeued(attempt))
          /\ toldSafe' = toldSafe \cup {attempt.id}
     ELSE UNCHANGED <<outbox, button, timer, toldSafe>>
  /\ UNCHANGED <<mounted, online, made, refused>>

RetryFires ==
  /\ timer # NoItem /\ mounted
  /\ timer' = NoItem /\ attempt' = timer /\ button' = "busy"
  /\ UNCHANGED <<outbox, mounted, online, made, serverVars, toldVars>>

\* dispose(): the outbox is widget state and goes with it; an attempt under
\* way runs on with nobody to tell.
dispose ==
  /\ MayLeave /\ mounted
  /\ mounted' = FALSE /\ timer' = NoItem /\ outbox' = {}
  /\ UNCHANGED <<attempt, button, online, made, serverVars, toldVars>>

NetChanges == online' = ~online /\ UNCHANGED <<clientVars, mounted, made, serverVars, toldVars>>

Answered == UploadAnswered \/ SendAnswered \/ Refused
OutboxNext ==
  \/ \E r \in Recording : sendOneBack(r)
  \/ UploadAnswered \/ SendAnswered \/ Refused \/ RetryFires \/ dispose \/ NetChanges
  \/ \E reached \in BOOLEAN : Unanswered(reached)

\* Requests end and timers fire; nothing is assumed of the network or of her.
OutboxFairness ==
  /\ WF_outboxVars(RetryFires)
  /\ WF_outboxVars(Answered \/ \E reached \in BOOLEAN : Unanswered(reached))
OutboxSpec == OutboxInit /\ [][OutboxNext]_outboxVars /\ OutboxFairness

-----------------------------------------------------------------------------
(* Properties. *)

\* Values of the variables.  While the screen says "Kept safe" the item is in
\* the outbox, and the timer is set unless its attempts are used up.
OutboxTypeOK ==
  /\ outbox \subseteq OutboxItem /\ attempt \in OutboxItem \cup {NoItem}
  /\ timer \in outbox \cup {NoItem} /\ \A i, j \in outbox : i.id = j.id => i = j
  /\ arrived \subseteq Recording /\ refused \cup toldSafe \subseteq Recording
  /\ button = "retrying" /\ mounted => timer = nextToSend(outbox) /\ outbox # {}

\* receipt_screen.dart, _scheduleRetry: "the item stays queued either way - it is
\* never discarded": what she was told is safe has arrived, was refused, or is
\* still held, as long as she has not left the screen.
NeverDiscarded ==
  mounted => \A r \in toldSafe :
    r \in arrived \cup refused \cup {i.id : i \in outbox} \cup {attempt.id}

\* receipt_screen.dart, _attemptSend: a retry that failed only on the send half
\* does not upload the bytes again; a recording is stored twice only when an
\* upload got through and its answer did not.
StoredOnceHeard == \A r \in Recording : stored[r] <= 1 + unheard[r]

\* receipt_screen.dart, _attemptSend: a recording the server refused is never
\* sent behind her back later, whatever else she records.
RefusedStaysRefused ==
  [\A r \in refused : r \notin arrived => r \notin arrived']_outboxVars

\* offline.ts, offlineChildView: "It will go when you have internet again. It is
\* safe."  Once the network is back for good, what she was told is safe arrives
\* or is refused to her face.
SafeArrives ==
  \A r \in Recording : <>[]online => (r \in toldSafe ~> r \in arrived \cup refused)
=============================================================================
