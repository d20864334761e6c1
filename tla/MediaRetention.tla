--------------------------- MODULE MediaRetention ---------------------------
(***************************************************************************)
(* A recording's bytes and the rows that own it: the upload, the           *)
(* media_artifact row persisted with its delivery_intent, the retention    *)
(* shortened when the child opens the message, and the reaper that deletes *)
(* the blob and then the row once the clock has run out.                   *)
(*                                                                         *)
(* The intent is reduced to the phases of MessagePromise, which Delivery   *)
(* implements; an artifact and its intent are inserted together and share  *)
(* a name here.  Object storage and the database fail independently, and   *)
(* every process may die between two of its steps.                         *)
(***************************************************************************)
EXTENDS Integers, FiniteSets

CONSTANTS
  Artifact,    \* media_artifact rows, each with its delivery_intent
  Key,         \* storage keys; randomUUID() never repeats one
  Opener,      \* concurrent POST .../opened requests
  Unopened,    \* UNOPENED_RETENTION_DAYS, in ticks
  Opened,      \* OPENED_RETENTION_DAYS
  Grace,       \* ARTIFACT_GRACE_DAYS
  Retry,       \* how long the client's outbox keeps retrying one send
  Limit,       \* DEFAULT_REAP_BATCH
  MaxTime,     \* bound: the clock stops here
  SendUntil,   \* bound: nothing is persisted later
  NoClock,     \* expires_at of a preserved artifact
  NoArt        \* no row

ASSUME RetentionAssumption ==
  /\ IsFiniteSet(Artifact)
  /\ {Unopened, Opened, Grace, Retry, MaxTime, SendUntil} \subseteq Nat
  /\ Limit \in Nat \ {0}
  \* A retried send resolves at most one slot later than the first one; four
  \* hours of backoff and a day against seven days of grace.
  /\ Retry + 1 < Grace
  /\ NoClock \notin Int

VARIABLES
  now,
  blobs,     \* keys with bytes in object storage
  upload,    \* how far the client got with each key
  art,       \* media_artifact
  intent,    \* the delivery_intent of each artifact
  tombs,     \* artifact_ids in reap_tombstone
  opener,    \* each request
  reaper     \* the reap-media job (an advisory lock makes it one)

vars == <<now, blobs, upload, art, intent, tombs, opener, reaper>>

\* sent: when its sender, or the outbox for her, first tried to send it.
Row == [key : Key, expires : Int \cup {NoClock}, sent : Nat, byChild : BOOLEAN]

ASSUME RowAssumption == NoArt \notin Row

Phase == {"unsent", "queued", "arrived", "watched", "dropped"}

Free   == [pc |-> "idle", art |-> NoArt, at |-> 0, read |-> NoClock, first |-> FALSE]
Asleep == [pc |-> "idle", at |-> 0, todo |-> {}, gone |-> {}]

Init ==
  /\ now = 0
  /\ blobs = {} /\ tombs = {}
  /\ upload = [k \in Key |-> "fresh"]
  /\ art = [a \in Artifact |-> NoArt]
  /\ intent = [a \in Artifact |-> [phase |-> "unsent", expires |-> 0]]
  /\ opener = [o \in Opener |-> Free]
  /\ reaper = Asleep

-----------------------------------------------------------------------------
(* Capture. *)

\* POST .../media
Upload(k) ==
  /\ upload[k] = "fresh"
  /\ blobs' = blobs \cup {k}
  /\ upload' = [upload EXCEPT ![k] = "stored"]
  /\ UNCHANGED <<now, art, intent, tombs, opener, reaper>>

\* Mutant: the recording lives exactly as long as its message.
ArtifactExpiryNoGrace(at, preserve) == IF preserve THEN NoClock ELSE at + Unopened

ArtifactExpiry(at, preserve) == IF preserve THEN NoClock ELSE at + Unopened + Grace

\* POST .../messages: both rows in one transaction, for an instant `at' that
\* captureMessage() resolved.  preserve is refused to a child.
Persist(a, k, sent, at, byChild, preserve) ==
  /\ intent[a].phase = "unsent" /\ now <= SendUntil
  /\ ~(byChild /\ preserve)
  /\ art' = [art EXCEPT ![a] =
       [key |-> k, sent |-> sent, byChild |-> byChild,
        expires |-> ArtifactExpiry(at, preserve)]]
  /\ intent' = [intent EXCEPT ![a] = [phase |-> "queued", expires |-> at + Unopened]]
  /\ UNCHANGED <<now, blobs, tombs, opener, reaper>>

Live == {a \in Artifact : art[a] # NoArt}

NamedBy(k) == {a \in Live : art[a].key = k}

Send(a, k) ==
  /\ upload[k] = "stored"
  /\ upload' = [upload EXCEPT ![k] = "sent"]
  /\ \E at \in {now, now + 1}, byChild, preserve \in BOOLEAN :
       Persist(a, k, now, at, byChild, preserve)

\* receipt_screen.dart: the answer to a send was lost, and the outbox sends the
\* same storage key again.  Nothing makes the second send the same message.
Resend(a, b) ==
  /\ art[b] # NoArt /\ art[b].byChild /\ now <= art[b].sent + Retry
  /\ \E at \in {now, now + 1} : Persist(a, art[b].key, art[b].sent, at, TRUE, FALSE)
  /\ UNCHANGED upload

-----------------------------------------------------------------------------
(* The intent: see Delivery. *)

\* claim_due_intents()
Deliver(a) ==
  /\ intent[a].phase = "queued" /\ now < intent[a].expires
  /\ intent' = [intent EXCEPT ![a].phase = "arrived"]
  /\ UNCHANGED <<now, blobs, upload, art, tombs, opener, reaper>>

\* Expired by retention or by its date, or removed with its sender.
Drop(a) ==
  /\ intent[a].phase = "queued"
  /\ intent' = [intent EXCEPT ![a].phase = "dropped"]
  /\ UNCHANGED <<now, blobs, upload, art, tombs, opener, reaper>>

-----------------------------------------------------------------------------
(* POST .../inbox/:id/opened. *)

Opening(a) == {o \in Opener : opener[o].art = a /\ opener[o].first}

\* The compare-and-swap on the intent, uncommitted: a second request for the
\* same row waits for it.  The inbox lists no message the child sent herself.
OpenIntent(o, a) ==
  /\ opener[o].pc = "idle"
  /\ intent[a].phase \in {"arrived", "watched"} /\ Opening(a) = {}
  /\ art[a] # NoArt => ~art[a].byChild
  /\ opener' = [opener EXCEPT ![o] =
       [Free EXCEPT !.pc = "read", !.art = a, !.at = now,
                    !.first = intent[a].phase = "arrived"]]
  /\ UNCHANGED <<now, blobs, upload, art, intent, tombs, reaper>>

\* applyRetentionOnOpen(): the SELECT, on a connection of its own.
OpenRead(o) ==
  LET a == opener[o].art
  IN  /\ opener[o].pc = "read"
      /\ opener' = [opener EXCEPT ![o] =
           IF art[a] = NoArt \/ art[a].expires = NoClock
           THEN [@ EXCEPT !.pc = "commit"]
           ELSE [@ EXCEPT !.pc = "write", !.read = art[a].expires]]
      /\ UNCHANGED <<now, blobs, upload, art, intent, tombs, reaper>>

\* Mutant: opening always sets the clock.
retentionOnOpenAlways(current, openedAt) == openedAt + Opened

\* retentionOnOpen() for an artifact with a clock.
retentionOnOpen(current, openedAt) ==
  IF openedAt + Opened < current THEN openedAt + Opened ELSE current

\* Its UPDATE.  The row may be gone by now.
OpenWrite(o) ==
  LET a == opener[o].art
  IN  /\ opener[o].pc = "write"
      /\ art' = IF art[a] = NoArt THEN art
                ELSE [art EXCEPT ![a].expires = retentionOnOpen(opener[o].read, opener[o].at)]
      /\ opener' = [opener EXCEPT ![o].pc = "commit"]
      /\ UNCHANGED <<now, blobs, upload, intent, tombs, reaper>>

OpenCommit(o) ==
  /\ opener[o].pc = "commit"
  /\ intent' = IF opener[o].first
               THEN [intent EXCEPT ![opener[o].art].phase = "watched"] ELSE intent
  /\ opener' = [opener EXCEPT ![o] = Free]
  /\ UNCHANGED <<now, blobs, upload, art, tombs, reaper>>

\* The request fails: its own transaction rolls back, what
\* applyRetentionOnOpen() committed stays.
OpenFail(o) ==
  /\ opener[o].pc # "idle"
  /\ opener' = [opener EXCEPT ![o] = Free]
  /\ UNCHANGED <<now, blobs, upload, art, intent, tombs, reaper>>

-----------------------------------------------------------------------------
(* The reaper. *)

Lapsed(a) == a \in Live /\ art[a].expires # NoClock /\ art[a].expires <= now

\* Mutant: a stuck row stays a candidate, and the first one.
DueStuckToo == {a \in Artifact : Lapsed(a)}

\* artifacts_due_for_reaping()
Due == {a \in Artifact : Lapsed(a) /\ a \notin tombs}

\* runMediaReapSweep(): `at' is read first and used in the re-check.
ReapStart ==
  /\ reaper.pc = "idle"
  /\ reaper' = [Asleep EXCEPT !.pc = "select", !.at = now]
  /\ UNCHANGED <<now, blobs, upload, art, intent, tombs, opener>>

\* ORDER BY expires_at LIMIT; ties in any order.  Candidates that lapsed after
\* the job began are skipped.
ReapSelect(S) ==
  /\ reaper.pc = "select"
  /\ S \subseteq Due /\ Cardinality(S) <= Limit
  /\ S = Due \/ Cardinality(S) = Limit
  /\ \A a \in S, b \in Due \ S : art[a].expires <= art[b].expires
  /\ reaper' = [reaper EXCEPT !.pc = "scan",
                              !.todo = {a \in S : art[a].expires <= reaper.at}]
  /\ UNCHANGED <<now, blobs, upload, art, intent, tombs, opener>>

\* storage.delete(): true or false, the row is next.
ReapBlob(a) ==
  /\ reaper.pc = "scan" /\ a \in reaper.todo /\ reaper.gone = {}
  /\ blobs' = IF a \in Live THEN blobs \ {art[a].key} ELSE blobs
  /\ reaper' = [reaper EXCEPT !.gone = {a}]
  /\ UNCHANGED <<now, upload, art, intent, tombs, opener>>

\* Mutant: the row goes first.
ReapRowFirst(a) ==
  /\ reaper.pc = "scan" /\ a \in reaper.todo
  /\ art' = [art EXCEPT ![a] = NoArt]
  /\ tombs' = tombs \ {a}
  /\ UNCHANGED <<now, blobs, upload, intent, opener, reaper>>

\* Mutant: the row is kept without its key.
ReapRowKept(a) ==
  /\ reaper.pc = "scan" /\ a \in reaper.gone \cap Live
  /\ art' = [art EXCEPT ![a].key = NoArt]
  /\ reaper' = [reaper EXCEPT !.todo = @ \ {a}, !.gone = {}]
  /\ UNCHANGED <<now, blobs, upload, intent, tombs, opener>>

\* DELETE FROM media_artifact; its tombstone cascades.
ReapRow(a) ==
  /\ reaper.pc = "scan" /\ a \in reaper.gone
  /\ art' = [art EXCEPT ![a] = NoArt]
  /\ tombs' = tombs \ {a}
  /\ reaper' = [reaper EXCEPT !.todo = @ \ {a}, !.gone = {}]
  /\ UNCHANGED <<now, blobs, upload, intent, opener>>

\* Either delete throws: the candidate is left for good, or, when writing the
\* tombstone fails too, for the next sweep.
ReapFail(a) ==
  /\ reaper.pc = "scan" /\ a \in reaper.todo
  /\ reaper.gone \subseteq {a}
  /\ reaper' = [reaper EXCEPT !.todo = @ \ {a}, !.gone = {}]
  /\ UNCHANGED <<now, blobs, upload, art, intent, opener>>

Tombstone(a) == ReapFail(a) /\ tombs' = tombs \cup {a}
LoseTombstone(a) == ReapFail(a) /\ UNCHANGED tombs

ReapEnd ==
  /\ reaper.pc = "scan" /\ reaper.todo = {}
  /\ reaper' = Asleep
  /\ UNCHANGED <<now, blobs, upload, art, intent, tombs, opener>>

ReapCrash ==
  /\ reaper.pc = "select" \/ reaper.todo # {}
  /\ reaper' = Asleep
  /\ UNCHANGED <<now, blobs, upload, art, intent, tombs, opener>>

Tick ==
  /\ now < MaxTime
  /\ now' = now + 1
  /\ UNCHANGED <<blobs, upload, art, intent, tombs, opener, reaper>>

-----------------------------------------------------------------------------

Capture ==
  \/ \E k \in Key : Upload(k) \/ \E a \in Artifact : Send(a, k)
  \/ \E a, b \in Artifact : Resend(a, b)

Request(o) ==
  \/ \E a \in Artifact : OpenIntent(o, a)
  \/ OpenRead(o) \/ OpenWrite(o) \/ OpenCommit(o)

ReapStep ==
  \/ ReapStart \/ ReapEnd
  \/ \E S \in SUBSET Artifact : ReapSelect(S)
  \/ \E a \in Artifact : ReapBlob(a) \/ ReapRow(a) \/ Tombstone(a)

Next ==
  \/ Capture
  \/ \E a \in Artifact : Deliver(a) \/ Drop(a) \/ LoseTombstone(a)
  \/ \E o \in Opener : Request(o) \/ OpenFail(o)
  \/ ReapStep \/ ReapCrash
  \/ Tick

Spec == Init /\ [][Next]_vars

\* The scheduler's loop never stops running the job.
LiveSpec == Spec /\ WF_vars(ReapStep)

\* Moreover storage and database recover: neither delete fails forever.
HealthySpec ==
  LiveSpec /\ \A a \in Artifact : SF_vars(ReapBlob(a)) /\ SF_vars(ReapRow(a))

-----------------------------------------------------------------------------
(* Properties. *)

\* Values of the variables.
TypeOK ==
  /\ now \in Nat
  /\ blobs \subseteq Key /\ upload \in [Key -> {"fresh", "stored", "sent"}]
  /\ art \in [Artifact -> Row \cup {NoArt}]
  /\ intent \in [Artifact -> [phase : Phase, expires : Int]]
  /\ tombs \subseteq Artifact
  /\ opener \in [Opener -> [pc : {"idle", "read", "write", "commit"},
                            art : Artifact \cup {NoArt}, at : Nat,
                            read : Int \cup {NoClock}, first : BOOLEAN]]
  /\ reaper \in [pc : {"idle", "select", "scan"}, at : Nat,
                 todo : SUBSET Artifact, gone : SUBSET Artifact]

\* pipeline.ts:108-118, the seam bug: two clocks set by different concerns.  A
\* message that claim_due_intents may still deliver has its row and its bytes,
\* whatever was opened or reaped before - a retried send's twin included.
DeliverableHasMedia ==
  \A a \in Artifact :
    intent[a].phase = "queued" /\ now < intent[a].expires =>
      a \in Live /\ art[a].key \in blobs

\* retention.ts, storage.ts: a recording is deleted by its own clock only.  A
\* row goes when it has lapsed, bytes go when a lapsed row names them, and
\* nothing of a preserved artifact ever goes.
DeletedByItsClock ==
  [/\ \A a \in Live : art'[a] = NoArt => Lapsed(a)
   /\ \A k \in blobs \ blobs' : \E a \in NamedBy(k) : Lapsed(a)]_vars

\* storage.ts reap(), "order is the whole design": while a row names the bytes
\* they are discoverable, and no step makes them undiscoverable.
NeverUndiscoverable ==
  [\A k \in blobs : NamedBy(k) # {} => k \notin blobs' \/ NamedBy(k)' # {}]_vars

\* pipeline.ts:256 "Retention shortens once opened.  Never lengthens": not by
\* two requests racing on one artifact, nor by one that failed half way.
NeverLengthens ==
  [][\A a \in Live : a \in Live' =>
       \/ art'[a].expires = art[a].expires
       \/ art[a].expires # NoClock /\ art'[a].expires < art[a].expires]_vars

\* scheduler.mjs reap-media: an artifact whose clock ran out is reaped or on
\* record as stuck, however many stuck ones sort before it in the batch, once
\* the job stops dying and tombstones can be written.
OverdueHandled ==
  <>[][~ReapCrash /\ \A a \in Artifact : LoseTombstone(a) => a \in tombs]_vars =>
    \A a \in Artifact : Lapsed(a) ~> a \notin Live \/ a \in tombs

\* docs/scheduler.md:49 "writes a reap_tombstone on a genuine failure so a
\* stuck row stays discoverable and gets retried", 0004:62 "this table drives
\* retry": once storage works again a tombstoned artifact is reaped.
TombstoneRetried ==
  \A a \in Artifact : a \in tombs ~> a \notin Live

\* storage.ts and 0004: a recording is deleted by its own clock, and in an order
\* that leaves nothing behind which no row leads to.
ReapedInOrder == [][DeletedByItsClock /\ NeverUndiscoverable]_vars
=============================================================================
