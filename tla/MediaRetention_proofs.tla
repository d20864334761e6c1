------------------------ MODULE MediaRetention_proofs ------------------------
(***************************************************************************)
(* The reaper: retention for every set of artifacts, storage keys and      *)
(* requests, and every length of its clocks that leaves a retried send     *)
(* inside the grace: a deliverable message has its row and its bytes, the  *)
(* reaper deletes by the clock and in order, and opening never lengthens.  *)
(***************************************************************************)
EXTENDS MediaRetention, TLAPS

USE RetentionAssumption, RowAssumption

-----------------------------------------------------------------------------
(* The inductive invariant. *)

Queued(a) == intent[a].phase = "queued"
Busy == {o \in Opener : opener[o].pc # "idle"}

\* pipeline.ts, persistCapturedMessage: the row comes with the intent, and only a
\* key whose upload is over is named by one.
RowsComeWithIntents ==
  /\ \A a \in Artifact : intent[a].phase = "unsent" => art[a] = NoArt
  /\ \A k \in Key : upload[k] = "stored" => k \in blobs
  /\ \A a \in Live : upload[art[a].key] = "sent"

\* receipt_screen.dart: rows that share a key are one recording of the child's, sent
\* again by her outbox.
TwinsAreOneSend ==
  \A a, b \in Live : art[a].key = art[b].key /\ a # b =>
    art[a].byChild /\ art[b].byChild /\ art[a].sent = art[b].sent

\* retention.ts: nobody shortens what the child sent, and until its grace is over no
\* twin of it has lapsed, so the bytes are there.
ChildRows ==
  \A a \in Live : art[a].byChild =>
    /\ art[a].sent <= now
    /\ art[a].expires # NoClock /\ art[a].sent + Unopened + Grace <= art[a].expires
    /\ Queued(a) => intent[a].expires <= art[a].sent + Retry + 1 + Unopened
    /\ now < art[a].sent + Unopened + Grace => art[a].key \in blobs

\* pipeline.ts:108: while a message waits its row outlives it by the grace, and is
\* gone only after the message has expired.
QueuedRows ==
  \A a \in Artifact : Queued(a) =>
    /\ a \in Live =>
         /\ art[a].expires # NoClock => art[a].expires = intent[a].expires + Grace
         /\ ~art[a].byChild /\ now < intent[a].expires => art[a].key \in blobs
    /\ a \notin Live => intent[a].expires <= now

\* pool.ts, openDelivery: the first to open a message is alone with it until it
\* commits, and never opens what the child sent.
OpenersAlone ==
  /\ \A o \in Opener : opener[o].first => opener[o].pc # "idle"
  /\ \A o \in Busy :
       /\ opener[o].art \in Artifact /\ opener[o].at <= now
       /\ opener[o].first => intent[opener[o].art].phase = "arrived"
       /\ ~opener[o].first => intent[opener[o].art].phase = "watched"
       /\ opener[o].art \in Live => ~art[opener[o].art].byChild
  /\ \A o, p \in Busy :
       opener[o].art = opener[p].art /\ opener[o].first => o = p

\* pool.ts, applyRetentionOnOpen: what a request read of the clock is still so when it
\* writes, and a message that was opened lives no longer than an opened one.
OpenersRead ==
  \A o \in Busy :
    /\ opener[o].pc = "write" => opener[o].read # NoClock
    /\ opener[o].art \in Live =>
         /\ opener[o].pc = "write" => art[opener[o].art].expires = opener[o].read
         /\ (opener[o].pc = "commit" \/ ~opener[o].first)
              /\ art[opener[o].art].expires # NoClock =>
                   art[opener[o].art].expires <= opener[o].at + Opened

WatchedRows ==
  \A a \in Live : intent[a].phase = "watched" /\ art[a].expires # NoClock =>
    art[a].expires <= now + Opened

\* storage.ts, reap: a candidate has lapsed, and stays so; between the two deletes
\* the bytes are gone.
ReaperKnows ==
  /\ reaper.at <= now /\ reaper.gone \subseteq reaper.todo
  /\ reaper.pc # "scan" => reaper.gone = {}
  /\ \A a \in reaper.todo : intent[a].phase # "unsent" /\ (a \in Live => Lapsed(a))
  /\ \A a \in reaper.gone : a \in Live => art[a].key \notin blobs

RetentionInv ==
  /\ TypeOK /\ RowsComeWithIntents /\ TwinsAreOneSend /\ ChildRows /\ QueuedRows
  /\ OpenersAlone /\ OpenersRead /\ WatchedRows /\ ReaperKnows

-----------------------------------------------------------------------------
(* Rows. *)

\* A live artifact's row has its columns.
LEMMA LiveRow ==
  ASSUME TypeOK, NEW a \in Live
  PROVE  /\ a \in Artifact /\ art[a] \in Row /\ art[a].key \in Key /\ art[a].sent \in Nat
         /\ art[a].expires \in Int \cup {NoClock} /\ art[a].byChild \in BOOLEAN
BY DEF TypeOK, Live, Row

\* What holds of the intents and the clock.
LEMMA IntentRow ==
  ASSUME TypeOK, NEW a \in Artifact
  PROVE  intent[a].phase \in Phase /\ intent[a].expires \in Int
BY DEF TypeOK

\* Nothing has been recorded yet.
LEMMA RetentionInvInit == Init => RetentionInv
<1> SUFFICES ASSUME Init PROVE RetentionInv
  OBVIOUS
<1> USE DEF Init
<1>1. Free \in [pc : {"idle", "read", "write", "commit"}, art : Artifact \cup {NoArt}, at : Nat,
                read : Int \cup {NoClock}, first : BOOLEAN]
  BY DEF Free
<1>2. Asleep \in [pc : {"idle", "select", "scan"}, at : Nat, todo : SUBSET Artifact, gone : SUBSET Artifact]
  BY DEF Asleep
<1>3. TypeOK
  BY <1>1, <1>2 DEF TypeOK, Phase
<1>4. Live = {} /\ Busy = {}
  BY DEF Live, Busy, Free
<1>5. RowsComeWithIntents /\ TwinsAreOneSend /\ ChildRows /\ QueuedRows /\ WatchedRows
  BY <1>4 DEF RowsComeWithIntents, TwinsAreOneSend, ChildRows, QueuedRows, WatchedRows, Queued
<1>6. OpenersAlone /\ OpenersRead
  BY <1>4 DEF OpenersAlone, OpenersRead, Free
<1>7. ReaperKnows
  BY DEF ReaperKnows, Asleep
<1> QED
  BY <1>3, <1>5, <1>6, <1>7 DEF RetentionInv

-----------------------------------------------------------------------------
(* Capture. *)

\* POST .../media: new bytes under a key no row names yet.
LEMMA UploadKeeps ==
  ASSUME RetentionInv, NEW k \in Key, Upload(k)
  PROVE  RetentionInv'
<1> USE DEF RetentionInv, Upload
<1>1. TypeOK'
  BY DEF TypeOK
<1>2. Live' = Live /\ Busy' = Busy
  BY DEF Live, Busy
<1>3. blobs \subseteq blobs' /\ \A j \in Key : j # k => upload'[j] = upload[j]
  BY DEF TypeOK
<1>4. \A a \in Live : art[a].key # k
  BY DEF RowsComeWithIntents
<1>5. RowsComeWithIntents'
  BY <1>2, <1>3, <1>4, LiveRow DEF RowsComeWithIntents, TypeOK
<1>6. TwinsAreOneSend' /\ ChildRows' /\ QueuedRows' /\ WatchedRows'
  BY <1>2, <1>3 DEF TwinsAreOneSend, ChildRows, QueuedRows, WatchedRows, Queued
<1>7. OpenersAlone' /\ OpenersRead'
  BY <1>2 DEF OpenersAlone, OpenersRead
<1>8. ReaperKnows'
  BY <1>2, <1>4 DEF ReaperKnows, Lapsed
<1> QED
  BY <1>1, <1>5, <1>6, <1>7, <1>8

\* A row to be joins only rows of the same send of the child's.
JoinsItsTwins(k, sent, byChild) ==
  \A b \in Live : art[b].key = k => byChild = TRUE /\ art[b].byChild /\ art[b].sent = sent

\* POST .../messages: a new row, either the first that names its key or one more of
\* the same send, made while that send is retried.
LEMMA PersistKeeps ==
  ASSUME RetentionInv, NEW a \in Artifact, NEW k \in Key, NEW sent \in Nat, NEW at \in {now, now + 1},
         NEW byChild, NEW preserve, byChild \in BOOLEAN, preserve \in BOOLEAN,
         Persist(a, k, sent, at, byChild, preserve),
         upload' \in [Key -> {"fresh", "stored", "sent"}], upload'[k] = "sent",
         \A j \in Key : j # k => upload'[j] = upload[j],
         k \in blobs, sent <= now, now <= sent + Retry,
         JoinsItsTwins(k, sent, byChild)
  PROVE  RetentionInv'
<1> DEFINE new == [key |-> k, sent |-> sent, byChild |-> byChild,
                   expires |-> ArtifactExpiry(at, preserve)]
<1>1. /\ intent[a].phase = "unsent" /\ ~(byChild /\ preserve)
      /\ art' = [art EXCEPT ![a] = new]
      /\ intent' = [intent EXCEPT ![a] = [phase |-> "queued", expires |-> at + Unopened]]
      /\ UNCHANGED <<now, blobs, tombs, opener, reaper>>
  BY DEF Persist
<1>2. now \in Nat /\ at \in Nat /\ now <= at /\ at <= now + 1
  BY DEF RetentionInv, TypeOK
<1>3. ArtifactExpiry(at, preserve) = IF preserve THEN NoClock ELSE at + Unopened + Grace
  BY DEF ArtifactExpiry
<1>4. new \in Row /\ new # NoArt
  BY <1>2, <1>3 DEF Row
<1>5. /\ new.key = k /\ new.sent = sent /\ new.byChild = byChild
      /\ new.expires # NoClock => new.expires = at + Unopened + Grace
      /\ byChild => new.expires # NoClock
  BY <1>1, <1>2, <1>3
<1> HIDE DEF new
<1>6. /\ a \notin Live /\ Live' = Live \cup {a} /\ art'[a] = new
      /\ \A b \in Artifact : b # a => art'[b] = art[b]
  BY <1>1, <1>4 DEF RetentionInv, TypeOK, RowsComeWithIntents, Live
<1>7. /\ intent'[a].phase = "queued" /\ intent'[a].expires = at + Unopened
      /\ \A b \in Artifact : b # a => intent'[b] = intent[b]
  BY <1>1 DEF RetentionInv, TypeOK
<1>8. \A b \in Live : b # a /\ b \in Artifact /\ art[b].key \in Key
  BY <1>6, LiveRow DEF RetentionInv
<1>9. TypeOK'
  <2>1. art' \in [Artifact -> Row \cup {NoArt}]
    BY <1>1, <1>4 DEF RetentionInv, TypeOK
  <2>2. intent' \in [Artifact -> [phase : Phase, expires : Int]]
    BY <1>1, <1>2 DEF RetentionInv, TypeOK, Phase
  <2> QED
    BY <1>1, <2>1, <2>2 DEF RetentionInv, TypeOK
<1>10. RowsComeWithIntents'
  BY <1>1, <1>5, <1>6, <1>7, <1>8 DEF RetentionInv, RowsComeWithIntents
<1>11. TwinsAreOneSend'
  <2>1. \A b \in Live : art[b].key = k => byChild /\ art[b].byChild /\ art[b].sent = sent
    BY DEF JoinsItsTwins
  <2> QED
    BY <1>5, <1>6, <1>8, <2>1 DEF RetentionInv, TwinsAreOneSend
<1>12. ChildRows'
  BY <1>1, <1>2, <1>5, <1>6, <1>7, <1>8 DEF RetentionInv, ChildRows, Queued
<1>13. QueuedRows'
  BY <1>1, <1>2, <1>5, <1>6, <1>7, <1>8 DEF RetentionInv, QueuedRows, Queued
<1>14. WatchedRows'
  BY <1>1, <1>6, <1>7, <1>8 DEF RetentionInv, WatchedRows
<1>15. \A o \in Busy : opener[o].art # a
  BY <1>1 DEF RetentionInv, OpenersAlone
<1>16. OpenersAlone' /\ OpenersRead'
  BY <1>1, <1>6, <1>7, <1>8, <1>15 DEF RetentionInv, OpenersAlone, OpenersRead, Busy
<1>17. ReaperKnows'
  <2>1. a \notin reaper.todo
    BY <1>1 DEF RetentionInv, ReaperKnows
  <2> QED
    BY <1>1, <1>6, <1>7, <1>8, <2>1 DEF RetentionInv, TypeOK, ReaperKnows, Lapsed
<1> QED
  BY <1>9, <1>10, <1>11, <1>12, <1>13, <1>14, <1>16, <1>17 DEF RetentionInv

\* A first send names a key that no row names.
LEMMA SendKeeps ==
  ASSUME RetentionInv, NEW a \in Artifact, NEW k \in Key, Send(a, k)
  PROVE  RetentionInv'
<1>1. /\ upload[k] = "stored" /\ upload' = [upload EXCEPT ![k] = "sent"] /\ k \in blobs
      /\ \A b \in Live : art[b].key # k
  BY DEF Send, RetentionInv, RowsComeWithIntents
<1>2. PICK at \in {now, now + 1}, byChild \in BOOLEAN, preserve \in BOOLEAN :
        Persist(a, k, now, at, byChild, preserve)
  BY DEF Send
<1>5. now \in Nat /\ byChild \in BOOLEAN /\ preserve \in BOOLEAN /\ at \in {now, now + 1}
  BY <1>2 DEF RetentionInv, TypeOK
<1>3. now \in Nat /\ now <= now /\ now <= now + Retry
  BY DEF RetentionInv, TypeOK
<1>4. /\ upload' \in [Key -> {"fresh", "stored", "sent"}] /\ upload'[k] = "sent"
      /\ \A j \in Key : j # k => upload'[j] = upload[j]
  BY <1>1 DEF RetentionInv, TypeOK
<1>6. k \in blobs /\ JoinsItsTwins(k, now, byChild)
  BY <1>1 DEF JoinsItsTwins
<1> QED
  BY <1>2, <1>3, <1>4, <1>5, <1>6, PersistKeeps, Zenon

\* A retried one names a key whose rows are all of this send, and still have bytes.
LEMMA ResendKeeps ==
  ASSUME RetentionInv, NEW a \in Artifact, NEW b \in Artifact, Resend(a, b)
  PROVE  RetentionInv'
<1>1. /\ b \in Live /\ art[b].byChild /\ now <= art[b].sent + Retry /\ UNCHANGED upload
  BY DEF Resend, Live
<1>2. PICK at \in {now, now + 1}, byChild \in {TRUE}, preserve \in {FALSE} :
        Persist(a, art[b].key, art[b].sent, at, byChild, preserve)
  BY DEF Resend
<1>3. art[b].key \in Key /\ art[b].sent \in Nat /\ now \in Nat
  BY <1>1, LiveRow DEF RetentionInv, TypeOK
<1>4. art[b].sent <= now /\ art[b].key \in blobs
  BY <1>1, <1>3 DEF RetentionInv, ChildRows
<1>5. JoinsItsTwins(art[b].key, art[b].sent, byChild)
  BY <1>1, <1>2 DEF RetentionInv, TwinsAreOneSend, JoinsItsTwins
<1>6. upload' \in [Key -> {"fresh", "stored", "sent"}] /\ upload'[art[b].key] = "sent"
  BY <1>1 DEF RetentionInv, TypeOK, RowsComeWithIntents
<1>7. byChild \in BOOLEAN /\ preserve \in BOOLEAN
  BY <1>2
<1>8. \A j \in Key : j # art[b].key => upload'[j] = upload[j]
  BY <1>1
<1>9. now <= art[b].sent + Retry /\ at \in {now, now + 1}
  BY <1>1, <1>2
<1> QED
  BY <1>2, <1>3, <1>4, <1>5, <1>6, <1>7, <1>8, <1>9, PersistKeeps, ZenonT(40)

-----------------------------------------------------------------------------
(* The intent. *)

\* claim_due_intents, expiry and removal: a message stops waiting, and nothing else
\* of it changes.
LEMMA LeavesQueueKeeps ==
  ASSUME RetentionInv, NEW a \in Artifact, Deliver(a) \/ Drop(a)
  PROVE  RetentionInv'
<1>1. /\ intent[a].phase = "queued"
      /\ \/ intent' = [intent EXCEPT ![a].phase = "arrived"]
         \/ intent' = [intent EXCEPT ![a].phase = "dropped"]
      /\ UNCHANGED <<now, blobs, upload, art, tombs, opener, reaper>>
  BY DEF Deliver, Drop
<1>2. /\ intent'[a].phase \in {"arrived", "dropped"}
      /\ \A b \in Artifact : b # a => intent'[b] = intent[b]
  BY <1>1 DEF RetentionInv, TypeOK
<1>3. Live' = Live /\ Busy' = Busy /\ \A b \in Live : b \in Artifact
  BY <1>1 DEF Live, Busy
<1>4. TypeOK'
  BY <1>1 DEF RetentionInv, TypeOK, Phase
<1>5. RowsComeWithIntents' /\ TwinsAreOneSend' /\ WatchedRows'
  BY <1>1, <1>2, <1>3 DEF RetentionInv, RowsComeWithIntents, TwinsAreOneSend, WatchedRows
<1>6. ChildRows' /\ QueuedRows'
  BY <1>1, <1>2, <1>3 DEF RetentionInv, ChildRows, QueuedRows, Queued
<1>7. \A o \in Busy : opener[o].art # a
  BY <1>1 DEF RetentionInv, OpenersAlone
<1>8. OpenersAlone' /\ OpenersRead'
  BY <1>1, <1>2, <1>3, <1>7 DEF RetentionInv, OpenersAlone, OpenersRead
<1>9. ReaperKnows'
  BY <1>1, <1>2, <1>3 DEF RetentionInv, TypeOK, ReaperKnows, Lapsed
<1> QED
  BY <1>4, <1>5, <1>6, <1>8, <1>9 DEF RetentionInv

-----------------------------------------------------------------------------
(* POST .../inbox/:id/opened. *)

\* What a change of the requests alone leaves as it was.
LEMMA RowsStay ==
  ASSUME RetentionInv, UNCHANGED <<now, blobs, upload, art, intent>>
  PROVE  /\ Live' = Live
         /\ RowsComeWithIntents' /\ TwinsAreOneSend' /\ ChildRows' /\ QueuedRows' /\ WatchedRows'
<1>1. Live' = Live
  BY DEF Live
<1> QED
  BY <1>1 DEF RetentionInv, RowsComeWithIntents, TwinsAreOneSend, ChildRows, QueuedRows, WatchedRows,
              Queued

\* The same of the reaper.
LEMMA ReaperStays ==
  ASSUME RetentionInv, UNCHANGED <<now, blobs, art, intent, reaper>>
  PROVE  ReaperKnows'
<1>1. Live' = Live
  BY DEF Live
<1> QED
  BY <1>1 DEF RetentionInv, ReaperKnows, Lapsed

\* The compare-and-swap: whoever finds the message delivered is the first, and alone.
LEMMA OpenIntentKeeps ==
  ASSUME RetentionInv, NEW o \in Opener, NEW a \in Artifact, OpenIntent(o, a)
  PROVE  RetentionInv'
<1> DEFINE new == [Free EXCEPT !.pc = "read", !.art = a, !.at = now,
                               !.first = intent[a].phase = "arrived"]
<1>1. /\ opener[o].pc = "idle" /\ intent[a].phase \in {"arrived", "watched"} /\ Opening(a) = {}
      /\ art[a] # NoArt => ~art[a].byChild
      /\ opener' = [opener EXCEPT ![o] = new]
      /\ UNCHANGED <<now, blobs, upload, art, intent, tombs, reaper>>
  BY DEF OpenIntent
<1>2. /\ new.pc = "read" /\ new.art = a /\ new.at = now
      /\ new.first <=> intent[a].phase = "arrived"
      /\ new \in [pc : {"idle", "read", "write", "commit"}, art : Artifact \cup {NoArt}, at : Nat,
                  read : Int \cup {NoClock}, first : BOOLEAN]
  BY DEF Free, RetentionInv, TypeOK
<1> HIDE DEF new
<1>3. /\ opener'[o] = new /\ \A p \in Opener : p # o => opener'[p] = opener[p]
      /\ Busy' = Busy \cup {o} /\ o \notin Busy
  BY <1>1, <1>2 DEF RetentionInv, TypeOK, Busy
<1>4. TypeOK'
  BY <1>1, <1>2 DEF RetentionInv, TypeOK
<1>5. Live' = Live /\ (a \in Live => ~art[a].byChild)
  BY <1>1 DEF Live
<1>6. OpenersAlone'
  <2>1. \A p \in Busy : opener[p].art = a => ~opener[p].first /\ intent[a].phase = "watched"
    BY <1>1 DEF Opening, Busy, RetentionInv, OpenersAlone
  <2>2. \A p \in Opener : opener'[p].first => opener'[p].pc # "idle"
    BY <1>2, <1>3 DEF RetentionInv, OpenersAlone
  <2>3. \A p \in Busy' :
          /\ opener'[p].art \in Artifact /\ opener'[p].at <= now
          /\ opener'[p].first => intent[opener'[p].art].phase = "arrived"
          /\ ~opener'[p].first => intent[opener'[p].art].phase = "watched"
          /\ opener'[p].art \in Live => ~art[opener'[p].art].byChild
    BY <1>1, <1>2, <1>3, <1>5 DEF RetentionInv, TypeOK, OpenersAlone, Busy
  <2>4. \A p, q \in Busy' : opener'[p].art = opener'[q].art /\ opener'[p].first => p = q
    BY <1>2, <1>3, <2>1 DEF RetentionInv, OpenersAlone, Busy
  <2> QED
    BY <1>1, <1>5, <2>2, <2>3, <2>4 DEF OpenersAlone
<1>7. OpenersRead'
  <2>1. ~new.first /\ a \in Live /\ art[a].expires # NoClock => art[a].expires <= now + Opened
    BY <1>1, <1>2 DEF RetentionInv, WatchedRows
  <2> QED
    BY <1>1, <1>2, <1>3, <1>5, <2>1 DEF RetentionInv, OpenersRead, Busy
<1> QED
  BY <1>1, <1>4, <1>6, <1>7, RowsStay, ReaperStays DEF RetentionInv

\* The SELECT remembers the clock of the row, if it has one.
LEMMA OpenReadKeeps ==
  ASSUME RetentionInv, NEW o \in Opener, OpenRead(o)
  PROVE  RetentionInv'
<1> DEFINE a == opener[o].art
           none == art[a] = NoArt \/ art[a].expires = NoClock
<1>1. /\ opener[o].pc = "read" /\ o \in Busy /\ a \in Artifact
      /\ opener' = [opener EXCEPT ![o] = IF none THEN [@ EXCEPT !.pc = "commit"]
                                         ELSE [@ EXCEPT !.pc = "write", !.read = art[a].expires]]
      /\ UNCHANGED <<now, blobs, upload, art, intent, tombs, reaper>>
  BY DEF OpenRead, Busy, RetentionInv, OpenersAlone
<1>2. /\ opener'[o].art = a /\ opener'[o].at = opener[o].at /\ opener'[o].first = opener[o].first
      /\ none => opener'[o].pc = "commit" /\ opener'[o].read = opener[o].read
      /\ ~none => opener'[o].pc = "write" /\ opener'[o].read = art[a].expires
      /\ \A p \in Opener : p # o => opener'[p] = opener[p]
  BY <1>1 DEF RetentionInv, TypeOK
<1>3. Busy' = Busy /\ Live' = Live
  BY <1>1, <1>2 DEF Busy, Live
<1>4. TypeOK'
  <2>1. ~none => art[a].expires \in Int \cup {NoClock}
    BY <1>1, LiveRow DEF RetentionInv, Live
  <2>2. opener'[o] \in [pc : {"idle", "read", "write", "commit"}, art : Artifact \cup {NoArt}, at : Nat,
                        read : Int \cup {NoClock}, first : BOOLEAN]
    BY <1>1, <2>1, ZenonT(40) DEF RetentionInv, TypeOK
  <2> QED
    BY <1>1, <1>2, <2>2 DEF RetentionInv, TypeOK
<1>5. OpenersAlone'
  BY <1>1, <1>2, <1>3 DEF RetentionInv, OpenersAlone, Busy
<1>6. OpenersRead'
  <2>1. a \in Live => (none <=> art[a].expires = NoClock)
    BY DEF Live
  <2> QED
    BY <1>1, <1>2, <1>3, <2>1 DEF RetentionInv, OpenersRead, Busy, Live
<1> QED
  BY <1>1, <1>4, <1>5, <1>6, RowsStay, ReaperStays DEF RetentionInv

\* pipeline.ts, retentionOnOpen: the earlier of the clock there is and the opened one.
LEMMA ShortenedOnOpen ==
  ASSUME NEW current \in Int, NEW at \in Nat
  PROVE  /\ retentionOnOpen(current, at) \in Int /\ retentionOnOpen(current, at) <= current
         /\ retentionOnOpen(current, at) <= at + Opened
         /\ current <= at + Opened => retentionOnOpen(current, at) = current
BY DEF retentionOnOpen

\* The UPDATE of one request: what it changes of a row is its clock, to an earlier
\* instant, and only when nobody opened the message before.
LEMMA OpenWriteFacts ==
  ASSUME RetentionInv, NEW o \in Opener, OpenWrite(o)
  PROVE  /\ o \in Busy /\ opener[o].art \in Artifact
         /\ Live' = Live /\ \A b \in Artifact : b # opener[o].art => art'[b] = art[b]
         /\ opener[o].art \in Live =>
              /\ art'[opener[o].art] \in Row
              /\ art'[opener[o].art].key = art[opener[o].art].key
              /\ art'[opener[o].art].sent = art[opener[o].art].sent
              /\ art'[opener[o].art].byChild <=> art[opener[o].art].byChild
              /\ art[opener[o].art].expires \in Int /\ art'[opener[o].art].expires \in Int
              /\ art'[opener[o].art].expires <= art[opener[o].art].expires
              /\ art'[opener[o].art].expires <= opener[o].at + Opened
              /\ art[opener[o].art].expires <= opener[o].at + Opened =>
                   art'[opener[o].art].expires = art[opener[o].art].expires
         /\ opener[o].art \notin Live => art' = art
<1> DEFINE a == opener[o].art
           next == retentionOnOpen(opener[o].read, opener[o].at)
<1>1. /\ opener[o].pc = "write" /\ o \in Busy /\ a \in Artifact /\ opener[o].read # NoClock
      /\ opener[o].read \in Int /\ opener[o].at \in Nat
      /\ art' = IF art[a] = NoArt THEN art ELSE [art EXCEPT ![a].expires = next]
  BY DEF OpenWrite, Busy, RetentionInv, OpenersAlone, OpenersRead, TypeOK
<1>2. /\ next \in Int /\ next <= opener[o].read /\ next <= opener[o].at + Opened
      /\ opener[o].read <= opener[o].at + Opened => next = opener[o].read
  BY <1>1, ShortenedOnOpen
<1> HIDE DEF next
<1>3. CASE a \notin Live
  <2>1. art' = art
    BY <1>1, <1>3 DEF Live
  <2> QED
    BY <1>1, <1>3, <2>1 DEF Live
<1>4. CASE a \in Live
  <2>1. art[a] \in Row /\ art[a].expires = opener[o].read
    BY <1>1, <1>4, LiveRow DEF RetentionInv, OpenersRead
  <2>2. art' = [art EXCEPT ![a] = [art[a] EXCEPT !.expires = next]]
    BY <1>1, <1>4 DEF Live
  <2>3. art'[a] = [art[a] EXCEPT !.expires = next]
    BY <1>1, <2>2 DEF RetentionInv, TypeOK
  <2>4. /\ art'[a] \in Row /\ art'[a].key = art[a].key /\ art'[a].sent = art[a].sent
        /\ art'[a].byChild = art[a].byChild /\ art'[a].expires = next
    BY <1>2, <2>1, <2>3 DEF Row
  <2>5. \A b \in Artifact : b # a => art'[b] = art[b]
    BY <2>2 DEF RetentionInv, TypeOK
  <2>6. Live' = Live
    BY <1>4, <2>4, <2>5 DEF Live
  <2> HIDE DEF a
  <2> QED
    BY <1>1, <1>2, <1>4, <2>1, <2>4, <2>5, <2>6 DEF a
<1> QED
  BY <1>3, <1>4

LEMMA OpenWriteKeeps ==
  ASSUME RetentionInv, NEW o \in Opener, OpenWrite(o)
  PROVE  RetentionInv'
<1> DEFINE a == opener[o].art
<1>1. /\ opener[o].pc = "write" /\ opener' = [opener EXCEPT ![o].pc = "commit"]
      /\ UNCHANGED <<now, blobs, upload, intent, tombs, reaper>>
  BY DEF OpenWrite
<1>2. /\ o \in Busy /\ a \in Artifact
      /\ Live' = Live /\ \A b \in Artifact : b # a => art'[b] = art[b]
  BY OpenWriteFacts
<1>3. a \in Live => /\ art'[a] \in Row /\ art'[a].key = art[a].key /\ art'[a].sent = art[a].sent
                    /\ art'[a].byChild <=> art[a].byChild
                    /\ art[a].expires \in Int /\ art'[a].expires \in Int
                    /\ art'[a].expires <= art[a].expires
                    /\ art'[a].expires <= opener[o].at + Opened
                    /\ art[a].expires <= opener[o].at + Opened => art'[a].expires = art[a].expires
  BY OpenWriteFacts
<1>4. a \notin Live => art' = art
  BY OpenWriteFacts
<1>5. /\ opener'[o].pc = "commit" /\ opener'[o].art = a /\ opener'[o].at = opener[o].at
      /\ opener'[o].first = opener[o].first
      /\ \A p \in Opener : p # o => opener'[p] = opener[p]
  BY <1>1 DEF RetentionInv, TypeOK
<1>6. Busy' = Busy
  BY <1>2, <1>5 DEF Busy
<1>7. /\ intent[a].phase \in {"arrived", "watched"} /\ (a \in Live => ~art[a].byChild)
      /\ opener[o].at \in Nat /\ opener[o].at <= now /\ now \in Nat
      /\ ~opener[o].first <=> intent[a].phase = "watched"
  BY <1>2 DEF RetentionInv, OpenersAlone, TypeOK
<1>8. \A b \in Live : b \in Artifact /\ art'[b].key = art[b].key /\ art'[b].sent = art[b].sent
                      /\ (art'[b].byChild <=> art[b].byChild)
  BY <1>2, <1>3 DEF Live
<1>9. TypeOK'
  <2>1. opener' \in [Opener -> [pc : {"idle", "read", "write", "commit"},
                                art : Artifact \cup {NoArt}, at : Nat,
                                read : Int \cup {NoClock}, first : BOOLEAN]]
    <3>1. opener'[o] \in [pc : {"idle", "read", "write", "commit"}, art : Artifact \cup {NoArt}, at : Nat,
                          read : Int \cup {NoClock}, first : BOOLEAN]
      BY <1>1, ZenonT(40) DEF RetentionInv, TypeOK
    <3> QED
      BY <1>1, <1>5, <3>1 DEF RetentionInv, TypeOK
  <2>2. art' \in [Artifact -> Row \cup {NoArt}]
    BY <1>2, <1>3, <1>4 DEF RetentionInv, TypeOK, OpenWrite
  <2> QED
    BY <1>1, <2>1, <2>2 DEF RetentionInv, TypeOK
<1>10. RowsComeWithIntents'
  BY <1>1, <1>2, <1>8 DEF RetentionInv, RowsComeWithIntents, Live
<1>11. TwinsAreOneSend'
  BY <1>2, <1>8 DEF RetentionInv, TwinsAreOneSend
<1> HIDE DEF a
<1>12. ChildRows'
  BY <1>1, <1>2, <1>7, <1>8 DEF RetentionInv, ChildRows, Queued
<1>13. QueuedRows'
  BY <1>1, <1>2, <1>7, <1>8 DEF RetentionInv, QueuedRows, Queued
<1>14. WatchedRows'
  BY <1>1, <1>2, <1>3, <1>7, <1>8 DEF RetentionInv, WatchedRows
<1>15. OpenersAlone'
  BY <1>1, <1>2, <1>5, <1>6, <1>8 DEF RetentionInv, OpenersAlone, Busy
<1>16. OpenersRead'
  <2> SUFFICES ASSUME NEW p \in Busy
               PROVE  /\ opener'[p].pc = "write" => opener'[p].read # NoClock
                      /\ opener'[p].art \in Live =>
                           /\ opener'[p].pc = "write" => art'[opener'[p].art].expires = opener'[p].read
                           /\ (opener'[p].pc = "commit" \/ ~opener'[p].first)
                                /\ art'[opener'[p].art].expires # NoClock =>
                                     art'[opener'[p].art].expires <= opener'[p].at + Opened
    BY <1>2, <1>6 DEF OpenersRead
  <2>1. CASE p = o
    BY <2>1, <1>3, <1>5
  <2>2. CASE p # o /\ opener[p].art # a
    BY <2>2, <1>2, <1>5 DEF RetentionInv, OpenersRead, OpenersAlone, Busy
  <2>3. CASE p # o /\ opener[p].art = a
    <3>1. ~opener[o].first /\ ~opener[p].first
      BY <1>2, <2>3 DEF RetentionInv, OpenersAlone, a
    <3>2. a \in Live => art'[a].expires = art[a].expires
      BY <1>2, <1>3, <3>1 DEF RetentionInv, OpenersRead, a
    <3> QED
      BY <2>3, <3>1, <3>2, <1>5 DEF RetentionInv, OpenersRead, Busy
  <2> QED
    BY <2>1, <2>2, <2>3
<1>17. ReaperKnows'
  <2>1. \A b \in Live : Lapsed(b) => Lapsed(b)'
    <3> SUFFICES ASSUME NEW b \in Live, Lapsed(b)
                 PROVE  b \in Live' /\ art'[b].expires # NoClock /\ art'[b].expires <= now'
      BY DEF Lapsed
    <3>1. CASE b = a
      BY <3>1, <1>1, <1>2, <1>3, <1>7 DEF Lapsed
    <3>2. CASE b # a
      BY <3>2, <1>1, <1>2, <1>8 DEF Lapsed
    <3> QED
      BY <3>1, <3>2
  <2> QED
    BY <1>1, <1>2, <1>8, <2>1 DEF RetentionInv, ReaperKnows, TypeOK
<1> QED
  BY <1>9, <1>10, <1>11, <1>12, <1>13, <1>14, <1>15, <1>16, <1>17 DEF RetentionInv

\* The commit of the first one: from here on the message counts as watched, and its
\* row lives no longer than an opened one.
LEMMA OpenCommitKeeps ==
  ASSUME RetentionInv, NEW o \in Opener, OpenCommit(o)
  PROVE  RetentionInv'
<1> DEFINE a == opener[o].art
<1>1. /\ opener[o].pc = "commit" /\ o \in Busy /\ a \in Artifact
      /\ intent' = IF opener[o].first THEN [intent EXCEPT ![a].phase = "watched"] ELSE intent
      /\ opener' = [opener EXCEPT ![o] = Free]
      /\ UNCHANGED <<now, blobs, upload, art, tombs, reaper>>
  BY DEF OpenCommit, Busy, RetentionInv, OpenersAlone
<1>2. /\ intent[a].phase \in {"arrived", "watched"} /\ intent'[a].phase = "watched"
      /\ intent'[a].expires = intent[a].expires
      /\ \A b \in Artifact : b # a => intent'[b] = intent[b]
  BY <1>1 DEF RetentionInv, TypeOK, OpenersAlone
<1>3. /\ opener'[o] = Free /\ Busy' = Busy \ {o}
      /\ \A p \in Opener : p # o => opener'[p] = opener[p]
  BY <1>1 DEF RetentionInv, TypeOK, Busy, Free
<1>4. Live' = Live /\ \A b \in Live : b \in Artifact
  BY <1>1 DEF Live
<1>5. TypeOK'
  <2>1. Free \in [pc : {"idle", "read", "write", "commit"}, art : Artifact \cup {NoArt}, at : Nat,
                  read : Int \cup {NoClock}, first : BOOLEAN]
    BY DEF Free
  <2>2. intent' \in [Artifact -> [phase : Phase, expires : Int]]
    BY <1>1 DEF RetentionInv, TypeOK, Phase
  <2> QED
    BY <1>1, <2>1, <2>2 DEF RetentionInv, TypeOK
<1>6. RowsComeWithIntents' /\ TwinsAreOneSend'
  BY <1>1, <1>2, <1>4 DEF RetentionInv, RowsComeWithIntents, TwinsAreOneSend
<1>7. ChildRows' /\ QueuedRows'
  BY <1>1, <1>2, <1>4 DEF RetentionInv, ChildRows, QueuedRows, Queued
<1>8. WatchedRows'
  <2>1. a \in Live /\ art[a].expires # NoClock => art[a].expires <= now + Opened
    BY <1>1, LiveRow DEF RetentionInv, OpenersAlone, OpenersRead, TypeOK
  <2> QED
    BY <1>1, <1>2, <1>4, <2>1 DEF RetentionInv, WatchedRows
<1>9. OpenersAlone'
  <2>1. \A p \in Busy' : opener[o].first => opener[p].art # a
    BY <1>1, <1>3 DEF RetentionInv, OpenersAlone
  <2>2. ~opener[o].first => intent' = intent
    BY <1>1
  <2>3. \A p \in Opener : opener'[p].first => opener'[p].pc # "idle"
    BY <1>3 DEF RetentionInv, OpenersAlone, Free
  <2>4. \A p \in Busy' : p \in Busy /\ opener'[p] = opener[p]
    BY <1>3 DEF Busy
  <2> QED
    BY <1>1, <1>2, <1>4, <2>1, <2>2, <2>3, <2>4 DEF RetentionInv, OpenersAlone
<1>10. OpenersRead'
  <2>1. \A p \in Busy' : p \in Busy /\ opener'[p] = opener[p]
    BY <1>3 DEF Busy
  <2> QED
    BY <1>1, <1>4, <2>1 DEF RetentionInv, OpenersRead
<1>11. ReaperKnows'
  BY <1>1, <1>2, <1>4 DEF RetentionInv, TypeOK, ReaperKnows, Lapsed
<1> QED
  BY <1>5, <1>6, <1>7, <1>8, <1>9, <1>10, <1>11 DEF RetentionInv

\* A request that fails leaves what it has written.
LEMMA OpenFailKeeps ==
  ASSUME RetentionInv, NEW o \in Opener, OpenFail(o)
  PROVE  RetentionInv'
<1>1. /\ opener' = [opener EXCEPT ![o] = Free]
      /\ UNCHANGED <<now, blobs, upload, art, intent, tombs, reaper>>
  BY DEF OpenFail
<1>2. /\ opener'[o] = Free /\ Busy' = Busy \ {o}
      /\ \A p \in Opener : p # o => opener'[p] = opener[p]
  BY <1>1 DEF RetentionInv, TypeOK, Busy, Free
<1>3. \A p \in Busy' : p \in Busy /\ opener'[p] = opener[p]
  BY <1>2 DEF Busy
<1>4. TypeOK'
  <2>1. Free \in [pc : {"idle", "read", "write", "commit"}, art : Artifact \cup {NoArt}, at : Nat,
                  read : Int \cup {NoClock}, first : BOOLEAN]
    BY DEF Free
  <2> QED
    BY <1>1, <2>1 DEF RetentionInv, TypeOK
<1>5. Live' = Live
  BY <1>1 DEF Live
<1>6. OpenersAlone'
  <2>1. \A p \in Opener : opener'[p].first => opener'[p].pc # "idle"
    BY <1>2 DEF RetentionInv, OpenersAlone, Free
  <2> QED
    BY <1>1, <1>3, <1>5, <2>1 DEF RetentionInv, OpenersAlone
<1>7. OpenersRead'
  BY <1>1, <1>3, <1>5 DEF RetentionInv, OpenersRead
<1> QED
  BY <1>1, <1>4, <1>6, <1>7, RowsStay, ReaperStays DEF RetentionInv

-----------------------------------------------------------------------------
(* The reaper. *)

\* What a step of the reaper that touches neither rows nor bytes leaves as it was.
LEMMA ReaperMovesOnly ==
  ASSUME RetentionInv, UNCHANGED <<now, blobs, upload, art, intent, opener>>,
         tombs' \subseteq Artifact,
         reaper' \in [pc : {"idle", "select", "scan"}, at : Nat, todo : SUBSET Artifact,
                      gone : SUBSET Artifact],
         ReaperKnows'
  PROVE  RetentionInv'
<1>1. TypeOK'
  BY DEF RetentionInv, TypeOK
<1>2. Live' = Live /\ Busy' = Busy
  BY DEF Live, Busy
<1>3. OpenersAlone' /\ OpenersRead'
  BY <1>2 DEF RetentionInv, OpenersAlone, OpenersRead
<1> QED
  BY <1>1, <1>3, RowsStay DEF RetentionInv

\* The job begins, is done or dies: nothing is on its list.
LEMMA ReapBoundsKeep ==
  ASSUME RetentionInv, ReapStart \/ ReapEnd \/ ReapCrash
  PROVE  RetentionInv'
<1>1. /\ \/ reaper' = [Asleep EXCEPT !.pc = "select", !.at = now]
         \/ reaper' = Asleep
      /\ UNCHANGED <<now, blobs, upload, art, intent, tombs, opener>>
  BY DEF ReapStart, ReapEnd, ReapCrash
<1>2. /\ reaper'.todo = {} /\ reaper'.gone = {} /\ reaper'.at \in {0, now}
      /\ reaper' \in [pc : {"idle", "select", "scan"}, at : Nat, todo : SUBSET Artifact,
                      gone : SUBSET Artifact]
  <2>1. now \in Nat /\ {} \in SUBSET Artifact /\ 0 \in Nat
    BY DEF RetentionInv, TypeOK
  <2>2. CASE reaper' = Asleep
    BY <2>1, <2>2 DEF Asleep
  <2>3. CASE reaper' = [Asleep EXCEPT !.pc = "select", !.at = now]
    <3>1. reaper' = [pc |-> "select", at |-> now, todo |-> {}, gone |-> {}]
      BY <2>3 DEF Asleep
    <3> QED
      BY <2>1, <3>1
  <2> QED
    BY <1>1, <2>2, <2>3
<1>3. ReaperKnows'
  BY <1>1, <1>2 DEF ReaperKnows, RetentionInv, TypeOK
<1>4. tombs' \subseteq Artifact
  BY <1>1 DEF RetentionInv, TypeOK
<1> QED
  BY <1>1, <1>2, <1>3, <1>4, ReaperMovesOnly

\* The SELECT: every candidate has lapsed.
LEMMA ReapSelectKeeps ==
  ASSUME RetentionInv, NEW S \in SUBSET Artifact, ReapSelect(S)
  PROVE  RetentionInv'
<1> DEFINE todo == {a \in S : art[a].expires <= reaper.at}
<1>1. /\ S \subseteq Due
      /\ reaper' = [reaper EXCEPT !.pc = "scan", !.todo = todo]
      /\ UNCHANGED <<now, blobs, upload, art, intent, tombs, opener>>
  BY DEF ReapSelect
<1>2. reaper.pc = "select" /\ reaper'.pc = "scan"
  BY DEF ReapSelect, RetentionInv, TypeOK
<1>3. \A a \in todo : a \in Artifact /\ Lapsed(a) /\ intent[a].phase # "unsent"
  BY <1>1 DEF Due, Lapsed, Live, RetentionInv, RowsComeWithIntents
<1>4. todo \subseteq Artifact
  BY <1>3
<1> HIDE DEF todo
<1>5. /\ reaper'.todo = todo /\ reaper'.gone = reaper.gone /\ reaper'.at = reaper.at
      /\ reaper' \in [pc : {"idle", "select", "scan"}, at : Nat, todo : SUBSET Artifact,
                      gone : SUBSET Artifact]
  BY <1>1, <1>4 DEF RetentionInv, TypeOK
<1>6. reaper.gone = {}
  BY <1>2 DEF RetentionInv, ReaperKnows
<1>7. ReaperKnows'
  BY <1>1, <1>2, <1>3, <1>5, <1>6 DEF RetentionInv, ReaperKnows, Lapsed, Live
<1>8. tombs' \subseteq Artifact
  BY <1>1 DEF RetentionInv, TypeOK
<1> QED
  BY <1>1, <1>5, <1>7, <1>8, ReaperMovesOnly

\* A failed delete: the candidate is off the list.
LEMMA ReapFailKeeps ==
  ASSUME RetentionInv, NEW a \in Artifact, Tombstone(a) \/ LoseTombstone(a)
  PROVE  RetentionInv'
<1>1. /\ reaper' = [reaper EXCEPT !.todo = @ \ {a}, !.gone = {}]
      /\ UNCHANGED <<now, blobs, upload, art, intent, opener>>
  BY DEF Tombstone, LoseTombstone, ReapFail
<1>2. tombs' \subseteq Artifact
  BY DEF Tombstone, LoseTombstone, RetentionInv, TypeOK
<1>3. /\ reaper'.todo = reaper.todo \ {a} /\ reaper'.gone = {} /\ reaper'.at = reaper.at
      /\ reaper' \in [pc : {"idle", "select", "scan"}, at : Nat, todo : SUBSET Artifact,
                      gone : SUBSET Artifact]
  BY <1>1 DEF RetentionInv, TypeOK
<1>4. ReaperKnows'
  BY <1>1, <1>3 DEF RetentionInv, ReaperKnows, Lapsed, Live
<1> QED
  BY <1>1, <1>2, <1>3, <1>4, ReaperMovesOnly

\* storage.delete(): the bytes a lapsed row names.  A row that shares them belongs to
\* the same send, whose grace is over as well.
LEMMA ReapBlobKeeps ==
  ASSUME RetentionInv, NEW a \in Artifact, ReapBlob(a)
  PROVE  RetentionInv'
<1>1. /\ a \in reaper.todo /\ reaper.gone = {} /\ reaper.pc = "scan"
      /\ blobs' = IF a \in Live THEN blobs \ {art[a].key} ELSE blobs
      /\ reaper' = [reaper EXCEPT !.gone = {a}]
      /\ UNCHANGED <<now, upload, art, intent, tombs, opener>>
  BY DEF ReapBlob
<1>2. Live' = Live /\ Busy' = Busy
  BY <1>1 DEF Live, Busy
<1>3. a \in Live => art[a].expires # NoClock /\ art[a].expires <= now
  BY <1>1 DEF RetentionInv, ReaperKnows, Lapsed
<1>4. now \in Nat
  BY DEF RetentionInv, TypeOK
<1>5. TypeOK'
  BY <1>1 DEF RetentionInv, TypeOK
<1>6. RowsComeWithIntents'
  <2>1. \A k \in Key : upload[k] = "stored" => k \in blobs'
    BY <1>1 DEF RetentionInv, RowsComeWithIntents
  <2> QED
    BY <1>1, <1>2, <2>1 DEF RetentionInv, RowsComeWithIntents
<1>7. ChildRows'
  <2>1. ASSUME NEW b \in Live, art[b].byChild, now < art[b].sent + Unopened + Grace
        PROVE  art[b].key \in blobs'
    <3>1. art[b].key \in blobs
      BY <2>1 DEF RetentionInv, ChildRows
    <3>2. a \in Live => art[a].key # art[b].key
      <4> SUFFICES ASSUME a \in Live, art[a].key = art[b].key PROVE FALSE
        OBVIOUS
      <4>1. art[a].byChild /\ art[a].sent = art[b].sent
        BY <2>1 DEF RetentionInv, TwinsAreOneSend
      <4>2. art[a].sent + Unopened + Grace <= art[a].expires
        BY <4>1 DEF RetentionInv, ChildRows
      <4>3. art[a].sent \in Nat /\ art[a].expires \in Int
        BY <1>3, LiveRow DEF RetentionInv
      <4> QED
        BY <1>3, <1>4, <2>1, <4>1, <4>2, <4>3
    <3> QED
      BY <1>1, <3>1, <3>2
  <2> QED
    BY <1>1, <1>2, <2>1 DEF RetentionInv, ChildRows, Queued
<1>8. QueuedRows'
  <2>1. ASSUME NEW b \in Live, Queued(b), ~art[b].byChild, now < intent[b].expires
        PROVE  art[b].key \in blobs'
    <3>1. art[b].key \in blobs /\ b \in Artifact
      BY <2>1 DEF RetentionInv, QueuedRows, Live
    <3>2. a \in Live => art[a].key # art[b].key
      <4> SUFFICES ASSUME a \in Live, art[a].key = art[b].key PROVE FALSE
        OBVIOUS
      <4>1. a = b
        BY <2>1 DEF RetentionInv, TwinsAreOneSend
      <4>2. art[a].expires = intent[a].expires + Grace /\ intent[a].expires \in Int
        BY <1>3, <2>1, <4>1, IntentRow DEF RetentionInv, QueuedRows
      <4> QED
        BY <1>3, <1>4, <2>1, <4>1, <4>2
    <3> QED
      BY <1>1, <3>1, <3>2
  <2> QED
    BY <1>1, <1>2, <2>1 DEF RetentionInv, QueuedRows, Queued
<1>9. TwinsAreOneSend' /\ WatchedRows' /\ OpenersAlone' /\ OpenersRead'
  BY <1>1, <1>2 DEF RetentionInv, TwinsAreOneSend, WatchedRows, OpenersAlone, OpenersRead
<1>10. ReaperKnows'
  <2>1. /\ reaper'.todo = reaper.todo /\ reaper'.gone = {a} /\ reaper'.at = reaper.at
        /\ reaper'.pc = "scan"
    BY <1>1 DEF RetentionInv, TypeOK
  <2> QED
    BY <1>1, <1>2, <2>1 DEF RetentionInv, ReaperKnows, Lapsed
<1> QED
  BY <1>5, <1>6, <1>7, <1>8, <1>9, <1>10 DEF RetentionInv

\* DELETE FROM media_artifact: only a row that has lapsed, with its bytes gone.
LEMMA ReapRowKeeps ==
  ASSUME RetentionInv, NEW a \in Artifact, ReapRow(a)
  PROVE  RetentionInv'
<1>1. /\ a \in reaper.gone /\ a \in reaper.todo /\ intent[a].phase # "unsent"
      /\ art' = [art EXCEPT ![a] = NoArt]
      /\ tombs' = tombs \ {a}
      /\ reaper' = [reaper EXCEPT !.todo = @ \ {a}, !.gone = {}]
      /\ UNCHANGED <<now, blobs, upload, intent, opener>>
  BY DEF ReapRow, RetentionInv, ReaperKnows
<1>2. /\ Live' = Live \ {a} /\ Busy' = Busy
      /\ \A b \in Artifact : b # a => art'[b] = art[b]
  BY <1>1 DEF RetentionInv, TypeOK, Live, Busy
<1>3. \A b \in Live' : b \in Live /\ b \in Artifact /\ b # a /\ art'[b] = art[b]
  BY <1>2 DEF Live
<1>4. a \in Live => art[a].expires # NoClock /\ art[a].expires <= now
  BY <1>1 DEF RetentionInv, ReaperKnows, Lapsed
<1>5. TypeOK'
  BY <1>1 DEF RetentionInv, TypeOK
<1>6. RowsComeWithIntents'
  BY <1>1, <1>2, <1>3 DEF RetentionInv, TypeOK, RowsComeWithIntents
<1>7. TwinsAreOneSend' /\ ChildRows' /\ WatchedRows'
  BY <1>1, <1>3 DEF RetentionInv, TwinsAreOneSend, ChildRows, WatchedRows, Queued
<1>8. QueuedRows'
  <2>1. Queued(a) => intent[a].expires <= now
    <3>1. CASE a \in Live
      BY <3>1, <1>4, IntentRow DEF RetentionInv, TypeOK, QueuedRows
    <3>2. CASE a \notin Live
      BY <3>2 DEF RetentionInv, QueuedRows
    <3> QED
      BY <3>1, <3>2
  <2> QED
    BY <1>1, <1>2, <1>3, <2>1 DEF RetentionInv, QueuedRows, Queued
<1>9. OpenersAlone' /\ OpenersRead'
  BY <1>1, <1>2, <1>3 DEF RetentionInv, OpenersAlone, OpenersRead
<1>10. ReaperKnows'
  <2>1. reaper'.todo = reaper.todo \ {a} /\ reaper'.gone = {} /\ reaper'.at = reaper.at
    BY <1>1 DEF RetentionInv, TypeOK
  <2> QED
    BY <1>1, <1>2, <1>3, <2>1 DEF RetentionInv, ReaperKnows, Lapsed
<1> QED
  BY <1>5, <1>6, <1>7, <1>8, <1>9, <1>10 DEF RetentionInv

\* Time makes rows lapse and messages expire; it takes nothing away.
LEMMA TickKeeps ==
  ASSUME RetentionInv, Tick
  PROVE  RetentionInv'
<1>1. now' = now + 1 /\ now \in Nat /\ UNCHANGED <<blobs, upload, art, intent, tombs, opener, reaper>>
  BY DEF Tick, RetentionInv, TypeOK
<1>2. Live' = Live /\ Busy' = Busy /\ \A b \in Live : b \in Artifact
  BY <1>1 DEF Live, Busy
<1>3. TypeOK'
  BY <1>1 DEF RetentionInv, TypeOK
<1>4. RowsComeWithIntents' /\ TwinsAreOneSend'
  BY <1>1, <1>2 DEF RetentionInv, RowsComeWithIntents, TwinsAreOneSend
<1>5. ChildRows'
  BY <1>1, <1>2, LiveRow DEF RetentionInv, ChildRows, Queued
<1>6. QueuedRows'
  BY <1>1, <1>2, IntentRow DEF RetentionInv, QueuedRows, Queued
<1>7. WatchedRows'
  BY <1>1, <1>2, LiveRow DEF RetentionInv, WatchedRows
<1>8. OpenersAlone' /\ OpenersRead'
  BY <1>1, <1>2 DEF RetentionInv, TypeOK, OpenersAlone, OpenersRead, Busy
<1>9. ReaperKnows'
  <2>1. \A b \in Live : Lapsed(b) => Lapsed(b)'
    BY <1>1, <1>2, LiveRow DEF RetentionInv, Lapsed
  <2> QED
    BY <1>1, <1>2, <2>1 DEF RetentionInv, TypeOK, ReaperKnows
<1> QED
  BY <1>3, <1>4, <1>5, <1>6, <1>7, <1>8, <1>9 DEF RetentionInv

-----------------------------------------------------------------------------
(* Theorems. *)

LEMMA RetentionInvStep == RetentionInv /\ [Next]_vars => RetentionInv'
<1> SUFFICES ASSUME RetentionInv, [Next]_vars
             PROVE  RetentionInv'
  OBVIOUS
<1>1. CASE Capture
  BY <1>1, UploadKeeps, SendKeeps, ResendKeeps DEF Capture
<1>2. CASE \E a \in Artifact : Deliver(a) \/ Drop(a) \/ LoseTombstone(a)
  BY <1>2, LeavesQueueKeeps, ReapFailKeeps
<1>3. CASE \E o \in Opener : Request(o) \/ OpenFail(o)
  BY <1>3, OpenIntentKeeps, OpenReadKeeps, OpenWriteKeeps, OpenCommitKeeps, OpenFailKeeps DEF Request
<1>4. CASE ReapStep \/ ReapCrash
  BY <1>4, ReapBoundsKeep, ReapSelectKeeps, ReapBlobKeeps, ReapRowKeeps, ReapFailKeeps DEF ReapStep
<1>5. CASE Tick
  BY <1>5, TickKeeps
<1>6. CASE UNCHANGED vars
  <2>1. UNCHANGED <<now, blobs, upload, art, intent, tombs, opener, reaper>>
    BY <1>6 DEF vars
  <2>2. Busy' = Busy /\ Live' = Live
    BY <2>1 DEF Busy, Live
  <2>3. TypeOK' /\ OpenersAlone' /\ OpenersRead'
    BY <2>1, <2>2 DEF RetentionInv, TypeOK, OpenersAlone, OpenersRead
  <2> QED
    BY <2>1, <2>3, RowsStay, ReaperStays DEF RetentionInv
<1> QED
  BY <1>1, <1>2, <1>3, <1>4, <1>5, <1>6 DEF Next

\* The inductive invariant holds in every behaviour.
THEOREM RetentionInvariant == Spec => []RetentionInv
BY RetentionInvInit, RetentionInvStep, PTL DEF Spec

\* Every variable of the model has its type.
THEOREM RetentionTypes == Spec => []TypeOK
<1>1. RetentionInv => TypeOK
  BY DEF RetentionInv
<1> QED
  BY RetentionInvariant, <1>1, PTL

\* pipeline.ts:108-118: for any number of messages, twins and concurrent requests, a
\* message that may still be delivered has its row and its bytes.
THEOREM DeliverableAlwaysHasMedia == Spec => []DeliverableHasMedia
<1>1. RetentionInv => DeliverableHasMedia
  <2> SUFFICES ASSUME RetentionInv, NEW a \in Artifact, Queued(a), now < intent[a].expires
               PROVE  a \in Live /\ art[a].key \in blobs
    BY DEF DeliverableHasMedia, Queued
  <2>1. now \in Nat /\ intent[a].expires \in Int
    BY IntentRow DEF RetentionInv, TypeOK
  <2>2. a \in Live
    BY <2>1 DEF RetentionInv, QueuedRows
  <2>3. CASE art[a].byChild
    <3>1. intent[a].expires <= art[a].sent + Retry + 1 + Unopened /\ art[a].sent \in Nat
      BY <2>2, <2>3, LiveRow DEF RetentionInv, ChildRows
    <3>2. now < art[a].sent + Unopened + Grace
      BY <2>1, <3>1
    <3> QED
      BY <2>2, <2>3, <3>2 DEF RetentionInv, ChildRows
  <2>4. CASE ~art[a].byChild
    BY <2>2, <2>4 DEF RetentionInv, QueuedRows
  <2> QED
    BY <2>2, <2>3, <2>4
<1> QED
  BY RetentionInvariant, <1>1, PTL

\* A step changes the row of a live artifact in two ways only: a request shortens its
\* clock, or the reaper deletes it.
LEMMA RowsChangeTwoWays ==
  ASSUME RetentionInv, Next, NEW a \in Live
  PROVE  \/ art'[a] = art[a] /\ a \in Live'
         \/ /\ a \in Live' /\ art'[a].key = art[a].key /\ art[a].expires # NoClock
            /\ \/ art'[a].expires = art[a].expires
               \/ art'[a].expires < art[a].expires
         \/ ReapRow(a)
<1>1. a \in Artifact /\ art[a] # NoArt
  BY DEF Live
<1>2. CASE \E b \in Artifact, k \in Key : Send(b, k)
  BY <1>1, <1>2 DEF Send, Persist, Live, RetentionInv, TypeOK, RowsComeWithIntents
<1>3. CASE \E b, c \in Artifact : Resend(b, c)
  BY <1>1, <1>3 DEF Resend, Persist, Live, RetentionInv, TypeOK, RowsComeWithIntents
<1>4. ASSUME NEW o \in Opener, OpenWrite(o)
      PROVE  \/ art'[a] = art[a] /\ a \in Live'
             \/ /\ a \in Live' /\ art'[a].key = art[a].key /\ art[a].expires # NoClock
                /\ \/ art'[a].expires = art[a].expires
                   \/ art'[a].expires < art[a].expires
  <2>1. CASE a = opener[o].art
    BY <1>4, <2>1, OpenWriteFacts
  <2>2. CASE a # opener[o].art
    BY <1>1, <1>4, <2>2, OpenWriteFacts
  <2> QED
    BY <2>1, <2>2
<1>5. ASSUME NEW b \in Artifact, ReapRow(b)
      PROVE  (art'[a] = art[a] /\ a \in Live') \/ ReapRow(a)
  BY <1>1, <1>5 DEF ReapRow, Live, RetentionInv, TypeOK
<1>6. CASE UNCHANGED art
  BY <1>6 DEF Live
<1>7. ASSUME NEW o \in Opener, Request(o) \/ OpenFail(o)
      PROVE  OpenWrite(o) \/ UNCHANGED art
  BY <1>7 DEF Request, OpenFail, OpenIntent, OpenRead, OpenCommit
<1>8. CASE ReapStep \/ ReapCrash
  BY <1>5, <1>6, <1>8 DEF ReapStep, ReapCrash, ReapStart, ReapEnd, ReapSelect, ReapBlob, Tombstone, ReapFail
<1>9. CASE \E b \in Artifact : Deliver(b) \/ Drop(b) \/ LoseTombstone(b)
  BY <1>6, <1>9 DEF Deliver, Drop, LoseTombstone, ReapFail
<1>10. CASE Tick \/ \E k \in Key : Upload(k)
  BY <1>6, <1>10 DEF Tick, Upload
<1> QED
  BY <1>2, <1>3, <1>4, <1>6, <1>7, <1>8, <1>9, <1>10 DEF Next, Capture

\* pipeline.ts:256: opening a message never makes its recording live longer, however
\* many requests open it at once and whichever of them fail.
THEOREM OpeningNeverLengthens == Spec => NeverLengthens
<1>1. RetentionInv /\ [Next]_vars =>
        [\A a \in Live : a \in Live' =>
           \/ art'[a].expires = art[a].expires
           \/ art[a].expires # NoClock /\ art'[a].expires < art[a].expires]_vars
  <2> SUFFICES ASSUME RetentionInv, Next, NEW a \in Live, a \in Live'
               PROVE  \/ art'[a].expires = art[a].expires
                      \/ art[a].expires # NoClock /\ art'[a].expires < art[a].expires
    OBVIOUS
  <2>1. ~ReapRow(a)
    BY DEF ReapRow, Live, RetentionInv, TypeOK
  <2> QED
    BY <2>1, RowsChangeTwoWays
<1> QED
  BY <1>1, RetentionInvariant, PTL DEF Spec, NeverLengthens

\* A step takes bytes away only in the reaper's first delete.
LEMMA BytesGoOneWay ==
  ASSUME Next
  PROVE  blobs \subseteq blobs' \/ \E a \in Artifact : ReapBlob(a)
<1>1. CASE Capture
  BY <1>1 DEF Capture, Upload, Send, Resend, Persist
<1>2. CASE \E a \in Artifact : Deliver(a) \/ Drop(a) \/ LoseTombstone(a)
  BY <1>2 DEF Deliver, Drop, LoseTombstone, ReapFail
<1>3. CASE \E o \in Opener : Request(o) \/ OpenFail(o)
  BY <1>3 DEF Request, OpenFail, OpenIntent, OpenRead, OpenWrite, OpenCommit
<1>4. CASE ReapStep \/ ReapCrash \/ Tick
  BY <1>4 DEF ReapStep, ReapCrash, ReapStart, ReapEnd, ReapSelect, ReapRow, Tombstone, ReapFail, Tick
<1> QED
  BY <1>1, <1>2, <1>3, <1>4 DEF Next

\* retention.ts: a row goes, and its bytes go, only when a row that names them lapsed.
LEMMA DeletesByTheClock ==
  ASSUME RetentionInv, Next
  PROVE  /\ \A a \in Live : art'[a] = NoArt => Lapsed(a)
         /\ \A k \in blobs \ blobs' : \E a \in NamedBy(k) : Lapsed(a)
<1>1. ASSUME NEW a \in Live, art'[a] = NoArt
      PROVE  Lapsed(a)
  <2>1. a \notin Live'
    BY <1>1 DEF Live
  <2>2. ReapRow(a)
    BY <2>1, RowsChangeTwoWays
  <2> QED
    BY <2>2 DEF ReapRow, RetentionInv, ReaperKnows
<1>2. ASSUME NEW k \in blobs, k \notin blobs'
      PROVE  \E a \in NamedBy(k) : Lapsed(a)
  <2>1. PICK a \in Artifact : ReapBlob(a)
    BY <1>2, BytesGoOneWay
  <2>2. a \in Live /\ k = art[a].key /\ a \in reaper.todo
    BY <1>2, <2>1 DEF ReapBlob
  <2>3. Lapsed(a) /\ a \in NamedBy(k)
    BY <2>2 DEF RetentionInv, ReaperKnows, NamedBy
  <2> QED
    BY <2>3
<1> QED
  BY <1>1, <1>2

\* storage.ts, reap: bytes go before the row that leads to them.
LEMMA RowsGoLast ==
  ASSUME RetentionInv, Next, NEW k \in blobs, NamedBy(k) # {}
  PROVE  k \notin blobs' \/ NamedBy(k)' # {}
<1>1. PICK a \in Live : art[a].key = k
  BY DEF NamedBy
<1>2. CASE ReapRow(a)
  BY <1>1, <1>2 DEF ReapRow, RetentionInv, ReaperKnows
<1>3. CASE a \in Live' /\ art'[a].key = k
  BY <1>3 DEF NamedBy
<1> QED
  BY <1>1, <1>2, <1>3, RowsChangeTwoWays

\* storage.ts: for any storage that fails and any batch, recordings are deleted by
\* their own clock and in an order that leaves nothing behind.
THEOREM AlwaysReapedInOrder == Spec => ReapedInOrder
<1>1. RetentionInv /\ [Next]_vars => [DeletedByItsClock /\ NeverUndiscoverable]_vars
  BY DeletesByTheClock, RowsGoLast DEF DeletedByItsClock, NeverUndiscoverable
<1> QED
  BY <1>1, RetentionInvariant, PTL DEF Spec, ReapedInOrder
=============================================================================
