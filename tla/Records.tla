------------------------------- MODULE Records -------------------------------
(***************************************************************************)
(* The family's record of one child: the parents' hash-chained note log,   *)
(* raw and certified exports, and the handover at majority ("take and go") *)
(* that gives it all to her and ends her parents' access.                  *)
(* A hash is modelled by what it is a hash of.                             *)
(***************************************************************************)
EXTENDS Integers, Sequences, FiniteSets

CONSTANTS
  Parent,
  RecordRequest,          \* each is one HTTP request
  FREE_CERTIFIED_PER_YEAR, YEAR,
  MajorityAt,             \* instant of her majority
  MaxRecordClock, MaxNotes, MaxExports,   \* bounds
  NoHolder

ASSUME RecordsAssumption ==
  /\ FREE_CERTIFIED_PER_YEAR \in Nat \ {0} /\ YEAR \in Nat \ {0}
  /\ {MajorityAt, MaxRecordClock, MaxNotes, MaxExports} \subseteq Nat
  /\ NoHolder \notin RecordRequest /\ IsFiniteSet(RecordRequest) /\ "child" \notin Parent

VARIABLES
  message_log,      \* rows by seq
  logLock,          \* holder of the advisory lock of her log
  export_record,    \* rows in the order they were inserted
  payerLock,        \* holder of the lock on each parent's app_user row
  childRow,         \* handed_over_at and deceased_at
  childLock,        \* holder of the lock on it
  guardianship,     \* is the edge of each parent open
  recordReq,        \* what each request is doing
  recordClock

recordVars == <<message_log, logLock, export_record, payerLock, childRow, childLock,
                guardianship, recordReq, recordClock>>
noteRest == <<export_record, payerLock, childRow, childLock, guardianship, recordClock>>
exportRest == <<message_log, logLock, childRow, childLock, guardianship, recordClock>>
takeRest == <<message_log, logLock, payerLock, recordClock>>

RecordIdle == [op |-> "none"]
GENESIS == <<>>

RecordsInit ==
  /\ message_log = <<>> /\ logLock = NoHolder
  /\ export_record = <<>>
  /\ payerLock = [p \in Parent |-> NoHolder]
  /\ childRow = [handedOver |-> FALSE, deceased |-> FALSE] /\ childLock = NoHolder
  /\ guardianship = [p \in Parent |-> TRUE]
  /\ recordReq = [r \in RecordRequest |-> RecordIdle]
  /\ recordClock = 0

RecordGo(r, q) == recordReq' = [recordReq EXCEPT ![r] = q]
RecordDone(r) == RecordGo(r, RecordIdle)

-----------------------------------------------------------------------------
(* The note log. *)

entryHash(e) == <<e.seq, e.author, e.at, e.prevHash>>

append(tip, author, at) ==
  LET base == [seq |-> tip.seq + 1, author |-> author, at |-> at, prevHash |-> tip.hash]
  IN  [seq |-> base.seq, author |-> author, at |-> at, prevHash |-> base.prevHash,
       hash |-> entryHash(base)]

NoTip == [seq |-> -1, hash |-> GENESIS]
LastTip == LET e == message_log[Len(message_log)] IN [seq |-> e.seq, hash |-> e.hash]

\* The kinds of fault of a chain; none of them is ever found.
verifyChain(chain) ==
     {"bad_genesis" : i \in {j \in 1..Len(chain) : j = 1 /\ chain[j].prevHash # GENESIS}}
  \cup {"content_altered" : i \in {j \in 1..Len(chain) : entryHash(chain[j]) # chain[j].hash}}
  \cup {"chain_broken" : i \in {j \in 2..Len(chain) : chain[j].prevHash # chain[j - 1].hash}}
  \cup {"sequence_gap" : i \in {j \in 2..Len(chain) : chain[j].seq # chain[j - 1].seq + 1}}
  \cup {"time_travel" : i \in {j \in 2..Len(chain) : chain[j].at < chain[j - 1].at}}

\* The chain as it is loaded, and as the parents read it.
loadMessageChain == message_log
handoverNotesFor == [i \in DOMAIN message_log |-> [seq |-> message_log[i].seq, by |-> message_log[i].author]]

NoteRoute(r, p) ==
  /\ recordReq[r] = RecordIdle /\ guardianship[p] /\ Len(message_log) < MaxNotes
  /\ RecordGo(r, [op |-> "note", by |-> p, asked |-> recordClock])
  /\ UNCHANGED <<message_log, logLock, noteRest>>

\* `at' is read once the lock is held.
NoteAt(r) == recordClock

\* The advisory lock, then the tip, then the clock.
ReadTip(r) ==
  LET q == recordReq[r] IN
  /\ q.op = "note" /\ logLock = NoHolder
  /\ logLock' = r
  /\ RecordGo(r, [op |-> "noted", by |-> q.by, at |-> NoteAt(r),
                  tip |-> IF message_log = <<>> THEN NoTip ELSE LastTip])
  /\ UNCHANGED <<message_log, noteRest>>

\* Mutant: a session-level advisory lock, which COMMIT does not give back.
appendHandoverNoteKept(r) ==
  LET q == recordReq[r] IN
  /\ q.op = "noted"
  /\ message_log' = Append(message_log, append(q.tip, q.by, q.at))
  /\ UNCHANGED logLock
  /\ RecordDone(r) /\ UNCHANGED noteRest

\* The INSERT, and the COMMIT that gives the lock back.
appendHandoverNote(r) ==
  LET q == recordReq[r] IN
  /\ q.op = "noted"
  /\ message_log' = Append(message_log, append(q.tip, q.by, q.at))
  /\ logLock' = NoHolder
  /\ RecordDone(r) /\ UNCHANGED noteRest

-----------------------------------------------------------------------------
(* Exports. *)

ExportRoute(r, kind, p) ==
  /\ recordReq[r] = RecordIdle /\ guardianship[p] /\ Len(export_record) < MaxExports
  /\ RecordGo(r, [op |-> kind, by |-> p, began |-> recordClock])
  /\ UNCHANGED <<message_log, logLock, noteRest>>

CertifiedInLastYear(p, now) ==
  Cardinality({i \in 1..Len(export_record) :
    /\ export_record[i].kind = "certified" /\ export_record[i].by = p
    /\ export_record[i].at > now - YEAR})

\* What her request goes on with.
Certifying(q) ==
  [op |-> "certify", by |-> q.by, began |-> q.began,
   free |-> CertifiedInLastYear(q.by, q.began) < FREE_CERTIFIED_PER_YEAR]

\* A parent without Court tier has her free ones and no more; with it, she pays.
authorizeExport(p, now, courtTier) ==
  CertifiedInLastYear(p, now) < FREE_CERTIFIED_PER_YEAR \/ courtTier

\* Mutant: the app_user row is read without FOR UPDATE.
CountUnlocked(r, courtTier) ==
  LET q == recordReq[r] IN
  /\ q.op = "certified"
  /\ RecordGo(r, IF authorizeExport(q.by, q.began, courtTier)
                 THEN Certifying(q) ELSE RecordIdle)
  /\ UNCHANGED <<export_record, payerLock, exportRest>>

\* The row of the requester is locked before her exports are counted.
CountExports(r, courtTier) ==
  LET q == recordReq[r] IN
  /\ q.op = "certified" /\ payerLock[q.by] = NoHolder
  /\ IF authorizeExport(q.by, q.began, courtTier) /\ verifyChain(loadMessageChain) = {}
     THEN /\ payerLock' = [payerLock EXCEPT ![q.by] = r]
          /\ RecordGo(r, Certifying(q))
     ELSE RecordDone(r) /\ UNCHANGED payerLock
  /\ UNCHANGED <<export_record, exportRest>>

\* What a bundle holds of the log; her journal and the calls are not modelled.
assembleRawExportBundle == Len(loadMessageChain)

InsertExport(kind, by, free, at) ==
  export_record' = Append(export_record,
    [kind |-> kind, by |-> by, free |-> free, at |-> at, notes |-> assembleRawExportBundle])

\* created_at defaults to the start of the transaction.
certifiedExportBundleFor(r) ==
  LET q == recordReq[r] IN
  /\ q.op = "certify"
  /\ InsertExport("certified", q.by, q.free, q.began)
  /\ payerLock' = [p \in Parent |-> IF payerLock[p] = r THEN NoHolder ELSE payerLock[p]]
  /\ RecordDone(r) /\ UNCHANGED exportRest

\* Mutant: a bundle whose edge has closed since is tried again, not refused.
rawExportRetried(r) ==
  LET q == recordReq[r] IN
  /\ \/ /\ q.op = "raw" /\ guardianship[q.by]
        /\ RecordGo(r, [q EXCEPT !.op = "raw_read"])
        /\ UNCHANGED export_record
     \/ /\ q.op = "raw_read"
        /\ InsertExport("raw", q.by, TRUE, q.began)
        /\ RecordDone(r)
  /\ UNCHANGED <<payerLock, exportRest>>

\* The edge is read again inside the session that reads the bundle.
rawExportBundleFor(r) ==
  LET q == recordReq[r] IN
  /\ \/ /\ q.op = "raw"
        /\ RecordGo(r, IF guardianship[q.by] THEN [q EXCEPT !.op = "raw_read"] ELSE RecordIdle)
        /\ UNCHANGED export_record
     \/ /\ q.op = "raw_read"
        /\ InsertExport("raw", q.by, TRUE, q.began)
        /\ RecordDone(r)
  /\ UNCHANGED <<payerLock, exportRest>>

-----------------------------------------------------------------------------
(* Take and go. *)

handoverAllowed(now) == ~childRow.handedOver /\ ~childRow.deceased /\ now >= MajorityAt

\* First session: her journal, read as her (its entries are not modelled).
ReadJournal(r) ==
  /\ recordReq[r] = RecordIdle /\ Len(export_record) < MaxExports
  /\ RecordGo(r, [op |-> "take", now |-> recordClock])
  /\ UNCHANGED <<message_log, logLock, noteRest>>
HandoverRoute(r) == ReadJournal(r)   \* nobody but the child herself

LockChild(r) ==
  LET q == recordReq[r] IN
  /\ q.op = "take" /\ childLock = NoHolder
  /\ IF handoverAllowed(q.now)
     THEN childLock' = r /\ RecordGo(r, [q EXCEPT !.op = "taking"])
     ELSE RecordDone(r) /\ UNCHANGED childLock
  /\ UNCHANGED <<export_record, childRow, guardianship, takeRest>>

\* Every open edge closes, whoever holds it.
EdgesClosed == [p \in Parent |-> FALSE]

takeAndGo(r) ==
  LET q == recordReq[r] IN
  /\ q.op = "taking"
  /\ InsertExport("raw", "child", TRUE, q.now)
  /\ guardianship' = EdgesClosed
  /\ childRow' = [childRow EXCEPT !.handedOver = TRUE]
  /\ childLock' = NoHolder
  /\ RecordDone(r) /\ UNCHANGED takeRest

-----------------------------------------------------------------------------

\* Recorded by hand by whoever runs the system; nothing else writes the column.
ChildDies ==
  /\ ~childRow.deceased /\ childLock = NoHolder
  /\ childRow' = [childRow EXCEPT !.deceased = TRUE]
  /\ UNCHANGED <<message_log, logLock, export_record, payerLock, childLock,
                 guardianship, recordReq, recordClock>>

RecordTick ==
  /\ recordClock < MaxRecordClock /\ recordClock' = recordClock + 1
  /\ UNCHANGED <<message_log, logLock, export_record, payerLock, childRow, childLock,
                 guardianship, recordReq>>

RecordServe(r) ==
  \/ ReadTip(r) \/ appendHandoverNote(r)
  \/ \E courtTier \in BOOLEAN : CountExports(r, courtTier)
  \/ certifiedExportBundleFor(r) \/ rawExportBundleFor(r)
  \/ LockChild(r) \/ takeAndGo(r)

RecordsNext ==
  \/ \E r \in RecordRequest :
       \/ RecordServe(r) \/ HandoverRoute(r)
       \/ \E p \in Parent :
            NoteRoute(r, p) \/ \E kind \in {"raw", "certified"} : ExportRoute(r, kind, p)
  \/ ChildDies \/ RecordTick

RecordsSpec == RecordsInit /\ [][RecordsNext]_recordVars

\* A request that was begun is served to its end.
RecordsFairness == \A r \in RecordRequest : SF_recordVars(RecordServe(r))

-----------------------------------------------------------------------------
(* Properties. *)

RecordInstants == 0..MaxRecordClock

\* Values of the variables; a lock is held by a request that has something to
\* write under it.
RecordsTypeOK ==
  /\ Len(message_log) <= MaxNotes + Cardinality(RecordRequest)
  /\ \A i \in 1..Len(message_log) : message_log[i].author \in Parent /\ message_log[i].at \in RecordInstants
  /\ \A i \in 1..Len(export_record) : export_record[i].by \in Parent \cup {"child"}
  /\ guardianship \in [Parent -> BOOLEAN] /\ recordClock \in RecordInstants
  /\ logLock # NoHolder => recordReq[logLock].op = "noted"
  /\ childLock # NoHolder => recordReq[childLock].op = "taking"
  /\ \A p \in Parent : payerLock[p] # NoHolder =>
       recordReq[payerLock[p]].op = "certify" /\ recordReq[payerLock[p]].by = p

\* ledger.ts and appendHandoverNote: however the parents' notes interleave, the
\* log is one chain whose hashes, numbers and instants all verify; the notes are
\* read in the order of their numbers, and a later bundle has lost none of them.
ChainVerifies ==
  /\ verifyChain(loadMessageChain) = {}
  /\ \A i \in DOMAIN handoverNotesFor : handoverNotesFor[i].seq = i - 1
  /\ \A i, j \in DOMAIN export_record : i <= j => export_record[i].notes <= export_record[j].notes

\* pool.ts, certifiedExportBundleFor: in any twelve months a parent gets no more
\* free certified exports than the tariff gives, from however many browser tabs.
FreeOncePerYear ==
  \A i \in 1..Len(export_record) :
    LET e == export_record[i] IN
    e.kind = "certified" /\ e.free =>
      Cardinality({j \in 1..Len(export_record) :
        /\ export_record[j].kind = "certified" /\ export_record[j].free /\ export_record[j].by = e.by
        /\ export_record[j].at \in e.at..(e.at + YEAR - 1)}) <= FREE_CERTIFIED_PER_YEAR

\* pool.ts, takeAndGo: the archive is handed over once, with one
\* export of hers, not before her majority.
HandedOverOnce ==
  LET hers == {i \in 1..Len(export_record) : export_record[i].by = "child"} IN
  /\ Cardinality(hers) = IF childRow.handedOver THEN 1 ELSE 0
  /\ \A i \in hers : export_record[i].at >= MajorityAt

ServedForAParent(r) == recordReq[r].op \notin {"none", "take", "taking"}

\* pool.ts, takeAndGo: "guardian READ ACCESS ENDS": from the handover on no
\* request of a parent is let in.
NoAccessAfterHandover ==
  [\A r \in RecordRequest :
     childRow.handedOver /\ ServedForAParent(r)' => ServedForAParent(r)]_recordVars

\* routes.mjs: and what was already being served for a parent when she took her
\* archive is answered, in whatever session it was between.
HandoverEndsAccess ==
  childRow.handedOver ~> \A r \in RecordRequest : ~ServedForAParent(r)

\* ledger.ts and pool.ts: the log verifies, the tariff is kept and the archive is
\* handed over once, whatever the parents and the child ask for at the same time.
RecordsHold == ChainVerifies /\ FreeOncePerYear /\ HandedOverOnce
=============================================================================
