-------------------------------- MODULE Calls --------------------------------
(***************************************************************************)
(* Live calls: a guardian starts one, the child's device is rung, either   *)
(* side joins and hangs up, while the guardian's edge may change.  Each    *)
(* database session of a request is a step of its own.  What can() reads   *)
(* of an edge is abstracted to `live'; the child's own requests pass the   *)
(* gate without edges.                                                     *)
(***************************************************************************)
EXTENDS Naturals

CONSTANTS
  Caller, Call,
  CallRequest,        \* each is one HTTP request
  LiveKitConfigured   \* LIVEKIT_URL, _API_KEY and _API_SECRET are set

Child == "child"
Step == {"none", "supervised", "open"}

VARIABLES
  edge,        \* guardianship and contact_ladder of each caller
  call_log,    \* the table
  rung,        \* calls the child's device was rung for
  callTokens,  \* tokens handed out
  answers,     \* what joining was answered, as <<call, answer>>
  callReq      \* what each request is doing

callVars == <<edge, call_log, rung, callTokens, answers, callReq>>

NoCall == [made |-> FALSE]
CallIdle == [pc |-> "idle"]
OwnScope == [live |-> TRUE, observerOnly |-> FALSE, ladderStep |-> "open"]   \* the child's

CallsInit ==
  /\ edge \in [Caller -> [live : {TRUE}, observerOnly : BOOLEAN, ladderStep : Step]]
  /\ call_log = [c \in Call |-> NoCall]
  /\ rung = {} /\ callTokens = {} /\ answers = {}
  /\ callReq = [r \in CallRequest |-> CallIdle]

Logged(c) == call_log[c].made
Ended(c) == Logged(c) /\ call_log[c].ended # "no"

\* Mutant: membership of the session is enough.
MayCallAsListed(g) == TRUE

\* can('call', ...): asked by the gate of the route and again by mintToken().
MayCall(g) == edge[g].live /\ edge[g].ladderStep # "none"

deriveGrant(observerOnly) == [canPublish |-> ~observerOnly]

CallGoto(r, pc) == callReq' = [callReq EXCEPT ![r].pc = pc]
CallAnswered(r) == callReq' = [callReq EXCEPT ![r] = CallIdle]

-----------------------------------------------------------------------------
(* POST calls *)

\* The generic gate; `was' remembers the edge of that moment.
StartGate(r, g, c) ==
  /\ callReq[r] = CallIdle /\ MayCall(g)
  /\ ~Logged(c) /\ \A s \in CallRequest : callReq[s] # CallIdle => callReq[s].call # c
  /\ \A t \in callTokens : t.call # c
  /\ c \notin rung
  /\ callReq' = [callReq EXCEPT ![r] = [pc |-> "gated", who |-> g, call |-> c, was |-> edge[g]]]
  /\ UNCHANGED <<edge, call_log, rung, callTokens, answers>>

\* edgesFor() once more, createSession() and mintToken(): ladder step `none'
\* throws, an edge that ended since the gate is not_authorized.
StartSession(r) ==
  LET q == callReq[r] IN
  /\ q.pc = "gated"
  /\ callReq' = [callReq EXCEPT ![r] =
       IF ~MayCall(q.who) THEN CallIdle
       ELSE [pc |-> "minted", who |-> q.who, call |-> q.call, was |-> q.was, rang |-> FALSE,
             grant |-> deriveGrant(edge[q.who].observerOnly),
             recorded |-> edge[q.who].ladderStep = "supervised"]]
  /\ UNCHANGED <<edge, call_log, rung, callTokens, answers>>

\* A push may fail on every device; that is reported and not thrown.
notifyCall(r) ==
  LET q == callReq[r] IN
  /\ q.pc = "minted"
  /\ \E rang \in BOOLEAN :
       /\ rung' = IF rang THEN rung \cup {q.call} ELSE rung
       /\ callReq' = [callReq EXCEPT ![r].pc = "notified", ![r].rang = rang]
  /\ UNCHANGED <<edge, call_log, callTokens, answers>>

\* What notifyDevices() reported.
LoggedRang(q) == q.rang

\* A failed INSERT is logged to the console and the call goes on.
recordCallStart(r) ==
  LET q == callReq[r] IN
  /\ q.pc = "notified"
  /\ \/ call_log' = [call_log EXCEPT ![q.call] =
          [made |-> TRUE, startedBy |-> q.who, recorded |-> q.recorded, rang |-> LoggedRang(q),
           ended |-> "no"]]
     \/ UNCHANGED call_log
  /\ CallGoto(r, "logged")
  /\ UNCHANGED <<edge, rung, callTokens, answers>>

StartReply(r) ==
  LET q == callReq[r] IN
  /\ q.pc = "logged"
  /\ callTokens' = IF LiveKitConfigured
       THEN callTokens \cup {[call |-> q.call, who |-> q.who, grant |-> q.grant,
                              recorded |-> q.recorded, was |-> q.was]}
       ELSE callTokens
  /\ CallAnswered(r)
  /\ UNCHANGED <<edge, call_log, rung, answers>>

-----------------------------------------------------------------------------
(* POST calls/:sessionId/join and /end *)

KnowsCall(who, c) == IF who = Child THEN c \in rung
                     ELSE \E t \in callTokens : t.call = c /\ t.who = who

AskCall(r, pc, who, c) ==
  /\ callReq[r] = CallIdle /\ KnowsCall(who, c)
  /\ (who # Child => MayCall(who))
  /\ callReq' = [callReq EXCEPT ![r] =
       [pc |-> pc, who |-> who, call |-> c, ended |-> Ended(c),
        was |-> IF who = Child THEN OwnScope ELSE edge[who]]]
  /\ UNCHANGED <<edge, call_log, rung, callTokens, answers>>

\* callSessionFor(): no row, or a row that ended, is a 404.
callSessionFor(r) ==
  LET q == callReq[r] IN
  /\ q.pc = "join"
  /\ IF Logged(q.call) /\ ~Ended(q.call)
     THEN CallGoto(r, "found") /\ UNCHANGED answers
     ELSE /\ answers' = answers \cup {<<q.call, "call_not_found", Ended(q.call)>>}
          /\ CallAnswered(r)
  /\ UNCHANGED <<edge, call_log, rung, callTokens>>

\* What the call was started as.
RecordedOf(row) == row.recorded

\* mintToken() of a session made up from the row, observerOnly always false.
JoinMint(r) ==
  LET q == callReq[r]
      row == call_log[q.call]
      listed == q.who \in {Child, row.startedBy} IN
  /\ q.pc = "found"
  /\ IF (q.who = Child \/ MayCall(q.who)) /\ listed /\ LiveKitConfigured
     THEN callTokens' = callTokens \cup
            {[call |-> q.call, who |-> q.who, grant |-> deriveGrant(FALSE),
              recorded |-> RecordedOf(row), was |-> q.was]}
     ELSE UNCHANGED callTokens
  /\ CallAnswered(r)
  /\ UNCHANGED <<edge, call_log, rung, answers>>

\* WHERE ended_at IS NULL
EndsCall(c) == Logged(c) /\ ~Ended(c)

\* The end is named by the request that set it.
recordCallEnd(r) ==
  LET q == callReq[r] IN
  /\ q.pc = "end"
  /\ call_log' = IF EndsCall(q.call) THEN [call_log EXCEPT ![q.call].ended = r] ELSE call_log
  /\ CallAnswered(r)
  /\ UNCHANGED <<edge, rung, callTokens, answers>>

\* A court order, a coordinator or the child's majority changes an edge.
EdgeChanges(g) ==
  /\ edge[g].live
  /\ \/ edge' = [edge EXCEPT ![g].live = FALSE]
     \/ \E s \in Step : edge' = [edge EXCEPT ![g].ladderStep = s]
  /\ UNCHANGED <<call_log, rung, callTokens, answers, callReq>>

CallServe(r) ==
  \/ StartSession(r) \/ notifyCall(r) \/ recordCallStart(r) \/ StartReply(r)
  \/ callSessionFor(r) \/ JoinMint(r) \/ recordCallEnd(r)

CallsNext ==
  \/ \E r \in CallRequest :
       \/ CallServe(r)
       \/ \E c \in Call :
            \/ \E g \in Caller : StartGate(r, g, c)
            \/ \E who \in Caller \cup {Child}, pc \in {"join", "end"} : AskCall(r, pc, who, c)
  \/ \E g \in Caller : EdgeChanges(g)

CallsSpec == CallsInit /\ [][CallsNext]_callVars

-----------------------------------------------------------------------------
(* Properties. *)

Grants == [canPublish : BOOLEAN]
Edges == [live : BOOLEAN, observerOnly : BOOLEAN, ladderStep : Step]

\* Values of the variables; the log says that a call rang when it did.
CallsTypeOK ==
  /\ edge \in [Caller -> Edges]
  /\ call_log \in [Call -> {NoCall} \cup
       [made : {TRUE}, startedBy : Caller, recorded : BOOLEAN, rang : BOOLEAN,
        ended : CallRequest \cup {"no"}]]
  /\ rung \subseteq Call
  /\ \A c \in Call : Logged(c) => (call_log[c].rang <=> c \in rung)
  /\ callTokens \subseteq [call : Call, who : Caller \cup {Child}, grant : Grants,
                           recorded : BOOLEAN, was : Edges]
  /\ answers \subseteq Call \X {"call_not_found"} \X BOOLEAN
  /\ DOMAIN callReq = CallRequest

\* rooms.ts, mintToken: "a revoked parent cannot ride a stale list": whoever
\* got a token held a live edge when her request began, and nobody but the
\* child and the guardian who started the call ever gets one for it.
NoStaleToken ==
  \A t \in callTokens :
    /\ t.who # Child => t.was.live /\ t.was.ladderStep # "none"
    /\ Logged(t.call) => t.who \in {Child, call_log[t.call].startedBy}

\* pool.ts, recordCallEnd: two parties that hang up at once record one end,
\* and it is never moved; recording is disclosed alike to both of them.
EndedOnce ==
  [\A c \in Call : Ended(c) => call_log'[c] = call_log[c]]_callVars
RecordingToldAlike ==
  \A s, t \in callTokens : s.call = t.call => s.recorded = t.recorded

\* rooms.ts, pool.ts: a token is for one who had the right to it when she asked,
\* and everybody in a call is told the same of recording.
CallsHold == NoStaleToken /\ RecordingToldAlike
=============================================================================
