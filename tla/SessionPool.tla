---------------------------- MODULE SessionPool ----------------------------
(***************************************************************************)
(* The API's requests and the one pg.Pool they all share.  withSession()   *)
(* and withSystemSession() check a connection out, hold it for the whole   *)
(* callback and give it back whatever happens; Api.handle() opens such a   *)
(* session around every handler that did not opt out, and accessors the    *)
(* handler calls with `pool' open one of their own.                        *)
(*                                                                         *)
(* A request is the sequence of connects and releases its route performs;  *)
(* what it does with a connection is left out.                             *)
(***************************************************************************)
EXTENDS Integers, Sequences, FiniteSets

CONSTANTS
  Flat,    \* callers of the routes that hold one connection at a time
  Nesting, \* callers of the routes that open one session inside another
  Size,    \* pg.Pool's max: 10, the default, in the repository
  NoClient

\* Each has one request at a time.
Client == Flat \cup Nesting

ASSUME PoolAssumption == Size \in Nat \ {0} /\ NoClient \notin Client

VARIABLES
  script,  \* what is left of each client's request; <<>> between requests
  owner,   \* who has each connection checked out
  queue    \* pg.Pool's waiters, first come first served, without a timeout

poolVars == <<script, owner, queue>>

-----------------------------------------------------------------------------
(* Routes. *)

\* withSession() or withSystemSession() around a callback.
Session(body) == <<"connect">> \o body \o <<"release">>

\* edgesFor(), childCtxFor(), ...: one query in a session of its own.
Accessor == Session(<<>>)

\* Api.handle() for a signed-in adult: the edges, then the handler, inside
\* the outer session unless the route sets skipOuterSession.
Wrapped(handler)  == Accessor \o Session(handler)
OptedOut(handler) == Accessor \o handler

\* Mutant: the download does not set skipOuterSession.
MediaRouteWrapped == Wrapped(Accessor)

\* GET .../inbox: of the routes that are wrapped, the one that opens no session inside.
InboxRoute    == Wrapped(<<>>)
\* The routes that set skipOuterSession; their sessions come one after another.
MediaRoute    == OptedOut(Accessor)
\* The ordinary route: the handler calls an accessor of the pool inside the outer session.
OrdinaryRoute == Wrapped(Accessor)
\* POST /messages: edgesFor(), childCtxFor(), persistCapturedMessage().
MessageRoute  == Wrapped(Accessor \o Accessor \o Accessor)
\* POST /inbox/:id/opened, a child's: no edges; applyRetentionOnOpen().
OpenedRoute   == Session(Accessor)

\* The routes each client calls.
Route ==
  [c \in Client |-> IF c \in Flat THEN {InboxRoute, MediaRoute}
                   ELSE {OrdinaryRoute, MessageRoute, OpenedRoute}]

-----------------------------------------------------------------------------

Connections == 1..Size

Held(c) == {k \in Connections : owner[k] = c}
Idle    == Held(NoClient)

Waiting == {queue[n] : n \in DOMAIN queue}

PoolInit ==
  /\ script = [c \in Client |-> <<>>]
  /\ owner = [k \in Connections |-> NoClient]
  /\ queue = <<>>

Begin(c, r) ==
  /\ script[c] = <<>>
  /\ script' = [script EXCEPT ![c] = r]
  /\ UNCHANGED <<owner, queue>>

\* Mutant: pool.connect() is not awaited.
DoesUnawaited(c, step) == script[c] # <<>> /\ Head(script[c]) = step

Does(c, step) ==
  /\ script[c] # <<>> /\ Head(script[c]) = step
  /\ c \notin Waiting

\* pool.connect(): an idle connection, or a place in the queue.
Connect(c) ==
  /\ Does(c, "connect")
  /\ \/ /\ Idle # {}
        /\ \E k \in Idle : owner' = [owner EXCEPT ![k] = c]
        /\ script' = [script EXCEPT ![c] = Tail(@)]
        /\ UNCHANGED queue
     \/ /\ Idle = {}
        /\ queue' = Append(queue, c)
        /\ UNCHANGED <<script, owner>>

\* Mutant: last come, first served.
GiveBackLast(k, rest) ==
  LET next == queue[Len(queue)]
  IN  IF queue = <<>>
      THEN /\ owner' = [owner EXCEPT ![k] = NoClient]
           /\ script' = rest
           /\ UNCHANGED queue
      ELSE /\ owner' = [owner EXCEPT ![k] = next]
           /\ script' = [rest EXCEPT ![next] = Tail(@)]
           /\ queue' = SubSeq(queue, 1, Len(queue) - 1)

\* client.release(): connection k goes to the first waiter, if there is one.
GiveBack(k, rest) ==
  IF queue = <<>>
  THEN /\ owner' = [owner EXCEPT ![k] = NoClient]
       /\ script' = rest
       /\ UNCHANGED queue
  ELSE /\ owner' = [owner EXCEPT ![k] = Head(queue)]
       /\ script' = [rest EXCEPT ![Head(queue)] = Tail(@)]
       /\ queue' = Tail(queue)

Release(c) ==
  /\ Does(c, "release")
  /\ \E k \in Held(c) : GiveBack(k, [script EXCEPT ![c] = Tail(@)])

\* A query or the handler throws: `finally' releases what the request holds,
\* innermost session first, and the rest of it is not run.
Fail(c) ==
  /\ Held(c) # {} /\ c \notin Waiting
  /\ Len(script[c]) > Cardinality(Held(c))
  /\ script' = [script EXCEPT ![c] = [n \in 1..Cardinality(Held(c)) |-> "release"]]
  /\ UNCHANGED <<owner, queue>>

PoolStep(c) == Connect(c) \/ Release(c)

PoolNext == \E c \in Client : PoolStep(c) \/ Fail(c) \/ \E r \in Route[c] : Begin(c, r)

PoolSpec == PoolInit /\ [][PoolNext]_poolVars

\* The event loop runs every callback that is ready, and queries return.
PoolFairness == \A c \in Client : WF_poolVars(PoolStep(c))

-----------------------------------------------------------------------------
(* Properties. *)

\* Values of the variables; a waiting request waits in one place, to connect.
PoolTypeOK ==
  /\ script \in [Client -> Seq({"connect", "release"})]
  /\ owner \in [Connections -> Client \cup {NoClient}]
  /\ queue \in Seq(Client)
  /\ Cardinality(Waiting) = Len(queue)
  /\ \A c \in Waiting : Head(script[c]) = "connect"

Count(s, x) == Cardinality({n \in DOMAIN s : s[n] = x})

\* pool.ts withSession(): a connection is released whatever happens.  What a
\* request holds is what it has yet to release, so a finished one holds nothing;
\* and nobody waits while a connection is idle.
NoLeak ==
  /\ \A c \in Client :
       Cardinality(Held(c)) = Count(script[c], "release") - Count(script[c], "connect")
  /\ queue # <<>> => Idle = {}

\* Every connection is checked out by a request that waits for another one.
Gridlock == \A k \in Connections : owner[k] \in Waiting

\* api.ts:139-149, "Real, confirmed bug this closes": the pool is never full of
\* outer sessions that all wait for an inner connection.
NoGridlock == ~Gridlock

\* Every request ends, and no other client's requests keep it from ending.
Answered == \A c \in Client : script[c] # <<>> ~> script[c] = <<>>

\* api.ts:113-149, skipOuterSession: who waits for a connection holds none, or only the
\* outer session of a route that opens another one inside.
HoldAndWait ==
  \A c \in Waiting : Held(c) = {} \/ (c \in Nesting /\ Cardinality(Held(c)) = 1)

\* api.ts:139-149: where requests wait for one another for good, there are as many of
\* those that nest as the pool has connections; no other request takes part in it.
GridlockIsNested ==
  Gridlock =>
    /\ \A k \in Connections : owner[k] \in Nesting
    /\ \A k, n \in Connections : owner[k] = owner[n] => k = n

\* pool.ts, withSession, and api.ts:113-149: the pool loses no connection, and a route
\* that opted out of the outer session neither makes others wait for it while it waits
\* nor has a part in a pool full of requests that wait for each other.
PoolHolds == NoLeak /\ HoldAndWait /\ GridlockIsNested
=============================================================================
