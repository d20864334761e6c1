--------------------------- MODULE Server_proofs ---------------------------
(***************************************************************************)
(* The server process.                                                     *)
(*                                                                         *)
(* A game table ends for both seats, for any lifetimes, rates and bounds:  *)
(* TableEndsForBoth is an invariant of the table's Spec.  It is inductive  *)
(* with the types alone, once one says what the two flags of a seat and    *)
(* its socket have to do with each other: SeatsAgree.  That a seat gets    *)
(* one socket only, SingleUse, is a consequence.                           *)
(* That an honest move is never refused for its turn and never lost,       *)
(* FairPlayInTurn and NoLostMove, needs to know of every frame in flight:  *)
(* whose turn it is for the server, for both boards and for the queues     *)
(* between them (Turns), and that nothing is played before both are there  *)
(* (Begun).                                                                *)
(*                                                                         *)
(* The connections of the database pool come back, for any clients and any *)
(* size: NoLeak.  Who waits holds nothing, or the outer session of a route *)
(* that nests: a pool that locks up is full of such routes, each with one  *)
(* connection (PoolHolds).  That there may be as many of them as there are *)
(* connections is what MCPoolGridlock shows.                               *)
(*                                                                         *)
(* The scheduler, for any registry of jobs, any number of processes and    *)
(* any hour: a job runs in one process at a time, `run all' answers what   *)
(* happened, the loop works at its hour, once on a day.  The ledger of the *)
(* migrations, for any files and operators.                                *)
(*                                                                         *)
(* And the server that has them all: the components rest while another one *)
(* moves, so that its invariant is theirs.                                 *)
(***************************************************************************)
EXTENDS MCServer, FiniteSetTheorems, FunctionTheorems, SequenceTheorems, TLAPS

HIDE NightlyAssumption

-----------------------------------------------------------------------------
(* The game table. *)

\* A function that changes at one argument keeps its type.
LEMMA ExceptIn ==
  ASSUME NEW S, NEW T, NEW f \in [S -> T], NEW x \in S, NEW y \in T
  PROVE  [f EXCEPT ![x] = y] \in [S -> T]
OBVIOUS

\* RATE_CAPACITY, TABLE_TOKEN_TTL_SECONDS and the bounds are numbers.
LEMMA Limits == RateCap \in Nat /\ RateCap # 0 /\ JoinTTL \in Nat /\ MaxTime \in Nat
BY TableAssumption

USE Limits

Frames == {"waiting", "active", "move", "continue", "error", "closed"}
FromClients == {"move", "continue", "garbled"}

\* table.ts: two seats, and each is the other of the other.
LEMMA OtherSeat == \A s \in Seat : Other(s) \in Seat /\ Other(s) # s /\ \A t \in Seat : t = s \/ t = Other(s)
BY DEF Seat, Other

\* game_tables.mjs, safeSend: it adds a frame to the queue of one seat, or none.
LEMMA SentTypes ==
  ASSUME NEW s \in Seat, NEW f \in Frames, down \in [Seat -> Seq(Frames)]
  PROVE  Sent(s, f) \in [Seat -> Seq(Frames)]
<1>1. Append(down[s], f) \in Seq(Frames)
  OBVIOUS
<1> QED
  BY <1>1 DEF Sent

\* game_tables.mjs, endTable: the entry is there with its seats, or it is not.
LEMMA EndTableTypes ==
  ASSUME TypeOK, NEW s \in Seat, EndTable(s)
  PROVE  /\ status' \in Status /\ connected' \in [Seat -> BOOLEAN] /\ sock' \in [Seat -> Socket]
         /\ down' \in [Seat -> Seq(Frames)]
<1>1. status' \in Status
  BY DEF EndTable, onSeatDisconnected, Exists, TypeOK, Status
<1>2. connected' \in [Seat -> BOOLEAN]
  BY DEF EndTable, onSeatDisconnected, TypeOK
<1>3. sock' \in [Seat -> Socket]
  <2>1. \A t \in Seat : sock[t] \in Socket
    BY DEF TypeOK
  <2>2. {"shut", "closing"} \subseteq Socket
    BY DEF Socket
  <2> QED
    BY <2>1, <2>2 DEF EndTable
<1>4. down' \in [Seat -> Seq(Frames)]
  <2>1. down \in [Seat -> Seq(Frames)]
    BY DEF TypeOK, Frames
  <2>2. "closed" \in Frames /\ Other(s) \in Seat
    BY OtherSeat DEF Frames
  <2> QED
    BY <2>1, <2>2, SentTypes DEF EndTable
<1> QED
  BY <1>1, <1>2, <1>3, <1>4

\* Every callback keeps the types.  What it leaves alone is not named.
LEMMA TypesKept == TypeOK /\ [Next]_vars => TypeOK'
<1> SUFFICES ASSUME TypeOK, [Next]_vars
             PROVE  TypeOK'
  OBVIOUS
<1> DEFINE Clients == [Seat -> [shows : {"waiting", "active", "closed"}, turn : Seat]]
<1>a. /\ up \in [Seat -> Seq(FromClients)] /\ down \in [Seat -> Seq(Frames)]
      /\ client \in Clients
  BY DEF TypeOK, FromClients, Frames
<1>b. ASSUME up' \in [Seat -> Seq(FromClients)], down' \in [Seat -> Seq(Frames)], client' \in Clients,
             now' \in Nat, status' \in Status, turn' \in Seat, consumed' \in [Seat -> BOOLEAN],
             connected' \in [Seat -> BOOLEAN], rate' \in [Seat -> 0 .. RateCap],
             tokens' \subseteq [seat : Seat, exp : Nat], joining' \subseteq Seat, sock' \in [Seat -> Socket],
             played' \in [Seat -> Nat], got' \in [Seat -> Nat]
      PROVE  TypeOK'
  BY <1>b DEF TypeOK, FromClients, Frames
<1> USE <1>a
<1> HIDE DEF Clients
<1>1. ASSUME NEW s \in Seat, OpenTable(s)
      PROVE  TypeOK'
  <2>1. mintJoinToken(s) \in [seat : Seat, exp : Nat]
    BY DEF TypeOK, mintJoinToken
  <2> QED
    BY <1>1, <2>1, <1>b DEF OpenTable, TypeOK, Status, net
<1>2. ASSUME NEW s \in Seat, JoinCheck(s)
      PROVE  TypeOK'
  BY <1>2, <1>b DEF JoinCheck, TypeOK, table, net
<1>3. ASSUME NEW s \in Seat, JoinMint(s)
      PROVE  TypeOK'
  <2>1. mintJoinToken(s) \in [seat : Seat, exp : Nat]
    BY DEF TypeOK, mintJoinToken
  <2> QED
    BY <1>3, <2>1, <1>b DEF JoinMint, TypeOK, table, net
<1>4. ASSUME NEW s \in Seat, Land(s) \/ Miss(s)
      PROVE  TypeOK'
  <2>1. /\ status' \in Status /\ consumed' \in [Seat -> BOOLEAN] /\ connected' \in [Seat -> BOOLEAN]
        /\ rate' \in [Seat -> 0 .. RateCap] /\ turn' \in Seat
    <3>1. status' \in Status
      BY <1>4 DEF Land, Miss, Redeem, Status
    <3>2. consumed' \in [Seat -> BOOLEAN] /\ connected' \in [Seat -> BOOLEAN]
      BY <1>4, ExceptIn DEF Land, Miss, Redeem, TypeOK
    <3>3. rate' \in [Seat -> 0 .. RateCap]
      <4>1. RateCap \in 0 .. RateCap
        OBVIOUS
      <4> QED
        BY <1>4, <4>1, ExceptIn DEF Land, Miss, Redeem, TypeOK
    <3>4. turn' \in Seat
      BY <1>4 DEF Land, Miss, Redeem, TypeOK
    <3> QED
      BY <3>1, <3>2, <3>3, <3>4
  <2>2. sock' \in [Seat -> Socket]
    BY <1>4 DEF Land, Miss, TypeOK, Socket
  <2>3. down' \in [Seat -> Seq(Frames)]
    <3>1. /\ "active" \in Frames /\ "waiting" \in Frames /\ Other(s) \in Seat
          /\ <<"active", "active">> \in Seq(Frames) /\ <<"waiting">> \in Seq(Frames)
      BY OtherSeat DEF Frames
    <3>2. Sent(Other(s), "active") \in [Seat -> Seq(Frames)]
      BY <3>1, SentTypes
    <3> QED
      BY <1>4, <3>1, <3>2 DEF Land, Miss
  <2> QED
    BY <1>4, <2>1, <2>2, <2>3, <1>b DEF Land, Miss, TypeOK
<1>5. ASSUME NEW s \in Seat, Rollback(s) \/ Closed(s)
      PROVE  TypeOK'
  <2>1. EndTable(s)
    BY <1>5 DEF Rollback, Closed
  <2> QED
    BY <1>5, <2>1, EndTableTypes, <1>b DEF Rollback, Closed, TypeOK
<1>6. ASSUME NEW s \in Seat, Reject(s) \/ RateLimit(s) \/ Relay(s)
      PROVE  TypeOK'
  <2>1. up' \in [Seat -> Seq(FromClients)]
    <3>1. Tail(up[s]) \in Seq(FromClients)
      BY <1>6 DEF Reject, RateLimit, Relay, Arrives
    <3> QED
      BY <1>6, <3>1 DEF Reject, RateLimit, Relay, Arrives
  <2>2. down' \in [Seat -> Seq(Frames)]
    <3>1. "error" \in Frames /\ Other(s) \in Seat
      BY OtherSeat DEF Frames
    <3>2. CASE Relay(s)
      <4>1. Head(up[s]) \in FromClients
        BY <1>6 DEF Reject, RateLimit, Relay, Arrives
      <4>2. Head(up[s]) \in Frames
        BY <4>1, <3>2 DEF Relay, Unreadable, Frames, FromClients
      <4> QED
        BY <3>1, <3>2, <4>2, SentTypes DEF Relay
    <3> QED
      BY <1>6, <3>1, <3>2, SentTypes DEF Reject, RateLimit
  <2>3. sock' \in [Seat -> Socket] /\ turn' \in Seat
    <3>1. sock \in [Seat -> Socket] /\ turn \in Seat /\ "closing" \in Socket
      BY DEF TypeOK, Socket
    <3>2. CASE Reject(s) \/ RateLimit(s)
      <4>1. sock' = [sock EXCEPT ![s] = "closing"] /\ turn' = turn
        BY <3>2 DEF Reject, RateLimit, Refuse
      <4> QED
        BY <3>1, <4>1, ExceptIn
    <3>3. CASE Relay(s)
      BY <3>1, <3>3, OtherSeat DEF Relay, NextTurn
    <3> QED
      BY <1>6, <3>2, <3>3
  <2>4. rate' \in [Seat -> 0 .. RateCap]
    <3>1. rate \in [Seat -> 0 .. RateCap]
      BY DEF TypeOK
    <3>2. CASE Reject(s) \/ RateLimit(s)
      BY <3>1, <3>2 DEF Reject, RateLimit
    <3>3. CASE Relay(s)
      <4>1. rate[s] - 1 \in 0 .. RateCap
        BY <3>1, <3>3 DEF Relay, MayMove
      <4> QED
        BY <3>1, <3>3, <4>1, ExceptIn DEF Relay
    <3> QED
      BY <1>6, <3>2, <3>3
  <2> QED
    BY <1>6, <2>1, <2>2, <2>3, <2>4, <1>b DEF Reject, RateLimit, Relay, Arrives, TypeOK
<1>7. ASSUME NEW s \in Seat, Drop(s) \/ Garble(s) \/ \E f \in {"move", "continue"} : Play(s, f)
      PROVE  TypeOK'
  <2>1. up' \in [Seat -> Seq(FromClients)]
    <3>1. <<"garbled">> \in Seq(FromClients)
          /\ \A f \in {"move", "continue"} : Append(up[s], f) \in Seq(FromClients)
      BY DEF FromClients
    <3> QED
      BY <1>7, <3>1, ZenonT(40) DEF Drop, Garble, Play
  <2>2. sock' \in [Seat -> Socket] /\ played' \in [Seat -> Nat]
    <3>1. sock \in [Seat -> Socket] /\ "closing" \in Socket /\ played \in [Seat -> Nat] /\ played[s] + 1 \in Nat
      BY DEF TypeOK, Socket
    <3>2. \/ sock' = [sock EXCEPT ![s] = "closing"] /\ played' = played
          \/ sock' = sock /\ played' = played
          \/ sock' = sock /\ played' = [played EXCEPT ![s] = played[s] + 1]
      BY <1>7 DEF Drop, Garble, Play
    <3>3. sock' \in [Seat -> Socket]
      BY <3>1, <3>2, ExceptIn
    <3>4. played' \in [Seat -> Nat]
      BY <3>1, <3>2, ExceptIn
    <3> QED
      BY <3>3, <3>4
  <2>3. client' \in Clients
    BY <1>7, OtherSeat DEF Drop, Garble, Play, Clients
  <2> QED
    <3>1. UNCHANGED <<now, table, tokens, joining, got, down>>
      BY <1>7 DEF Drop, Garble, Play
    <3> QED
      BY <2>1, <2>2, <2>3, <3>1, <1>b DEF TypeOK, table
<1>8. ASSUME NEW s \in Seat, Receive(s)
      PROVE  TypeOK'
  <2>1. down' \in [Seat -> Seq(Frames)]
    <3>1. Tail(down[s]) \in Seq(Frames)
      BY <1>8 DEF Receive
    <3> QED
      BY <1>8, <3>1 DEF Receive
  <2>2. client' \in Clients
    <3>1. client[s] \in [shows : {"waiting", "active", "closed"}, turn : Seat]
      BY DEF Clients
    <3>2. \A f \in {"waiting", "active", "closed"} :
            [client[s] EXCEPT !.shows = f] \in [shows : {"waiting", "active", "closed"}, turn : Seat]
      BY <3>1
    <3>3. [client[s] EXCEPT !.turn = s] \in [shows : {"waiting", "active", "closed"}, turn : Seat]
      BY <3>1
    <3> QED
      BY <1>8, <3>1, <3>2, <3>3, ExceptIn DEF Receive, Clients
  <2>3. got' \in [Seat -> Nat]
    <3>1. got \in [Seat -> Nat] /\ got[s] + 1 \in Nat
      BY DEF TypeOK
    <3> QED
      BY <1>8, <3>1, ExceptIn DEF Receive
  <2> QED
    BY <1>8, <2>1, <2>2, <2>3, <1>b DEF Receive, TypeOK, table
<1>9. ASSUME Sweep
      PROVE  TypeOK'
  BY <1>9, <1>b DEF Sweep, TypeOK, Status, Socket
<1>10. ASSUME Tick
       PROVE  TypeOK'
  <2>1. OfSeats(RateCap) \in [Seat -> 0 .. RateCap]
    BY DEF OfSeats
  <2> QED
    <3>1. UNCHANGED <<status, consumed, connected, turn, tokens, joining, sock, up, down, client, played, got>>
      BY <1>10 DEF Tick, net
    <3>2. now' \in Nat
      BY <1>10 DEF Tick, TypeOK
    <3>3. rate' \in [Seat -> 0 .. RateCap]
      BY <1>10, <2>1 DEF Tick
    <3> QED
      BY <3>1, <3>2, <3>3, <1>b DEF TypeOK
<1>11. ASSUME UNCHANGED vars
       PROVE  TypeOK'
  BY <1>11, <1>b DEF vars, table, net, TypeOK
<1> QED
  BY <1>1, <1>2, <1>3, <1>4, <1>5, <1>6, <1>7, <1>8, <1>9, <1>10, <1>11 DEF Next, Serve

\* game_tables.mjs: a token is consumed, the seat connected and its socket made in
\* one callback; a table nobody opened has none of them.
SeatsAgree ==
  /\ \A s \in Seat : consumed[s] <=> sock[s] # "none"
  /\ status = "none" => \A s \in Seat : ~consumed[s] /\ ~connected[s]

TableInv == TypeOK /\ SeatsAgree /\ TableEndsForBoth

LEMMA TableInvInit == Init => TableInv
<1> SUFFICES ASSUME Init
             PROVE  TableInv
  OBVIOUS
<1>1. TypeOK
  <2>1. /\ up \in [Seat -> Seq({"move", "continue", "garbled"})]
        /\ down \in [Seat -> Seq({"waiting", "active", "move", "continue", "error", "closed"})]
    BY DEF Init, OfSeats
  <2>2. /\ client \in [Seat -> [shows : {"waiting", "active", "closed"}, turn : Seat]]
        /\ played \in [Seat -> Nat] /\ got \in [Seat -> Nat] /\ rate \in [Seat -> 0 .. RateCap]
    BY DEF Init, OfSeats, Seat
  <2>3. /\ sock \in [Seat -> Socket] /\ consumed \in [Seat -> BOOLEAN] /\ connected \in [Seat -> BOOLEAN]
        /\ now \in Nat /\ status \in Status /\ turn \in Seat /\ tokens = {} /\ joining = {}
    BY DEF Init, OfSeats, Seat, Socket, Status
  <2> QED
    BY <2>1, <2>2, <2>3 DEF TypeOK
<1>2. SeatsAgree
  BY DEF Init, SeatsAgree, OfSeats
<1>3. NoStrandedPeer /\ NoOrphanSocket
  BY DEF Init, NoStrandedPeer, NoOrphanSocket, Exists, OfSeats
<1> QED
  BY <1>1, <1>2, <1>3 DEF TableInv, TableEndsForBoth
\* What the invariant says besides the types reads these four only.
Ends == SeatsAgree /\ TableEndsForBoth

\* Callbacks that leave the entry and the sockets alone.
LEMMA QuietEnds ==
  ASSUME Ends, UNCHANGED <<status, consumed, connected, sock>>
  PROVE  Ends'
BY DEF Ends, SeatsAgree, TableEndsForBoth, NoStrandedPeer, NoOrphanSocket, Exists

\* redeemJoin: a seat nobody took gets its socket, whether the handshake lands or not.
LEMMA RedeemEnds ==
  ASSUME TypeOK, Ends, NEW s \in Seat, Redeem(s), NEW new \in {"open", "failing"},
         sock' = [sock EXCEPT ![s] = new]
  PROVE  Ends'
<1>1. /\ Exists /\ Exists' /\ status' # "none" /\ status' # "gone"
      /\ consumed' = [consumed EXCEPT ![s] = TRUE] /\ connected' = [connected EXCEPT ![s] = TRUE]
  BY DEF Redeem, Redeemable, Exists
<1>2. \A t \in Seat : t # s => sock'[t] = sock[t] /\ consumed'[t] = consumed[t] /\ connected'[t] = connected[t]
  BY <1>1 DEF TypeOK
<1>3. sock'[s] = new /\ consumed'[s] /\ connected'[s]
  BY <1>1 DEF TypeOK
<1>4. SeatsAgree'
  BY <1>1, <1>2, <1>3 DEF Ends, SeatsAgree
<1>5. NoStrandedPeer'
  BY <1>1, <1>2, <1>3 DEF Ends, TableEndsForBoth, NoStrandedPeer
<1>6. NoOrphanSocket'
  BY <1>1 DEF NoOrphanSocket
<1> QED
  BY <1>4, <1>5, <1>6 DEF Ends, TableEndsForBoth

\* game_tables.mjs, endTable, of a seat that has a socket: on a table that is gone
\* already there is nothing left to end.
LEMMA EndTableEnds ==
  ASSUME TypeOK, Ends, NEW s \in Seat, EndTable(s), sock[s] # "none", UNCHANGED consumed
  PROVE  Ends'
<1>1. status # "none"
  BY DEF Ends, SeatsAgree
<1>2. status' = "gone"
  BY <1>1 DEF EndTable, onSeatDisconnected, Exists, TypeOK, Status
<1>3. \A t \in Seat : sock'[t] = "none" <=> sock[t] = "none"
  BY DEF EndTable
<1>4. \A t \in Seat : sock'[t] # "open"
  <2>1. CASE Exists
    BY <2>1 DEF EndTable
  <2>2. CASE ~Exists
    <3>1. status = "gone"
      BY <1>1, <2>2 DEF TypeOK, Status, Exists
    <3> QED
      BY <2>2, <3>1 DEF EndTable, Ends, TableEndsForBoth, NoOrphanSocket
  <2> QED
    BY <2>1, <2>2
<1>5. SeatsAgree'
  BY <1>2, <1>3 DEF Ends, SeatsAgree
<1>6. NoStrandedPeer' /\ NoOrphanSocket'
  BY <1>2, <1>4 DEF NoStrandedPeer, NoOrphanSocket, Exists
<1> QED
  BY <1>5, <1>6 DEF Ends, TableEndsForBoth

\* A socket of the table starts to close, by a refused frame or because its client left.
LEMMA ClosingEnds ==
  ASSUME TypeOK, Ends, NEW s \in Seat, sock[s] \in {"open", "closing"},
         sock' = [sock EXCEPT ![s] = "closing"], UNCHANGED <<status, consumed, connected>>
  PROVE  Ends'
<1>1. \A t \in Seat : (sock'[t] = "none" <=> sock[t] = "none") /\ (sock'[t] = "shut" <=> sock[t] = "shut")
                     /\ (sock'[t] = "open" => sock[t] = "open")
  BY DEF TypeOK
<1>2. SeatsAgree'
  BY <1>1 DEF Ends, SeatsAgree
<1>3. NoStrandedPeer'
  BY <1>1 DEF Ends, TableEndsForBoth, NoStrandedPeer, Exists
<1>4. NoOrphanSocket'
  BY <1>1 DEF Ends, TableEndsForBoth, NoOrphanSocket
<1> QED
  BY <1>2, <1>3, <1>4 DEF Ends, TableEndsForBoth

\* The sweep closes what is open, and the entry goes with it.
LEMMA SweepEnds ==
  ASSUME TypeOK, Ends, Sweep
  PROVE  Ends'
<1>1. status' = "gone" /\ UNCHANGED consumed
  BY DEF Sweep
<1>2. \A t \in Seat : (sock'[t] = "none" <=> sock[t] = "none") /\ sock'[t] # "open"
  BY DEF Sweep
<1>3. SeatsAgree'
  BY <1>1, <1>2 DEF Ends, SeatsAgree
<1>4. NoStrandedPeer' /\ NoOrphanSocket'
  BY <1>1, <1>2 DEF NoStrandedPeer, NoOrphanSocket, Exists
<1> QED
  BY <1>3, <1>4 DEF Ends, TableEndsForBoth

LEMMA EndsKept == TypeOK /\ Ends /\ [Next]_vars => Ends'
<1> SUFFICES ASSUME TypeOK, Ends, [Next]_vars
             PROVE  Ends'
  OBVIOUS
<1>1. ASSUME NEW s \in Seat, OpenTable(s)
      PROVE  Ends'
  <2>1. status = "none" /\ status' = "pending" /\ UNCHANGED <<consumed, connected, sock>>
    BY <1>1 DEF OpenTable, net
  <2>2. SeatsAgree'
    BY <2>1 DEF Ends, SeatsAgree
  <2>3. NoStrandedPeer' /\ NoOrphanSocket'
    BY <2>1 DEF Ends, SeatsAgree, NoStrandedPeer, NoOrphanSocket
  <2> QED
    BY <2>2, <2>3 DEF Ends, TableEndsForBoth
<1>2. ASSUME NEW s \in Seat, JoinCheck(s) \/ JoinMint(s) \/ Garble(s) \/ Receive(s) \/ Relay(s)
                          \/ (\E f \in {"move", "continue"} : Play(s, f))
      PROVE  Ends'
  <2>1. UNCHANGED <<status, consumed, connected, sock>>
    BY <1>2 DEF JoinCheck, JoinMint, Garble, Receive, Relay, Arrives, Play, table, net
  <2> QED
    BY <2>1, QuietEnds
<1>3. ASSUME NEW s \in Seat, Land(s) \/ Miss(s)
      PROVE  Ends'
  BY <1>3, RedeemEnds DEF Land, Miss
<1>4. ASSUME NEW s \in Seat, Rollback(s) \/ Closed(s)
      PROVE  Ends'
  BY <1>4, EndTableEnds DEF Rollback, Closed
<1>5. ASSUME NEW s \in Seat, Reject(s) \/ RateLimit(s)
      PROVE  Ends'
  <2>1. /\ sock[s] \in {"open", "closing"} /\ sock' = [sock EXCEPT ![s] = "closing"]
        /\ UNCHANGED <<status, consumed, connected>>
    BY <1>5 DEF Reject, RateLimit, Arrives, Refuse
  <2> QED
    BY <2>1, ClosingEnds
<1>6. ASSUME NEW s \in Seat, Drop(s)
      PROVE  Ends'
  BY <1>6, ClosingEnds DEF Drop, table
<1>7. ASSUME Sweep
      PROVE  Ends'
  BY <1>7, SweepEnds
<1>8. ASSUME Tick \/ UNCHANGED vars
      PROVE  Ends'
  BY <1>8, QuietEnds DEF Tick, vars, table, net
<1> QED
  BY <1>1, <1>2, <1>3, <1>4, <1>5, <1>6, <1>7, <1>8 DEF Next, Serve

\* The types hold and a seat's flags agree with its socket, always.
THEOREM TableInvariant == Spec => []TableInv
<1>1. TableInv /\ [Next]_vars => TableInv'
  BY TypesKept, EndsKept DEF TableInv, Ends
<1> QED
  BY <1>1, TableInvInit, PTL DEF Spec

\* GameTable.TypeOK: the variables keep their types.
THEOREM TableTypes == Spec => []TypeOK
BY TableInvariant, PTL DEF TableInv

\* GameTable.TableEndsForBoth, game_tables.mjs:251-272 and table.ts T7: in whatever
\* order a disconnect, a handshake that never lands and the sweep reach a table, no
\* seat is left at an active table without a peer, and no socket stays open when the
\* table is gone.
THEOREM TableAlwaysEndsForBoth == Spec => []TableEndsForBoth
BY TableInvariant, PTL DEF TableInv

\* GameTable.SingleUse, table.ts T2: however many tokens were minted for a seat, it
\* gets one socket in the life of the table.
THEOREM SeatsAreSingleUse == Spec => SingleUse
<1> DEFINE NewSocket ==
      \A s \in Seat : sock'[s] # sock[s] /\ sock'[s] \in {"open", "failing"} =>
        sock[s] = "none" /\ ~(status = "pending" /\ now > JoinTTL)
<1>1. TableInv /\ [Next]_vars => NewSocket \/ UNCHANGED vars
  <2> SUFFICES ASSUME TableInv, Next, NEW t \in Seat, sock'[t] # sock[t], sock'[t] \in {"open", "failing"}
               PROVE  sock[t] = "none" /\ ~(status = "pending" /\ now > JoinTTL)
    OBVIOUS
  <2>1. sock \in [Seat -> Socket]
    BY DEF TableInv, TypeOK
  <2>2. PICK s \in Seat : Land(s) \/ Miss(s)
    <3>1. ASSUME NEW s \in Seat, OpenTable(s) \/ JoinCheck(s) \/ JoinMint(s) \/ Garble(s) \/ Receive(s) \/ Relay(s)
                          \/ (\E f \in {"move", "continue"} : Play(s, f))
          PROVE  FALSE
      BY <3>1 DEF OpenTable, JoinCheck, JoinMint, Garble, Receive, Relay, Play, net
    <3>2. ASSUME NEW s \in Seat, Rollback(s) \/ Closed(s)
          PROVE  FALSE
      BY <3>2 DEF Rollback, Closed, EndTable
    <3>3. ASSUME NEW s \in Seat, Reject(s) \/ RateLimit(s) \/ Drop(s)
          PROVE  FALSE
      <4>1. sock' = [sock EXCEPT ![s] = "closing"]
        BY <3>3 DEF Reject, RateLimit, Refuse, Drop
      <4> QED
        BY <2>1, <4>1
    <3>4. ASSUME Sweep \/ Tick
          PROVE  FALSE
      BY <3>4 DEF Sweep, Tick, net
    <3> QED
      BY <3>1, <3>2, <3>3, <3>4 DEF Next, Serve
  <2>3. Redeemable(s) /\ t = s
    BY <2>1, <2>2 DEF Land, Miss, Redeem
  <2>4. ~consumed[s] /\ ~(now > JoinTTL /\ status = "pending")
    BY <2>3 DEF Redeemable
  <2> QED
    BY <2>3, <2>4 DEF TableInv, SeatsAgree
<1>2. TableInv /\ [Next]_vars => [NewSocket]_vars
  BY <1>1
<1> QED
  BY <1>2, TableInvariant, PTL DEF Spec, SingleUse

-----------------------------------------------------------------------------
(* Honest moves. *)

HonestFrame == {"move", "continue"}

Has(q, kinds) == \E k \in DOMAIN q : q[k] \in kinds

\* A move is the last frame of a queue; there is one at most.
MoveIsLast(q) == \A k \in DOMAIN q : q[k] = "move" => k = Len(q)
OneMove(q) == \A j, k \in DOMAIN q : q[j] = "move" /\ q[k] = "move" => j = k

LEMMA AppendHas ==
  ASSUME NEW S, NEW q \in Seq(S), NEW f \in S, NEW kinds
  PROVE  /\ Has(Append(q, f), kinds) <=> Has(q, kinds) \/ f \in kinds
         /\ ~Has(q, {"move"}) => MoveIsLast(Append(q, f)) /\ OneMove(Append(q, f))
         /\ OneMove(q) /\ f # "move" => OneMove(Append(q, f))
<1>1. /\ DOMAIN Append(q, f) = 1 .. Len(q) + 1 /\ DOMAIN q = 1 .. Len(q) /\ Len(q) \in Nat
      /\ Len(Append(q, f)) = Len(q) + 1
      /\ \A k \in 1 .. Len(q) : Append(q, f)[k] = q[k]
      /\ Append(q, f)[Len(q) + 1] = f
  OBVIOUS
<1> HIDE DEF Has
<1>2. PICK n, p : n \in Nat /\ n = Len(q) /\ p = Append(q, f)
  BY <1>1
<1>3. /\ n \in Nat
      /\ DOMAIN p = 1 .. n + 1 /\ DOMAIN q = 1 .. n /\ Len(p) = n + 1
      /\ \A k \in 1 .. n : p[k] = q[k]
      /\ p[n + 1] = f
  BY <1>1, <1>2
<1>4. Has(p, kinds) <=> Has(q, kinds) \/ f \in kinds
  BY <1>3 DEF Has
<1>5. ~Has(q, {"move"}) => MoveIsLast(p) /\ OneMove(p)
  BY <1>3 DEF Has, MoveIsLast, OneMove
<1>6. OneMove(q) /\ f # "move" => OneMove(p)
  BY <1>3 DEF OneMove
<1> QED
  BY <1>2, <1>4, <1>5, <1>6

LEMMA TailHas ==
  ASSUME NEW S, NEW q \in Seq(S), q # <<>>, NEW kinds
  PROVE  /\ Tail(q) \in Seq(S) /\ Head(q) \in S
         /\ Has(q, kinds) <=> Head(q) \in kinds \/ Has(Tail(q), kinds)
         /\ MoveIsLast(q) => MoveIsLast(Tail(q)) /\ (Head(q) = "move" => Tail(q) = <<>>)
         /\ OneMove(q) => OneMove(Tail(q)) /\ (Head(q) = "move" => ~Has(Tail(q), {"move"}))
<1>1. /\ Tail(q) \in Seq(S) /\ Head(q) \in S /\ Head(q) = q[1] /\ Len(q) \in Nat /\ Len(q) > 0
      /\ DOMAIN Tail(q) = 1 .. Len(q) - 1 /\ Len(Tail(q)) = Len(q) - 1 /\ DOMAIN q = 1 .. Len(q)
      /\ \A k \in 1 .. Len(q) - 1 : Tail(q)[k] = q[k + 1]
  OBVIOUS
<1>2. PICK n \in Nat, p \in Seq(S) : n = Len(q) - 1 /\ p = Tail(q)
  <2>1. Len(q) - 1 \in Nat
    BY <1>1
  <2> QED
    BY <1>1, <2>1
<1>3. /\ DOMAIN p = 1 .. n /\ Len(p) = n /\ DOMAIN q = 1 .. n + 1 /\ Len(q) = n + 1
      /\ \A k \in 1 .. n : p[k] = q[k + 1]
      /\ Head(q) = q[1]
  BY <1>1, <1>2
<1>4. \A k \in 2 .. n + 1 : k - 1 \in 1 .. n /\ p[k - 1] = q[k]
  BY <1>3
<1>5. Has(q, kinds) <=> Head(q) \in kinds \/ Has(p, kinds)
  <2>1. ASSUME NEW k \in DOMAIN q, q[k] \in kinds PROVE Head(q) \in kinds \/ Has(p, kinds)
    <3>1. CASE k = 1
      BY <1>3, <2>1, <3>1
    <3>2. CASE k # 1
      <4>1. k - 1 \in DOMAIN p /\ p[k - 1] \in kinds
        BY <1>3, <1>4, <2>1, <3>2
      <4> QED
        BY <4>1 DEF Has
    <3> QED
      BY <3>1, <3>2
  <2>2. ASSUME NEW k \in DOMAIN p, p[k] \in kinds PROVE Has(q, kinds)
    <3>1. k + 1 \in DOMAIN q /\ q[k + 1] \in kinds
      BY <1>3, <2>2
    <3> QED
      BY <3>1 DEF Has
  <2>3. Head(q) \in kinds => Has(q, kinds)
    <3>1. 1 \in DOMAIN q
      BY <1>3
    <3> QED
      BY <1>3, <3>1 DEF Has
  <2> QED
    BY <2>1, <2>2, <2>3 DEF Has
<1>6. MoveIsLast(q) => MoveIsLast(p) /\ (Head(q) = "move" => p = <<>>)
  <2>1. ASSUME MoveIsLast(q) PROVE MoveIsLast(p)
    BY <1>3, <2>1 DEF MoveIsLast
  <2>2. ASSUME MoveIsLast(q), Head(q) = "move" PROVE p = <<>>
    <3>1. n = 0
      BY <1>3, <2>2 DEF MoveIsLast
    <3> QED
      BY <1>2, <1>3, <3>1
  <2> QED
    BY <2>1, <2>2
<1>7. OneMove(q) => OneMove(p) /\ (Head(q) = "move" => ~Has(p, {"move"}))
  <2>1. ASSUME OneMove(q), NEW j \in DOMAIN p, NEW k \in DOMAIN p, p[j] = "move", p[k] = "move" PROVE j = k
    <3>1. j + 1 \in DOMAIN q /\ k + 1 \in DOMAIN q /\ q[j + 1] = "move" /\ q[k + 1] = "move"
      BY <1>3, <2>1
    <3>2. j + 1 = k + 1
      BY <2>1, <3>1 DEF OneMove
    <3> QED
      BY <1>3, <3>2
  <2>2. ASSUME OneMove(q), Head(q) = "move", NEW k \in DOMAIN p, p[k] = "move" PROVE FALSE
    <3>1. k + 1 \in DOMAIN q /\ 1 \in DOMAIN q /\ q[k + 1] = "move" /\ q[1] = "move"
      BY <1>3, <2>2
    <3>2. k + 1 = 1
      BY <2>2, <3>1 DEF OneMove
    <3> QED
      BY <1>3, <3>2
  <2> QED
    BY <2>1, <2>2 DEF OneMove, Has
<1> QED
  BY <1>1, <1>2, <1>5, <1>6, <1>7

LEMMA MovesCount ==
  ASSUME NEW S, NEW q \in Seq(S)
  PROVE  IsFiniteSet(MovesIn(q)) /\ Moves(q) \in Nat /\ (~Has(q, HonestFrame) => Moves(q) = 0)
<1>1. PICK n \in Nat : n = Len(q) /\ DOMAIN q = 1 .. n
  OBVIOUS
<1>2. IsFiniteSet(1 .. n)
  BY FS_Interval
<1>3. MovesIn(q) \subseteq 1 .. n
  BY <1>1 DEF MovesIn
<1>4. IsFiniteSet(MovesIn(q))
  BY <1>2, <1>3, FS_Subset
<1>5. ~Has(q, HonestFrame) => MovesIn(q) = {}
  BY DEF Has, HonestFrame, MovesIn
<1> QED
  BY <1>4, <1>5, FS_CardinalityType, FS_EmptySet DEF Moves

LEMMA AppendCounts ==
  ASSUME NEW S, NEW q \in Seq(S), NEW f \in S
  PROVE  Moves(Append(q, f)) = Moves(q) + (IF f \in HonestFrame THEN 1 ELSE 0)
<1>1. /\ DOMAIN Append(q, f) = 1 .. Len(q) + 1 /\ DOMAIN q = 1 .. Len(q) /\ Len(q) \in Nat
      /\ \A k \in 1 .. Len(q) : Append(q, f)[k] = q[k]
      /\ Append(q, f)[Len(q) + 1] = f
  OBVIOUS
<1>2. MovesIn(Append(q, f)) = IF f \in HonestFrame THEN MovesIn(q) \cup {Len(q) + 1} ELSE MovesIn(q)
  BY <1>1 DEF MovesIn, HonestFrame
<1>3. Len(q) + 1 \notin MovesIn(q)
  BY <1>1 DEF MovesIn
<1>4. CASE f \in HonestFrame
  BY <1>2, <1>3, <1>4, MovesCount, FS_AddElement DEF Moves
<1>5. CASE f \notin HonestFrame
  BY <1>2, <1>5, MovesCount DEF Moves
<1> QED
  BY <1>4, <1>5

LEMMA TailCounts ==
  ASSUME NEW S, NEW q \in Seq(S), q # <<>>
  PROVE  Moves(q) = Moves(Tail(q)) + (IF Head(q) \in HonestFrame THEN 1 ELSE 0)
<1>1. /\ Tail(q) \in Seq(S) /\ Head(q) = q[1] /\ Len(q) \in Nat /\ Len(q) > 0
      /\ DOMAIN Tail(q) = 1 .. Len(q) - 1 /\ DOMAIN q = 1 .. Len(q)
      /\ \A k \in 1 .. Len(q) - 1 : Tail(q)[k] = q[k + 1]
  OBVIOUS
<1>2. PICK n \in Nat : n = Len(q) - 1
  <2>1. Len(q) - 1 \in Nat
    BY <1>1
  <2> QED
    BY <2>1
<1> DEFINE later == MovesIn(q) \ {1}
           next == [k \in MovesIn(Tail(q)) |-> k + 1]
<1>3. next \in Bijection(MovesIn(Tail(q)), later)
  <2>1. next \in [MovesIn(Tail(q)) -> later]
    <3>1. \A k \in MovesIn(Tail(q)) : k + 1 \in later
      BY <1>1, <1>2 DEF MovesIn
    <3> QED
      BY <3>1
  <2>2. \A a, b \in MovesIn(Tail(q)) : next[a] = next[b] => a = b
    <3>1. MovesIn(Tail(q)) \subseteq Nat
      BY <1>1, <1>2 DEF MovesIn
    <3> QED
      BY <3>1
  <2>3. \A t \in later : \E k \in MovesIn(Tail(q)) : next[k] = t
    <3>1. ASSUME NEW t \in later PROVE t - 1 \in MovesIn(Tail(q)) /\ (t - 1) + 1 = t
      <4>1. t \in 2 .. n + 1 /\ q[t] \in {"move", "continue"}
        BY <1>1, <1>2 DEF MovesIn
      <4>2. t - 1 \in 1 .. n /\ (t - 1) + 1 = t
        BY <4>1
      <4>3. Tail(q)[t - 1] = q[t]
        BY <1>1, <1>2, <4>2
      <4> QED
        BY <1>1, <1>2, <4>1, <4>2, <4>3 DEF MovesIn
    <3> QED
      BY <3>1
  <2> HIDE DEF next, later
  <2> QED
    BY <2>1, <2>2, <2>3, Fun_IsBij
<1>4. Cardinality(later) = Moves(Tail(q)) /\ IsFiniteSet(later)
  <2> HIDE DEF later, next
  <2>1. ExistsBijection(MovesIn(Tail(q)), later)
    BY <1>3 DEF ExistsBijection
  <2> QED
    BY <1>1, <2>1, MovesCount, FS_Bijection DEF Moves
<1>5. IF Head(q) \in HonestFrame THEN 1 \in MovesIn(q) ELSE 1 \notin MovesIn(q)
  BY <1>1 DEF MovesIn, HonestFrame
<1>6. IsFiniteSet(MovesIn(q)) /\ Moves(q) \in Nat /\ Moves(Tail(q)) \in Nat
  BY <1>1, MovesCount
<1>7. CASE Head(q) \in HonestFrame
  <2>1. Cardinality(later) = Cardinality(MovesIn(q)) - 1
    BY <1>5, <1>6, <1>7, FS_RemoveElement
  <2> QED
    BY <1>4, <1>6, <1>7, <2>1 DEF Moves
<1>8. CASE Head(q) \notin HonestFrame
  <2>1. later = MovesIn(q)
    BY <1>5, <1>8
  <2> HIDE DEF later
  <2>2. Moves(q) = Moves(Tail(q))
    BY <1>4, <2>1 DEF Moves
  <2> QED
    BY <1>6, <1>8, <2>2
<1> QED
  BY <1>7, <1>8

-----------------------------------------------------------------------------
\* The turn is with one seat: its board may play, or the move that gives it away is on
\* its way to the server, or the move that brought it is on its way to the board.
Turns(s) ==
  /\ client[s].turn = s \/ Has(up[s], HonestFrame) \/ Has(down[s], {"move"}) => turn = s
  /\ client[s].turn = s => ~Has(up[s], {"move"}) /\ ~Has(down[s], {"move"})
  /\ Has(up[s], {"move"}) => ~Has(down[s], {"move"})
  /\ MoveIsLast(up[s]) /\ OneMove(down[s])

\* Nobody plays before both are there.
Begun ==
  /\ status = "active" => \A s \in Seat : consumed[s]
  /\ \A s \in Seat :
       client[s].shows = "active" \/ Has(down[s], {"active"}) \/ Has(up[s], HonestFrame)
         => status \in {"active", "gone"}
  /\ status \in {"none", "pending"} =>
       \A s \in Seat : played[s] = 0 /\ got[s] = 0 /\ ~Has(down[s], HonestFrame)

FairInv == TableInv /\ (\A s \in Seat : Turns(s)) /\ Begun /\ NoLostMove

LEMMA NoFrames == /\ \A kinds : ~Has(<<>>, kinds)
                  /\ MoveIsLast(<<>>) /\ OneMove(<<>>) /\ Moves(<<>>) = 0
<1>1. DOMAIN <<>> = {}
  OBVIOUS
<1>2. MovesIn(<<>>) = {}
  BY <1>1 DEF MovesIn
<1> QED
  BY <1>1, <1>2, FS_EmptySet DEF Has, MoveIsLast, OneMove, Moves

LEMMA FairInvPlays == FairInv => FairPlayInTurn
<1> SUFFICES ASSUME FairInv, Exists, NEW s \in Seat, sock[s] = "open", up[s] # <<>>, Head(up[s]) # "garbled"
             PROVE  InTurn(s)
  BY DEF FairPlayInTurn
<1>1. up[s] \in Seq(FromClients)
  BY DEF FairInv, TableInv, TypeOK, FromClients
<1>2. Has(up[s], HonestFrame)
  <2>1. Head(up[s]) \in HonestFrame
    BY <1>1, TailHas DEF FromClients, HonestFrame
  <2> QED
    BY <1>1, <2>1, TailHas
<1>3. status \in {"active", "gone"} /\ turn = s
  BY <1>2 DEF FairInv, Begun, Turns
<1> QED
  BY <1>3 DEF InTurn, Exists

LEMMA FairInvInit == Init => FairInv
<1> SUFFICES ASSUME Init PROVE FairInv
  OBVIOUS
<1>1. \A s \in Seat : /\ client[s] = [shows |-> "waiting", turn |-> 0] /\ up[s] = <<>> /\ down[s] = <<>>
                      /\ played[s] = 0 /\ got[s] = 0 /\ sock[s] = "none"
  BY DEF Init, OfSeats
<1>2. status = "none" /\ turn = 0
  BY DEF Init
<1>3. \A s \in Seat : Turns(s)
  BY <1>1, <1>2, NoFrames DEF Turns, Seat
<1>4. Begun
  BY <1>1, <1>2, NoFrames DEF Begun
<1>5. NoLostMove
  BY <1>1, OtherSeat DEF NoLostMove, Seat
<1> QED
  BY <1>3, <1>4, <1>5, TableInvInit DEF FairInv

LEMMA FairTypes ==
  ASSUME FairInv
  PROVE  /\ up \in [Seat -> Seq(FromClients)] /\ down \in [Seat -> Seq(Frames)]
         /\ \A s \in Seat : up[s] \in Seq(FromClients) /\ down[s] \in Seq(Frames)
         /\ client \in [Seat -> [shows : {"waiting", "active", "closed"}, turn : Seat]]
         /\ played \in [Seat -> Nat] /\ got \in [Seat -> Nat] /\ sock \in [Seat -> Socket]
         /\ consumed \in [Seat -> BOOLEAN] /\ status \in Status /\ turn \in Seat
BY DEF FairInv, TableInv, TypeOK, FromClients, Frames

\* game_tables.mjs, safeSend: one frame more for an open socket, or none.
LEMMA SentIs ==
  ASSUME down \in [Seat -> Seq(Frames)], NEW t \in Seat, NEW f \in Frames, NEW s \in Seat
  PROVE  /\ Sent(t, f)[s] = down[s] \/ Sent(t, f)[s] = Append(down[s], f)
         /\ s # t \/ sock[t] # "open" => Sent(t, f)[s] = down[s]
         /\ s = t /\ sock[t] = "open" => Sent(t, f)[s] = Append(down[s], f)
BY DEF Sent

LEMMA SentHas ==
  ASSUME down \in [Seat -> Seq(Frames)], NEW t \in Seat, NEW f \in Frames, f # "move", NEW s \in Seat, NEW kinds
  PROVE  /\ Has(Sent(t, f)[s], kinds) => Has(down[s], kinds) \/ f \in kinds
         /\ OneMove(down[s]) => OneMove(Sent(t, f)[s])
<1>1. Sent(t, f)[s] = down[s] \/ Sent(t, f)[s] = Append(down[s], f)
  BY SentIs
<1> QED
  BY <1>1, AppendHas

\* Frames that are no moves disturb no turn, and nothing if the board is not told
\* that the table is active.
LEMMA NothingPlayed ==
  ASSUME FairInv, UNCHANGED <<status, consumed, turn, client, up, played, got>>,
         NEW t \in Seat, NEW f \in {"error", "closed"}, down' \in {down, Sent(t, f)}
  PROVE  (\A s \in Seat : Turns(s)') /\ Begun'
<1>1. ASSUME NEW s \in Seat, NEW kinds
      PROVE  /\ Has(down'[s], kinds) => Has(down[s], kinds) \/ f \in kinds
             /\ OneMove(down[s]) => OneMove(down'[s])
  <2>1. f \in Frames /\ f # "move"
    BY DEF Frames
  <2> QED
    BY <2>1, FairTypes, SentHas
<1>2. ASSUME NEW s \in Seat PROVE Turns(s)'
  <2>1. Has(down'[s], {"move"}) => Has(down[s], {"move"})
    BY <1>1
  <2>2. OneMove(down'[s])
    BY <1>1 DEF FairInv, Turns
  <2> QED
    BY <2>1, <2>2 DEF FairInv, Turns
<1>3. Begun'
  <2>1. \A s \in Seat : /\ Has(down'[s], {"active"}) => Has(down[s], {"active"})
                        /\ Has(down'[s], HonestFrame) => Has(down[s], HonestFrame)
    BY <1>1 DEF HonestFrame
  <2> QED
    BY <2>1 DEF FairInv, Begun
<1> QED
  BY <1>2, <1>3

LEMMA NotBothOpen ==
  ASSUME NEW s \in Seat, sock'[s] # "open"
  PROVE  NoLostMove'
BY DEF NoLostMove

LEMMA CountsKept ==
  ASSUME FairInv, UNCHANGED <<up, down, played, got>>, \A s \in Seat : sock'[s] = "open" => sock[s] = "open"
  PROVE  NoLostMove'
BY DEF FairInv, NoLostMove

LEMMA OpenKeepsFair == ASSUME FairInv, NEW s \in Seat, OpenTable(s) PROVE (\A t \in Seat : Turns(t)') /\ Begun' /\ NoLostMove'
<1>1. status = "none" /\ status' = "pending" /\ UNCHANGED <<consumed, turn, client, up, down, sock, played, got>>
  BY DEF OpenTable, net
<1>2. \A t \in Seat : Turns(t)'
  BY <1>1 DEF FairInv, Turns
<1>3. Begun'
  BY <1>1 DEF FairInv, Begun
<1> QED
  BY <1>1, <1>2, <1>3, CountsKept

LEMMA QuietKeepsFair ==
  ASSUME FairInv, UNCHANGED <<consumed, turn, client, up, down, played, got>>,
         status' \in {status, "gone"}, \A t \in Seat : sock'[t] = "open" => sock[t] = "open"
  PROVE  (\A t \in Seat : Turns(t)') /\ Begun' /\ NoLostMove'
<1>1. \A t \in Seat : Turns(t)'
  BY DEF FairInv, Turns
<1>2. Begun'
  BY DEF FairInv, Begun
<1> QED
  BY <1>1, <1>2, CountsKept

LEMMA EndKeepsFair ==
  ASSUME FairInv, NEW s \in Seat, EndTable(s), UNCHANGED <<consumed, turn, client, up, played, got>>
  PROVE  (\A t \in Seat : Turns(t)') /\ Begun' /\ NoLostMove'
<1>1. sock'[s] = "shut" /\ status' \in {status, "gone"} /\ down' \in {down, Sent(Other(s), "closed")}
  BY DEF EndTable, onSeatDisconnected
<1>2. NoLostMove'
  BY <1>1, NotBothOpen
<1>3. ASSUME NEW t \in Seat, NEW kinds
      PROVE  /\ Has(down'[t], kinds) => Has(down[t], kinds) \/ "closed" \in kinds
             /\ OneMove(down[t]) => OneMove(down'[t])
  <2>1. "closed" \in Frames /\ "closed" # "move" /\ Other(s) \in Seat
    BY OtherSeat DEF Frames
  <2> QED
    BY <1>1, <2>1, FairTypes, SentHas
<1>4. ASSUME NEW t \in Seat PROVE Turns(t)'
  <2>1. Has(down'[t], {"move"}) => Has(down[t], {"move"})
    BY <1>3
  <2>2. OneMove(down'[t])
    BY <1>3 DEF FairInv, Turns
  <2> QED
    BY <2>1, <2>2 DEF FairInv, Turns
<1>5. Begun'
  <2>1. \A t \in Seat : /\ Has(down'[t], {"active"}) => Has(down[t], {"active"})
                        /\ Has(down'[t], HonestFrame) => Has(down[t], HonestFrame)
    BY <1>3 DEF HonestFrame
  <2> QED
    BY <1>1, <2>1 DEF FairInv, Begun
<1> QED
  BY <1>2, <1>4, <1>5

\* redeemJoin: a seat is taken while the table is pending, before anything was played.
LEMMA RedeemedBefore ==
  ASSUME FairInv, NEW s \in Seat, Redeem(s)
  PROVE  /\ status = "pending" /\ status' \in {"pending", "active"} /\ turn' = turn
         /\ status' = "active" => \A t \in Seat : consumed'[t]
         /\ \A t \in Seat : /\ played[t] = 0 /\ got[t] = 0 /\ ~Has(down[t], HonestFrame) /\ ~Has(up[t], HonestFrame)
                            /\ client[t].shows # "active" /\ ~Has(down[t], {"active"})
<1>1. Exists /\ ~consumed[s] /\ consumed' = [consumed EXCEPT ![s] = TRUE]
      /\ status' = (IF connected[Other(s)] THEN "active" ELSE "pending") /\ turn' = turn
  BY DEF Redeem, Redeemable
<1>2. status = "pending"
  BY <1>1 DEF FairInv, Begun, Exists
<1>3. connected[Other(s)] => consumed[Other(s)]
  BY <1>1, OtherSeat DEF FairInv, TableInv, SeatsAgree, TableEndsForBoth, NoStrandedPeer
<1>4. status' = "active" => \A t \in Seat : consumed'[t]
  BY <1>1, <1>3, OtherSeat, FairTypes
<1> QED
  BY <1>1, <1>2, <1>4 DEF FairInv, Begun

LEMMA MissKeepsFair ==
  ASSUME FairInv, NEW s \in Seat, Miss(s)
  PROVE  (\A t \in Seat : Turns(t)') /\ Begun' /\ NoLostMove'
<1>1. Redeem(s) /\ UNCHANGED <<up, down, client, played, got>> /\ sock'[s] = "failing"
  BY FairTypes DEF Miss
<1>2. \A t \in Seat : Turns(t)'
  BY <1>1, RedeemedBefore DEF FairInv, Turns
<1>3. Begun'
  BY <1>1, RedeemedBefore DEF Begun
<1> QED
  BY <1>1, <1>2, <1>3, NotBothOpen

LEMMA Welcome ==
  /\ \A kinds : "active" \notin kinds => ~Has(<<"active", "active">>, kinds)
  /\ \A kinds : "waiting" \notin kinds => ~Has(<<"waiting">>, kinds)
  /\ OneMove(<<"active", "active">>) /\ OneMove(<<"waiting">>)
BY DEF Has, OneMove

LEMMA LandKeepsFair ==
  ASSUME FairInv, NEW s \in Seat, Land(s)
  PROVE  (\A t \in Seat : Turns(t)') /\ Begun' /\ NoLostMove'
<1>1. Redeem(s) /\ UNCHANGED <<up, client, played, got>>
  BY DEF Land
<1>2. /\ status' = "active" => down' = [Sent(Other(s), "active") EXCEPT ![s] = <<"active", "active">>]
      /\ status' = "pending" => down' = [down EXCEPT ![s] = <<"waiting">>]
  BY DEF Land
<1>3. Sent(Other(s), "active") \in [Seat -> Seq(Frames)]
  BY FairTypes, SentTypes, OtherSeat DEF Frames
<1>4. /\ down'[s] = IF status' = "active" THEN <<"active", "active">> ELSE <<"waiting">>
      /\ \A t \in Seat : t # s => down'[t] = IF status' = "active" THEN Sent(Other(s), "active")[t] ELSE down[t]
  BY <1>1, <1>2, <1>3, FairTypes, RedeemedBefore
<1>5. ASSUME NEW t \in Seat
      PROVE  /\ ~Has(down'[t], HonestFrame) /\ ~Has(down'[t], {"move"}) /\ OneMove(down'[t])
             /\ Has(down'[t], {"active"}) => status' = "active"
  <2>1. ~Has(down[t], HonestFrame) /\ ~Has(down[t], {"active"}) /\ OneMove(down[t])
    BY <1>1, RedeemedBefore DEF FairInv, Turns
  <2>2. ~Has(down[t], {"move"})
    BY <2>1 DEF Has, HonestFrame
  <2>3. /\ ~Has(Sent(Other(s), "active")[t], HonestFrame) /\ ~Has(Sent(Other(s), "active")[t], {"move"})
        /\ OneMove(Sent(Other(s), "active")[t])
    <3>1. "active" \in Frames /\ "active" # "move" /\ "active" \notin HonestFrame /\ Other(s) \in Seat
      BY OtherSeat DEF Frames, HonestFrame
    <3> QED
      BY <2>1, <2>2, <3>1, FairTypes, SentHas
  <2>4. CASE t = s
    BY <1>4, <2>4, Welcome DEF HonestFrame
  <2>5. CASE t # s
    BY <1>4, <2>1, <2>2, <2>3, <2>5
  <2> QED
    BY <2>4, <2>5
<1>6. \A t \in Seat : Turns(t)'
  BY <1>1, <1>5, RedeemedBefore DEF FairInv, Turns
<1>7. Begun'
  BY <1>1, <1>5, RedeemedBefore DEF Begun
<1>8. NoLostMove'
  <2>1. ASSUME NEW t \in Seat PROVE Moves(up[t]) = 0 /\ Moves(down'[t]) = 0 /\ played[t] = 0 /\ got[t] = 0
    <3>1. down'[t] \in Seq(Frames)
      <4>1. <<"active", "active">> \in Seq(Frames) /\ <<"waiting">> \in Seq(Frames)
        BY DEF Frames
      <4> QED
        BY <1>3, <1>4, <4>1, FairTypes
    <3> QED
      BY <1>1, <1>5, <3>1, RedeemedBefore, FairTypes, MovesCount
  <2> QED
    BY <1>1, <2>1, OtherSeat DEF NoLostMove
<1> QED
  BY <1>6, <1>7, <1>8

\* A refusal closes the sender and takes one frame off its queue.
LEMMA RefusalKeepsFair ==
  ASSUME FairInv, NEW s \in Seat, Arrives(s), Refuse(s), down' \in {down, Sent(s, "error")}
  PROVE  (\A t \in Seat : Turns(t)') /\ Begun' /\ NoLostMove'
<1>1. /\ up[s] # <<>> /\ up' = [up EXCEPT ![s] = Tail(@)] /\ sock'[s] = "closing"
      /\ UNCHANGED <<consumed, status, turn, client, played, got>>
  BY FairTypes DEF Arrives, Refuse
<1>2. up'[s] = Tail(up[s]) /\ \A t \in Seat : t # s => up'[t] = up[t]
  BY <1>1, FairTypes
<1>3. ASSUME NEW t \in Seat, NEW kinds
      PROVE  /\ Has(up'[t], kinds) => Has(up[t], kinds)
             /\ MoveIsLast(up[t]) => MoveIsLast(up'[t])
             /\ Has(down'[t], kinds) => Has(down[t], kinds) \/ "error" \in kinds
             /\ OneMove(down[t]) => OneMove(down'[t])
  <2>1. "error" \in Frames /\ "error" # "move"
    BY DEF Frames
  <2>2. /\ Has(up'[t], kinds) => Has(up[t], kinds)
        /\ MoveIsLast(up[t]) => MoveIsLast(up'[t])
    BY <1>1, <1>2, FairTypes, TailHas
  <2>3. /\ Has(down'[t], kinds) => Has(down[t], kinds) \/ "error" \in kinds
        /\ OneMove(down[t]) => OneMove(down'[t])
    BY <2>1, FairTypes, SentHas
  <2> QED
    BY <2>2, <2>3
<1>4. ASSUME NEW t \in Seat PROVE Turns(t)'
  <2>1. /\ Has(up'[t], HonestFrame) => Has(up[t], HonestFrame)
        /\ Has(up'[t], {"move"}) => Has(up[t], {"move"})
        /\ Has(down'[t], {"move"}) => Has(down[t], {"move"})
    BY <1>3
  <2>2. MoveIsLast(up'[t]) /\ OneMove(down'[t])
    BY <1>3 DEF FairInv, Turns
  <2> QED
    BY <1>1, <2>1, <2>2 DEF FairInv, Turns
<1>5. Begun'
  <2>1. \A t \in Seat : /\ Has(down'[t], {"active"}) => Has(down[t], {"active"})
                        /\ Has(down'[t], HonestFrame) => Has(down[t], HonestFrame)
                        /\ Has(up'[t], HonestFrame) => Has(up[t], HonestFrame)
    BY <1>3 DEF HonestFrame
  <2> QED
    BY <1>1, <2>1 DEF FairInv, Begun
<1>6. NoLostMove'
  BY <1>1, NotBothOpen
<1> QED
  BY <1>4, <1>5, <1>6

LEMMA GarbleKeepsFair ==
  ASSUME FairInv, NEW s \in Seat, Garble(s)
  PROVE  (\A t \in Seat : Turns(t)') /\ Begun' /\ NoLostMove'
<1>1. /\ up[s] = <<>> /\ up' = [up EXCEPT ![s] = <<"garbled">>]
      /\ UNCHANGED <<status, consumed, turn, sock, down, client, played, got>>
  BY DEF Garble, table
<1>2. up'[s] = <<"garbled">> /\ \A t \in Seat : t # s => up'[t] = up[t]
  BY <1>1, FairTypes
<1>3. ~Has(<<"garbled">>, HonestFrame) /\ ~Has(<<"garbled">>, {"move"}) /\ MoveIsLast(<<"garbled">>)
  BY DEF Has, HonestFrame, MoveIsLast
<1>4. Moves(<<"garbled">>) = 0
  <2>1. <<"garbled">> \in Seq(FromClients)
    BY DEF FromClients
  <2> QED
    BY <1>3, <2>1, MovesCount
<1>5. ASSUME NEW t \in Seat PROVE Turns(t)'
  BY <1>1, <1>2, <1>3 DEF FairInv, Turns
<1>6. Begun'
  BY <1>1, <1>2, <1>3 DEF FairInv, Begun
<1>7. \A t \in Seat : Moves(up'[t]) = Moves(up[t])
  BY <1>1, <1>2, <1>4, NoFrames
<1>8. NoLostMove'
  BY <1>1, <1>7 DEF FairInv, NoLostMove
<1> QED
  BY <1>5, <1>6, <1>8

LEMMA PlayKeepsFair ==
  ASSUME FairInv, NEW s \in Seat, NEW f \in HonestFrame, Play(s, f)
  PROVE  (\A t \in Seat : Turns(t)') /\ Begun' /\ NoLostMove'
<1>1. /\ client[s].shows = "active" /\ client[s].turn = s
      /\ up' = [up EXCEPT ![s] = Append(@, f)]
      /\ client' = [client EXCEPT ![s].turn = IF f = "move" THEN Other(s) ELSE s]
      /\ played' = [played EXCEPT ![s] = @ + 1]
      /\ UNCHANGED <<status, consumed, turn, sock, down, got>>
  BY DEF Play, table
<1>2. /\ up'[s] = Append(up[s], f) /\ played'[s] = played[s] + 1
      /\ client'[s].turn = (IF f = "move" THEN Other(s) ELSE s) /\ client'[s].shows = client[s].shows
      /\ \A t \in Seat : t # s => up'[t] = up[t] /\ client'[t] = client[t] /\ played'[t] = played[t]
  BY <1>1, FairTypes
<1>3. turn = s /\ ~Has(up[s], {"move"}) /\ ~Has(down[s], {"move"}) /\ status \in {"active", "gone"}
  BY <1>1 DEF FairInv, Turns, Begun
<1>4. f \in FromClients /\ up[s] \in Seq(FromClients)
  BY FairTypes DEF HonestFrame, FromClients
<1>5. /\ MoveIsLast(up'[s])
      /\ Has(up'[s], {"move"}) => f = "move"
  BY <1>2, <1>3, <1>4, AppendHas
<1>6. ASSUME NEW t \in Seat PROVE Turns(t)'
  <2>1. CASE t = s
    BY <1>1, <1>2, <1>3, <1>5, <2>1, OtherSeat DEF FairInv, Turns, Other
  <2>2. CASE t # s
    BY <1>1, <1>2, <2>2 DEF FairInv, Turns
  <2> QED
    BY <2>1, <2>2
<1>7. Begun'
  BY <1>1, <1>3 DEF FairInv, Begun
<1>8. NoLostMove'
  <2> SUFFICES ASSUME \A t \in Seat : sock[t] = "open", NEW t \in Seat
               PROVE  played'[t] = Moves(up'[t]) + Moves(down[Other(t)]) + got[Other(t)]
    BY <1>1 DEF NoLostMove
  <2>1. played[t] = Moves(up[t]) + Moves(down[Other(t)]) + got[Other(t)]
    BY DEF FairInv, NoLostMove
  <2>2. CASE t = s
    <3>1. Moves(up'[s]) = Moves(up[s]) + 1
      BY <1>2, <1>4, AppendCounts
    <3>2. /\ Moves(up[s]) \in Nat /\ Moves(down[Other(s)]) \in Nat /\ got[Other(s)] \in Nat
      BY FairTypes, OtherSeat, MovesCount
    <3>3. played[s] = Moves(up[s]) + Moves(down[Other(s)]) + got[Other(s)]
      BY <2>1, <2>2
    <3>4. played'[s] = Moves(up'[s]) + Moves(down[Other(s)]) + got[Other(s)]
      <4> HIDE DEF Moves
      <4>1. played'[s] = played[s] + 1
        BY <1>2
      <4> QED
        BY <3>1, <3>2, <3>3, <4>1
    <3> QED
      BY <2>2, <3>4
  <2>3. CASE t # s
    BY <1>2, <2>1, <2>3
  <2> QED
    BY <2>2, <2>3
<1> QED
  BY <1>6, <1>7, <1>8

LEMMA RelayKeepsFair ==
  ASSUME FairInv, NEW s \in Seat, Relay(s)
  PROVE  (\A t \in Seat : Turns(t)') /\ Begun' /\ NoLostMove'
<1> DEFINE f == Head(up[s])
           o == Other(s)
<1>1. /\ up[s] # <<>> /\ up' = [up EXCEPT ![s] = Tail(@)] /\ f # "garbled"
      /\ status = "active" /\ turn = s /\ turn' = NextTurn(s, f) /\ down' = Sent(o, f)
      /\ UNCHANGED <<consumed, status, sock, client, played, got>>
  BY DEF Relay, Arrives, InTurn, Unreadable
<1>2. o \in Seat /\ o # s /\ Other(o) = s /\ \A t \in Seat : t = s \/ t = o
  BY OtherSeat DEF Other, Seat
<1>3. /\ Tail(up[s]) \in Seq(FromClients) /\ f \in HonestFrame /\ f \in Frames
      /\ f = "move" => Tail(up[s]) = <<>> /\ Has(up[s], {"move"})
      /\ MoveIsLast(Tail(up[s]))
      /\ \A kinds : Has(Tail(up[s]), kinds) => Has(up[s], kinds)
      /\ Moves(up[s]) = Moves(Tail(up[s])) + 1
  <2>1. up[s] \in Seq(FromClients) /\ up[s] # <<>> /\ MoveIsLast(up[s])
    BY <1>1, FairTypes DEF FairInv, Turns
  <2>2. /\ Tail(up[s]) \in Seq(FromClients) /\ f \in FromClients
        /\ MoveIsLast(Tail(up[s])) /\ (f = "move" => Tail(up[s]) = <<>>)
    BY <2>1, TailHas
  <2>3. \A kinds : Has(up[s], kinds) <=> f \in kinds \/ Has(Tail(up[s]), kinds)
    BY <2>1, TailHas
  <2>4. f \in HonestFrame /\ f \in Frames
    BY <1>1, <2>2 DEF FromClients, HonestFrame, Frames
  <2>5. Moves(up[s]) = Moves(Tail(up[s])) + 1
    BY <2>1, <2>4, TailCounts
  <2> QED
    BY <2>2, <2>3, <2>4, <2>5
<1>4. up'[s] = Tail(up[s]) /\ up'[o] = up[o]
  BY <1>1, <1>2, FairTypes
<1>5. /\ down'[s] = down[s]
      /\ down'[o] = down[o] \/ down'[o] = Append(down[o], f)
      /\ sock[o] = "open" => down'[o] = Append(down[o], f)
  <2> HIDE DEF f, o
  <2> QED
    BY <1>1, <1>2, <1>3, FairTypes, SentIs
<1> HIDE DEF f, o
<1>6. /\ \A kinds : Has(down'[o], kinds) => Has(down[o], kinds) \/ f \in kinds
      /\ ~Has(down[o], {"move"}) => OneMove(down'[o])
      /\ f # "move" => (OneMove(down[o]) => OneMove(down'[o]))
  <2>1. down[o] \in Seq(Frames)
    BY <1>2, FairTypes
  <2>2. CASE down'[o] = down[o]
    BY <2>2 DEF FairInv, Turns, OneMove, Has
  <2>3. CASE down'[o] = Append(down[o], f)
    <3>1. \A kinds : Has(Append(down[o], f), kinds) <=> Has(down[o], kinds) \/ f \in kinds
      BY <1>3, <2>1, AppendHas
    <3>2. /\ ~Has(down[o], {"move"}) => OneMove(Append(down[o], f))
          /\ OneMove(down[o]) /\ f # "move" => OneMove(Append(down[o], f))
      BY <1>3, <2>1, AppendHas
    <3> QED
      BY <2>3, <3>1, <3>2
  <2> QED
    BY <1>5, <2>2, <2>3
<1>7. client[o].turn # o /\ ~Has(up[o], HonestFrame) /\ ~Has(down[o], {"move"})
  BY <1>1, <1>2 DEF FairInv, Turns
<1>8. ~Has(up[o], {"move"})
  BY <1>7 DEF Has, HonestFrame
<1>9. Turns(o)'
  <2>1. Has(down'[o], {"move"}) => f = "move"
    BY <1>6, <1>7
  <2>2. f = "move" => turn' = o
    BY <1>1 DEF NextTurn, o
  <2>3. OneMove(down'[o]) /\ MoveIsLast(up[o])
    BY <1>2, <1>6, <1>7 DEF FairInv, Turns
  <2> QED
    BY <1>1, <1>4, <1>7, <1>8, <2>1, <2>2, <2>3 DEF Turns
<1>10. Turns(s)'
  <2>1. /\ Has(up[s], {"move"}) => client[s].turn # s /\ ~Has(down[s], {"move"})
        /\ client[s].turn = s => ~Has(up[s], {"move"}) /\ ~Has(down[s], {"move"})
        /\ OneMove(down[s])
    BY DEF FairInv, Turns
  <2>2. CASE f = "move"
    BY <1>1, <1>3, <1>4, <1>5, <2>1, <2>2, NoFrames DEF Turns
  <2>3. CASE f = "continue"
    <3>1. turn' = s
      BY <1>1, <2>3 DEF NextTurn
    <3> QED
      BY <1>1, <1>3, <1>4, <1>5, <2>1, <3>1 DEF Turns
  <2> QED
    BY <1>3, <2>2, <2>3 DEF HonestFrame
<1>11. Begun'
  BY <1>1 DEF FairInv, Begun
<1>12. NoLostMove'
  <2> SUFFICES ASSUME \A t \in Seat : sock[t] = "open"
               PROVE  /\ played[s] = Moves(up'[s]) + Moves(down'[o]) + got[o]
                      /\ played[o] = Moves(up'[o]) + Moves(down'[s]) + got[s]
    <3>1. Other(s) = o
      BY DEF o
    <3> QED
      BY <1>1, <1>2, <3>1 DEF NoLostMove
  <2>1. /\ played[s] = Moves(up[s]) + Moves(down[o]) + got[o]
        /\ played[o] = Moves(up[o]) + Moves(down[s]) + got[s]
    BY <1>2 DEF FairInv, NoLostMove, o
  <2>2. Moves(down'[o]) = Moves(down[o]) + 1
    BY <1>2, <1>3, <1>5, FairTypes, AppendCounts
  <2>3. Moves(Tail(up[s])) \in Nat /\ Moves(down[o]) \in Nat /\ got[o] \in Nat
    BY <1>2, <1>3, FairTypes, MovesCount
  <2> QED
    BY <1>3, <1>4, <1>5, <2>1, <2>2, <2>3
<1> QED
  BY <1>2, <1>9, <1>10, <1>11, <1>12

LEMMA ReceiveKeepsFair ==
  ASSUME FairInv, NEW s \in Seat, Receive(s)
  PROVE  (\A t \in Seat : Turns(t)') /\ Begun' /\ NoLostMove'
<1> DEFINE f == Head(down[s])
<1>1. /\ down[s] # <<>> /\ down' = [down EXCEPT ![s] = Tail(@)]
      /\ client' = [client EXCEPT ![s] =
           CASE f \in {"waiting", "active", "closed"} -> [@ EXCEPT !.shows = f]
             [] f = "error"                           -> [@ EXCEPT !.shows = "closed"]
             [] f = "move"                            -> [@ EXCEPT !.turn = s]
             [] OTHER                                 -> @]
      /\ got' = [got EXCEPT ![s] = IF f \in {"move", "continue"} THEN @ + 1 ELSE @]
      /\ UNCHANGED <<status, consumed, turn, sock, up, played>>
  BY DEF Receive, table
<1>2. down[s] \in Seq(Frames) /\ down[s] # <<>> /\ OneMove(down[s])
  BY <1>1, FairTypes DEF FairInv, Turns
<1>3. /\ Tail(down[s]) \in Seq(Frames) /\ f \in Frames
      /\ OneMove(Tail(down[s])) /\ (f = "move" => ~Has(Tail(down[s]), {"move"}))
  BY <1>2, TailHas
<1>4. \A kinds : Has(down[s], kinds) <=> f \in kinds \/ Has(Tail(down[s]), kinds)
  BY <1>2, TailHas
<1>5. Moves(down[s]) = Moves(Tail(down[s])) + (IF f \in HonestFrame THEN 1 ELSE 0)
  BY <1>2, TailCounts
<1> HIDE DEF f
<1>6. /\ down'[s] = Tail(down[s])
      /\ got'[s] = got[s] + (IF f \in HonestFrame THEN 1 ELSE 0)
      /\ \A t \in Seat : t # s => down'[t] = down[t] /\ got'[t] = got[t] /\ client'[t] = client[t]
  BY <1>1, FairTypes DEF HonestFrame
<1>7. /\ client'[s].turn = IF f = "move" THEN s ELSE client[s].turn
      /\ client'[s].shows = "active" => client[s].shows = "active" \/ f = "active"
  <2>1. client[s] \in [shows : {"waiting", "active", "closed"}, turn : Seat]
    BY FairTypes
  <2>2. client'[s] = CASE f \in {"waiting", "active", "closed"} -> [client[s] EXCEPT !.shows = f]
                       [] f = "error"                           -> [client[s] EXCEPT !.shows = "closed"]
                       [] f = "move"                            -> [client[s] EXCEPT !.turn = s]
                       [] OTHER                                 -> client[s]
    BY <1>1, FairTypes
  <2>3. CASE f \in {"waiting", "active", "closed"}
    BY <2>1, <2>2, <2>3
  <2>4. CASE f = "error"
    BY <2>1, <2>2, <2>4
  <2>5. CASE f = "move"
    BY <2>1, <2>2, <2>5
  <2>6. CASE f = "continue"
    BY <2>1, <2>2, <2>6
  <2> QED
    BY <1>3, <2>3, <2>4, <2>5, <2>6 DEF Frames
<1>8. ASSUME NEW t \in Seat PROVE Turns(t)'
  <2>1. CASE t # s
    BY <1>1, <1>6, <2>1 DEF FairInv, Turns
  <2>2. CASE t = s
    <3>1. Has(down[s], {"move"}) <=> f = "move" \/ Has(Tail(down[s]), {"move"})
      BY <1>4
    <3> QED
      BY <1>1, <1>3, <1>6, <1>7, <2>2, <3>1 DEF FairInv, Turns
  <2> QED
    BY <2>1, <2>2
<1>9. Begun'
  <2>1. /\ Has(down[s], {"active"}) <=> f = "active" \/ Has(Tail(down[s]), {"active"})
        /\ Has(down[s], HonestFrame) <=> f \in HonestFrame \/ Has(Tail(down[s]), HonestFrame)
    BY <1>4
  <2>2. ASSUME NEW t \in Seat,
               client'[t].shows = "active" \/ Has(down'[t], {"active"}) \/ Has(up[t], HonestFrame)
        PROVE  status \in {"active", "gone"}
    <3>1. client[t].shows = "active" \/ Has(down[t], {"active"}) \/ Has(up[t], HonestFrame)
      BY <1>6, <1>7, <2>1, <2>2
    <3> QED
      BY <3>1 DEF FairInv, Begun
  <2>3. ASSUME status \in {"none", "pending"}, NEW t \in Seat
        PROVE  played[t] = 0 /\ got'[t] = 0 /\ ~Has(down'[t], HonestFrame)
    <3>1. /\ played[t] = 0 /\ got[t] = 0 /\ ~Has(down[t], HonestFrame)
      BY <2>3 DEF FairInv, Begun
    <3> QED
      BY <1>6, <2>1, <3>1
  <2>4. status = "active" => \A t \in Seat : consumed[t]
    BY DEF FairInv, Begun
  <2> QED
    BY <1>1, <2>2, <2>3, <2>4 DEF Begun
<1>10. ASSUME NEW t \in Seat PROVE Moves(down'[t]) + got'[t] = Moves(down[t]) + got[t] /\ Moves(down'[t]) \in Nat /\ got'[t] \in Nat
  <2>1. CASE t # s
    BY <1>6, <2>1, FairTypes, MovesCount
  <2>2. CASE t = s
    <3>1. Moves(Tail(down[s])) \in Nat /\ got[s] \in Nat
      BY <1>3, FairTypes, MovesCount
    <3> QED
      BY <1>5, <1>6, <2>2, <3>1
  <2> QED
    BY <2>1, <2>2
<1>11. NoLostMove'
  <2> SUFFICES ASSUME \A t \in Seat : sock[t] = "open", NEW t \in Seat
               PROVE  played[t] = Moves(up[t]) + Moves(down'[Other(t)]) + got'[Other(t)]
    BY <1>1 DEF NoLostMove
  <2>1. played[t] = Moves(up[t]) + Moves(down[Other(t)]) + got[Other(t)]
    BY DEF FairInv, NoLostMove
  <2>2. /\ Moves(up[t]) \in Nat /\ Moves(down[Other(t)]) \in Nat /\ got[Other(t)] \in Nat
    BY FairTypes, OtherSeat, MovesCount
  <2> QED
    BY <1>10, <2>1, <2>2, OtherSeat
<1> QED
  BY <1>8, <1>9, <1>11

LEMMA FairInvNext == FairInv /\ [Next]_vars => FairInv'
<1> SUFFICES ASSUME FairInv, [Next]_vars
             PROVE  (\A t \in Seat : Turns(t)') /\ Begun' /\ NoLostMove'
  BY TypesKept, EndsKept DEF FairInv, TableInv, Ends
<1>1. ASSUME NEW s \in Seat, OpenTable(s)
      PROVE  (\A t \in Seat : Turns(t)') /\ Begun' /\ NoLostMove'
  BY <1>1, OpenKeepsFair
<1>2. ASSUME NEW s \in Seat, Land(s) \/ Miss(s)
      PROVE  (\A t \in Seat : Turns(t)') /\ Begun' /\ NoLostMove'
  BY <1>2, LandKeepsFair, MissKeepsFair
<1>3. ASSUME NEW s \in Seat, Rollback(s) \/ Closed(s)
      PROVE  (\A t \in Seat : Turns(t)') /\ Begun' /\ NoLostMove'
  <2>1. EndTable(s) /\ UNCHANGED <<consumed, turn, client, up, played, got>>
    BY <1>3 DEF Rollback, Closed
  <2> QED
    BY <2>1, EndKeepsFair
<1>4. ASSUME NEW s \in Seat, Reject(s) \/ RateLimit(s)
      PROVE  (\A t \in Seat : Turns(t)') /\ Begun' /\ NoLostMove'
  <2>1. Arrives(s) /\ Refuse(s) /\ down' \in {down, Sent(s, "error")}
    BY <1>4 DEF Reject, RateLimit
  <2> QED
    BY <2>1, RefusalKeepsFair
<1>5. ASSUME NEW s \in Seat, Relay(s)
      PROVE  (\A t \in Seat : Turns(t)') /\ Begun' /\ NoLostMove'
  BY <1>5, RelayKeepsFair
<1>6. ASSUME NEW s \in Seat, Garble(s)
      PROVE  (\A t \in Seat : Turns(t)') /\ Begun' /\ NoLostMove'
  BY <1>6, GarbleKeepsFair
<1>7. ASSUME NEW s \in Seat, Receive(s)
      PROVE  (\A t \in Seat : Turns(t)') /\ Begun' /\ NoLostMove'
  BY <1>7, ReceiveKeepsFair
<1>8. ASSUME NEW s \in Seat, NEW f \in {"move", "continue"}, Play(s, f)
      PROVE  (\A t \in Seat : Turns(t)') /\ Begun' /\ NoLostMove'
  BY <1>8, PlayKeepsFair DEF HonestFrame
<1>9. ASSUME NEW s \in Seat, JoinCheck(s) \/ JoinMint(s) \/ Drop(s)
      PROVE  (\A t \in Seat : Turns(t)') /\ Begun' /\ NoLostMove'
  <2>1. /\ UNCHANGED <<consumed, turn, client, up, down, played, got, status>>
        /\ sock' = sock \/ sock' = [sock EXCEPT ![s] = "closing"]
    BY <1>9 DEF JoinCheck, JoinMint, Drop, table, net
  <2>2. \A t \in Seat : sock'[t] = "open" => sock[t] = "open"
    BY <2>1, FairTypes
  <2> QED
    BY <2>1, <2>2, QuietKeepsFair
<1>10. ASSUME Sweep
       PROVE  (\A t \in Seat : Turns(t)') /\ Begun' /\ NoLostMove'
  <2>1. /\ UNCHANGED <<consumed, turn, client, up, down, played, got>> /\ status' = "gone"
        /\ \A t \in Seat : sock'[t] = "open" => sock[t] = "open"
    BY <1>10 DEF Sweep
  <2> QED
    BY <2>1, QuietKeepsFair
<1>11. ASSUME Tick \/ UNCHANGED vars
       PROVE  (\A t \in Seat : Turns(t)') /\ Begun' /\ NoLostMove'
  <2>1. UNCHANGED <<consumed, turn, client, up, down, played, got, status, sock>>
    BY <1>11 DEF Tick, vars, table, net
  <2> QED
    BY <2>1, QuietKeepsFair
<1> QED
  BY <1>1, <1>2, <1>3, <1>4, <1>5, <1>6, <1>7, <1>8, <1>9, <1>10, <1>11 DEF Next, Serve

\* GameTable.FairPlayInTurn and NoLostMove, table.ts, "Finding A": while a table exists
\* no honest move is refused for its turn, and while both sockets are open every move
\* a client sent is on its way or on the other board.
THEOREM HonestMovesArrive == Spec => [](FairPlayInTurn /\ NoLostMove)
<1>1. FairInv => FairPlayInTurn /\ NoLostMove
  BY FairInvPlays DEF FairInv
<1> QED
  BY <1>1, FairInvInit, FairInvNext, PTL DEF Spec

-----------------------------------------------------------------------------
(* What is left of a request. *)

StepKind == {"connect", "release"}
Scripts == Seq(StepKind)

\* The connections a request with these steps left must hold.
Need(s) == Count(s, "release") - Count(s, "connect")

\* It never waits for a connection with more than d of them in hand.
AtMost(s, d) ==
  \A t, u \in Scripts : s = t \o u /\ u # <<>> /\ Head(u) = "connect" => Need(u) <= d

\* The places of a step in a request are finitely many.
LEMMA PlacesFinite ==
  ASSUME NEW s \in Scripts, NEW x
  PROVE  IsFiniteSet({n \in DOMAIN s : s[n] = x}) /\ Count(s, x) \in Nat
<1>1. IsFiniteSet(1 .. Len(s)) /\ DOMAIN s = 1 .. Len(s)
  BY FS_Interval DEF Scripts
<1>2. IsFiniteSet({n \in DOMAIN s : s[n] = x})
  BY <1>1, FS_Subset
<1> QED
  BY <1>2, FS_CardinalityType DEF Count

\* One request after another: their steps are counted together.
LEMMA CountConcat ==
  ASSUME NEW s \in Scripts, NEW t \in Scripts, NEW x
  PROVE  Count(s \o t, x) = Count(s, x) + Count(t, x)
<1> DEFINE A == {n \in DOMAIN s : s[n] = x}
           B == {n \in DOMAIN t : t[n] = x}
           C == {n \in (Len(s) + 1) .. (Len(s) + Len(t)) : t[n - Len(s)] = x}
           f == [n \in B |-> n + Len(s)]
<1>1. /\ Len(s) \in Nat /\ Len(t) \in Nat /\ DOMAIN s = 1 .. Len(s) /\ DOMAIN t = 1 .. Len(t)
      /\ s \o t \in Scripts /\ Len(s \o t) = Len(s) + Len(t)
      /\ \A i \in 1 .. Len(s) + Len(t) : (s \o t)[i] = IF i <= Len(s) THEN s[i] ELSE t[i - Len(s)]
  BY LenProperties, ConcatProperties DEF Scripts
<1>2. DOMAIN (s \o t) = 1 .. (Len(s) + Len(t))
  BY <1>1, LenProperties DEF Scripts
<1>3. {n \in DOMAIN (s \o t) : (s \o t)[n] = x} = A \cup C
  BY <1>1, <1>2
<1>4. A \cap C = {}
  BY <1>1
<1>5. f \in Bijection(B, C)
  <2>1. f \in [B -> C]
    BY <1>1
  <2>2. \A a, b \in B : f[a] = f[b] => a = b
    BY <1>1
  <2>3. \A c \in C : \E b \in B : f[b] = c
    <3> SUFFICES ASSUME NEW c \in C
                 PROVE  \E b \in B : f[b] = c
      OBVIOUS
    <3>1. c - Len(s) \in B
      BY <1>1
    <3>2. f[c - Len(s)] = c
      BY <1>1, <3>1
    <3> QED
      BY <3>1, <3>2
  <2> QED
    BY <2>1, <2>2, <2>3, Fun_IsBij
<1>6. IsFiniteSet(A) /\ IsFiniteSet(B)
  BY PlacesFinite
<1>7. IsFiniteSet(C) /\ Cardinality(C) = Cardinality(B)
  BY <1>5, <1>6, FS_Bijection DEF ExistsBijection
<1>8. Cardinality(A \cup C) = Cardinality(A) + Cardinality(C) - Cardinality(A \cap C)
  BY <1>6, <1>7, FS_Union
<1>9. Cardinality(A \cap C) = 0 /\ Cardinality(A) \in Nat /\ Cardinality(C) \in Nat
  BY <1>4, <1>6, <1>7, FS_EmptySet, FS_CardinalityType
<1> HIDE DEF A, B, C
<1>10. Cardinality(A \cup C) = Cardinality(A) + Cardinality(B)
  BY <1>7, <1>8, <1>9
<1> QED
  BY <1>3, <1>10 DEF Count, A, B

\* A request of one step, and one of none.
LEMMA CountOne ==
  ASSUME NEW x, NEW y \in StepKind
  PROVE  Count(<<y>>, x) = IF x = y THEN 1 ELSE 0
<1>1. DOMAIN <<y>> = {1} /\ <<y>>[1] = y
  OBVIOUS
<1>2. CASE x = y
  <2>1. {n \in DOMAIN <<y>> : <<y>>[n] = x} = {1}
    BY <1>1, <1>2
  <2> QED
    BY <1>2, <2>1, FS_Singleton DEF Count
<1>3. CASE x # y
  <2>1. {n \in DOMAIN <<y>> : <<y>>[n] = x} = {}
    BY <1>1, <1>3
  <2> QED
    BY <1>3, <2>1, FS_EmptySet DEF Count
<1> QED
  BY <1>2, <1>3

LEMMA CountNone == ASSUME NEW x PROVE Count(<<>>, x) = 0
<1>1. {n \in DOMAIN <<>> : <<>>[n] = x} = {}
  OBVIOUS
<1> QED
  BY <1>1, FS_EmptySet DEF Count

LEMMA NeedConcat ==
  ASSUME NEW s \in Scripts, NEW t \in Scripts
  PROVE  Need(s) \in Int /\ Need(s \o t) = Need(s) + Need(t)
<1>1. /\ Count(s \o t, "release") = Count(s, "release") + Count(t, "release")
      /\ Count(s \o t, "connect") = Count(s, "connect") + Count(t, "connect")
  BY CountConcat
<1>2. /\ Count(s, "release") \in Nat /\ Count(t, "release") \in Nat
      /\ Count(s, "connect") \in Nat /\ Count(t, "connect") \in Nat
  BY PlacesFinite
<1> QED
  BY <1>1, <1>2 DEF Need

LEMMA NeedSmall == Need(<<>>) = 0 /\ Need(<<"connect">>) = -1 /\ Need(<<"release">>) = 1
<1>1. Count(<<>>, "release") = 0 /\ Count(<<>>, "connect") = 0
  BY CountNone
<1>2. "connect" \in StepKind /\ "release" \in StepKind
  BY DEF StepKind
<1>3. /\ Count(<<"connect">>, "release") = 0 /\ Count(<<"connect">>, "connect") = 1
      /\ Count(<<"release">>, "release") = 1 /\ Count(<<"release">>, "connect") = 0
  BY <1>2, CountOne
<1> QED
  BY <1>1, <1>3 DEF Need

\* What is left once the next step is done.
LEMMA NeedTail ==
  ASSUME NEW s \in Scripts, s # <<>>
  PROVE  /\ Head(s) \in StepKind /\ <<Head(s)>> \in Scripts /\ Tail(s) \in Scripts
         /\ s = <<Head(s)>> \o Tail(s)
         /\ Need(Tail(s)) = Need(s) + (IF Head(s) = "connect" THEN 1 ELSE -1)
<1>1. Head(s) \in StepKind /\ <<Head(s)>> \in Scripts /\ Tail(s) \in Scripts
  BY HeadTailProperties DEF Scripts
<1>2. s = <<Head(s)>> \o Tail(s)
  <2>1. Len(s) \in Nat \ {0} /\ Len(Tail(s)) = Len(s) - 1 /\ \A i \in 1 .. Len(Tail(s)) : Tail(s)[i] = s[i + 1]
    BY HeadTailProperties, EmptySeq DEF Scripts
  <2> DEFINE r == <<Head(s)>> \o Tail(s)
  <2>2. /\ r \in Scripts /\ Len(r) = 1 + Len(Tail(s))
        /\ \A i \in 1 .. 1 + Len(Tail(s)) : r[i] = IF i <= 1 THEN <<Head(s)>>[i] ELSE Tail(s)[i - 1]
    <3>1. Len(<<Head(s)>>) = 1
      OBVIOUS
    <3> QED
      BY <1>1, <3>1, ConcatProperties DEF Scripts
  <2>3. Len(r) = Len(s) /\ \A i \in 1 .. Len(s) : s[i] = r[i]
    BY <2>1, <2>2
  <2> HIDE DEF r
  <2>4. s = r
    BY <2>2, <2>3, SeqEqual DEF Scripts
  <2> QED
    BY <2>4 DEF r
<1>3. Need(s) = Need(<<Head(s)>>) + Need(Tail(s)) /\ Need(Tail(s)) \in Int /\ Need(s) \in Int
  BY <1>1, <1>2, NeedConcat
<1>4. Need(<<Head(s)>>) = IF Head(s) = "connect" THEN -1 ELSE 1
  BY <1>1, NeedSmall DEF StepKind
<1> QED
  BY <1>1, <1>2, <1>3, <1>4

\* Pieces of a request, one after another.
LEMMA Joined ==
  ASSUME NEW s \in Scripts, NEW t \in Scripts
  PROVE  s \o t \in Scripts /\ Len(s \o t) = Len(s) + Len(t)
BY ConcatProperties DEF Scripts

LEMMA JoinedAt ==
  ASSUME NEW s \in Scripts, NEW t \in Scripts, NEW i \in 1 .. Len(s) + Len(t)
  PROVE  (s \o t)[i] = IF i <= Len(s) THEN s[i] ELSE t[i - Len(s)]
BY ConcatProperties DEF Scripts

LEMMA JoinedAgain ==
  ASSUME NEW s \in Scripts, NEW t \in Scripts, NEW u \in Scripts
  PROVE  s \o (t \o u) = (s \o t) \o u
BY ConcatAssociative DEF Scripts

LEMMA SameScript ==
  ASSUME NEW s \in Scripts, NEW t \in Scripts, Len(s) = Len(t), \A i \in 1 .. Len(s) : s[i] = t[i]
  PROVE  s = t
BY SeqEqual DEF Scripts

\* A step less leaves fewer places to wait at.
LEMMA AtMostTail ==
  ASSUME NEW s \in Scripts, NEW d, s # <<>>, AtMost(s, d)
  PROVE  AtMost(Tail(s), d)
<1> SUFFICES ASSUME NEW t \in Scripts, NEW u \in Scripts, Tail(s) = t \o u, u # <<>>, Head(u) = "connect"
             PROVE  Need(u) <= d
  BY DEF AtMost
<1> DEFINE h == <<Head(s)>>
<1>1. h \in Scripts /\ s = h \o Tail(s)
  BY NeedTail
<1> HIDE DEF h
<1>2. s = h \o (t \o u)
  BY <1>1
<1>3. s = (h \o t) \o u
  BY <1>1, <1>2, JoinedAgain
<1>4. h \o t \in Scripts
  BY <1>1, Joined
<1> QED
  BY <1>3, <1>4 DEF AtMost

\* What it needs when it waits now.
LEMMA AtMostNow ==
  ASSUME NEW s \in Scripts, NEW d, s # <<>>, Head(s) = "connect", AtMost(s, d)
  PROVE  Need(s) <= d
<1>1. <<>> \in Scripts /\ s = <<>> \o s
  BY EmptySeq, ConcatEmptySeq DEF Scripts
<1> QED
  BY <1>1 DEF AtMost

\* A request put together from a beginning and an end, and a beginning of one.
LEMMA Composed ==
  ASSUME NEW s \in Scripts, NEW v \in Scripts, NEW u \in Scripts, Len(s) = Len(v) + Len(u),
         \A i \in 1 .. Len(v) : s[i] = v[i], \A j \in 1 .. Len(u) : s[j + Len(v)] = u[j]
  PROVE  s = v \o u
<1> DEFINE w == v \o u
<1>1. w \in Scripts /\ Len(w) = Len(s)
  BY Joined
<1>2. Len(s) \in Nat /\ Len(v) \in Nat /\ Len(u) \in Nat
  BY LenProperties DEF Scripts
<1>3. ASSUME NEW i \in 1 .. Len(s)
      PROVE  s[i] = w[i]
  <2>1. w[i] = IF i <= Len(v) THEN v[i] ELSE u[i - Len(v)]
    BY JoinedAt
  <2> HIDE DEF w
  <2>2. CASE i <= Len(v)
    BY <1>2, <2>1, <2>2
  <2>3. CASE i > Len(v)
    <3>1. i - Len(v) \in 1 .. Len(u) /\ (i - Len(v)) + Len(v) = i
      BY <1>2, <2>3
    <3>2. s[i] = u[i - Len(v)]
      BY <3>1
    <3> QED
      BY <1>2, <2>1, <2>3, <3>2
  <2> QED
    BY <1>2, <2>2, <2>3
<1> HIDE DEF w
<1>4. s = w
  BY <1>1, <1>3, SameScript
<1> QED
  BY <1>4 DEF w

LEMMA Beginning ==
  ASSUME NEW s \in Scripts, NEW k \in 0 .. Len(s)
  PROVE  \E v \in Scripts : Len(v) = k /\ \A i \in 1 .. k : v[i] = s[i]
<1> DEFINE v == [i \in 1 .. k |-> s[i]]
<1>1. Len(s) \in Nat /\ \A i \in 1 .. Len(s) : s[i] \in StepKind
  BY LenProperties, ElementOfSeq DEF Scripts
<1>2. v \in [1 .. k -> StepKind]
  BY <1>1
<1>3. v \in Scripts /\ Len(v) = k
  BY <1>1, <1>2 DEF Scripts
<1> QED
  BY <1>3

\* The end of a sequence of two begins in the second of them, or in the first.
EndsIn(s1, s2, t, u) ==
  \/ \E v \in Scripts : s2 = v \o u
  \/ \E v \in Scripts : s1 = t \o v /\ u = v \o s2 /\ v # <<>>

LEMMA EndOfConcat ==
  ASSUME NEW s1 \in Scripts, NEW s2 \in Scripts, NEW t \in Scripts, NEW u \in Scripts, s1 \o s2 = t \o u
  PROVE  EndsIn(s1, s2, t, u)
<1>1. /\ Len(s1) \in Nat /\ Len(s2) \in Nat /\ Len(t) \in Nat /\ Len(u) \in Nat
  BY LenProperties DEF Scripts
<1>2. Len(s1) + Len(s2) = Len(t) + Len(u)
  BY Joined
<1>3. ASSUME NEW i \in 1 .. Len(s1) + Len(s2)
      PROVE  (IF i <= Len(s1) THEN s1[i] ELSE s2[i - Len(s1)]) = IF i <= Len(t) THEN t[i] ELSE u[i - Len(t)]
  <2>1. (s1 \o s2)[i] = IF i <= Len(s1) THEN s1[i] ELSE s2[i - Len(s1)]
    BY JoinedAt
  <2>2. (t \o u)[i] = IF i <= Len(t) THEN t[i] ELSE u[i - Len(t)]
    BY <1>2, JoinedAt
  <2> QED
    BY <2>1, <2>2
<1>4. CASE Len(s1) <= Len(t)
  <2>1. Len(t) - Len(s1) \in 0 .. Len(s2)
    BY <1>1, <1>2, <1>4
  <2>2. PICK v \in Scripts : Len(v) = Len(t) - Len(s1) /\ \A i \in 1 .. Len(v) : v[i] = s2[i]
    BY <2>1, Beginning, ZenonT(40)
  <2>3. Len(s2) = Len(v) + Len(u) /\ \A i \in 1 .. Len(v) : s2[i] = v[i]
    BY <1>1, <1>2, <2>2
  <2>4. ASSUME NEW j \in 1 .. Len(u)
        PROVE  s2[j + Len(v)] = u[j]
    <3>1. /\ j + Len(t) \in 1 .. Len(s1) + Len(s2) /\ ~(j + Len(t) <= Len(s1)) /\ ~(j + Len(t) <= Len(t))
          /\ (j + Len(t)) - Len(s1) = j + Len(v) /\ (j + Len(t)) - Len(t) = j
      BY <1>1, <1>2, <1>4, <2>2
    <3> QED
      BY <1>3, <3>1
  <2>5. s2 = v \o u
    BY <2>3, <2>4, Composed
  <2> QED
    BY <2>5 DEF EndsIn
<1>5. CASE Len(s1) > Len(t)
  <2>1. Len(s1) - Len(t) \in 0 .. Len(u) /\ Len(s1) - Len(t) # 0
    BY <1>1, <1>2, <1>5
  <2>2. PICK v \in Scripts : Len(v) = Len(s1) - Len(t) /\ \A i \in 1 .. Len(v) : v[i] = u[i]
    BY <2>1, Beginning, ZenonT(40)
  <2>3. v # <<>>
    BY <2>1, <2>2, EmptySeq
  <2>4. Len(s1) = Len(t) + Len(v) /\ Len(u) = Len(v) + Len(s2) /\ \A i \in 1 .. Len(v) : u[i] = v[i]
    BY <1>1, <1>2, <2>2
  <2>5. ASSUME NEW i \in 1 .. Len(t)
        PROVE  s1[i] = t[i]
    <3>1. i \in 1 .. Len(s1) + Len(s2) /\ i <= Len(s1) /\ i <= Len(t)
      BY <1>1, <1>5
    <3> QED
      BY <1>3, <3>1
  <2>6. ASSUME NEW j \in 1 .. Len(v)
        PROVE  s1[j + Len(t)] = v[j]
    <3>1. /\ j + Len(t) \in 1 .. Len(s1) + Len(s2) /\ j + Len(t) <= Len(s1) /\ ~(j + Len(t) <= Len(t))
          /\ (j + Len(t)) - Len(t) = j
      BY <1>1, <2>4
    <3> QED
      BY <1>3, <2>4, <3>1
  <2>7. ASSUME NEW j \in 1 .. Len(s2)
        PROVE  u[j + Len(v)] = s2[j]
    <3>1. /\ j + Len(s1) \in 1 .. Len(s1) + Len(s2) /\ ~(j + Len(s1) <= Len(s1)) /\ ~(j + Len(s1) <= Len(t))
          /\ (j + Len(s1)) - Len(s1) = j /\ (j + Len(s1)) - Len(t) = j + Len(v)
      BY <1>1, <1>5, <2>4
    <3> QED
      BY <1>3, <3>1
  <2>8. s1 = t \o v
    BY <2>4, <2>5, <2>6, Composed
  <2>9. u = v \o s2
    BY <2>4, <2>7, Composed
  <2> QED
    BY <2>3, <2>8, <2>9 DEF EndsIn
<1> QED
  <2>1. Len(s1) <= Len(t) \/ Len(s1) > Len(t)
    BY <1>1
  <2> QED
    BY <1>4, <1>5, <2>1

\* One piece of a request after another: the first waits while the second is to come.
LEMMA AtMostConcat ==
  ASSUME NEW s1 \in Scripts, NEW s2 \in Scripts, NEW d \in Int,
         AtMost(s1, d - Need(s2)), AtMost(s2, d)
  PROVE  AtMost(s1 \o s2, d)
<1> SUFFICES ASSUME NEW t \in Scripts, NEW u \in Scripts, s1 \o s2 = t \o u, u # <<>>, Head(u) = "connect"
             PROVE  Need(u) <= d
  BY DEF AtMost
<1>1. CASE \E v \in Scripts : s2 = v \o u
  BY <1>1 DEF AtMost
<1>2. CASE \E v \in Scripts : s1 = t \o v /\ u = v \o s2 /\ v # <<>>
  <2>1. PICK v \in Scripts : s1 = t \o v /\ u = v \o s2 /\ v # <<>>
    BY <1>2
  <2>2. Head(u) = Head(v)
    <3>1. Len(v) \in Nat \ {0} /\ Len(s2) \in Nat /\ Head(v) = v[1] /\ Head(u) = u[1]
      BY <2>1, EmptySeq, LenProperties DEF Scripts
    <3>2. u[1] = v[1]
      BY <2>1, <3>1, ConcatProperties DEF Scripts
    <3> QED
      BY <3>1, <3>2
  <2>3. Need(v) <= d - Need(s2)
    BY <2>1, <2>2 DEF AtMost
  <2> QED
    BY <2>1, <2>3, NeedConcat
<1> QED
  <2>1. EndsIn(s1, s2, t, u)
    BY EndOfConcat
  <2> QED
    BY <1>1, <1>2, <2>1 DEF EndsIn
-----------------------------------------------------------------------------
(* The routes: what each holds when it waits. *)

LEMMA AtMostMore ==
  ASSUME NEW s \in Scripts, NEW d \in Int, NEW e \in Int, d <= e, AtMost(s, d)
  PROVE  AtMost(s, e)
<1> SUFFICES ASSUME NEW t \in Scripts, NEW u \in Scripts, s = t \o u, u # <<>>, Head(u) = "connect"
             PROVE  Need(u) <= e
  BY DEF AtMost
<1>1. Need(u) <= d
  BY DEF AtMost
<1>2. Count(u, "release") \in Nat /\ Count(u, "connect") \in Nat
  BY PlacesFinite
<1>3. Need(u) \in Int
  BY <1>2 DEF Need
<1> QED
  BY <1>1, <1>3

\* A request with nothing left, and one with one step left.
LEMMA AtMostSmall ==
  /\ <<>> \in Scripts /\ <<"connect">> \in Scripts /\ <<"release">> \in Scripts
  /\ AtMost(<<>>, 0) /\ AtMost(<<"connect">>, -1) /\ AtMost(<<"release">>, 0)
<1>1. <<>> \in Scripts /\ <<"connect">> \in Scripts /\ <<"release">> \in Scripts
  BY DEF Scripts, StepKind
<1>2. ASSUME NEW s \in Scripts, Len(s) <= 1, NEW t \in Scripts, NEW u \in Scripts, s = t \o u, u # <<>>
      PROVE  u = s
  <2>1. Len(s) \in Nat /\ Len(t) \in Nat /\ Len(u) \in Nat /\ Len(u) # 0
    BY <1>2, LenProperties, EmptySeq DEF Scripts
  <2>2. Len(s) = Len(t) + Len(u)
    BY <1>2, Joined
  <2>3. Len(t) = 0
    BY <1>2, <2>1, <2>2
  <2>4. t = <<>>
    BY <2>3, EmptySeq DEF Scripts
  <2> QED
    BY <1>2, <2>4, ConcatEmptySeq DEF Scripts
<1>3. AtMost(<<>>, 0)
  <2>1. Len(<<>>) <= 1
    OBVIOUS
  <2> QED
    BY <1>1, <1>2, <2>1 DEF AtMost
<1>4. AtMost(<<"connect">>, -1)
  <2>1. Len(<<"connect">>) <= 1
    OBVIOUS
  <2>2. Need(<<"connect">>) <= -1
    BY NeedSmall
  <2> QED
    BY <1>1, <1>2, <2>1, <2>2 DEF AtMost
<1>5. AtMost(<<"release">>, 0)
  <2>1. Len(<<"release">>) <= 1 /\ Head(<<"release">>) = "release"
    OBVIOUS
  <2> QED
    BY <1>1, <1>2, <2>1 DEF AtMost
<1> QED
  BY <1>1, <1>3, <1>4, <1>5

\* A piece of a route that holds as much when it ends as when it began.
Balanced(s, d) == s \in Scripts /\ Need(s) = 0 /\ AtMost(s, d)

LEMMA BalancedConcat ==
  ASSUME NEW s, NEW t, NEW d \in Int, Balanced(s, d), Balanced(t, d)
  PROVE  Balanced(s \o t, d)
<1>1. s \in Scripts /\ t \in Scripts /\ Need(s) = 0 /\ Need(t) = 0 /\ AtMost(s, d) /\ AtMost(t, d)
  BY DEF Balanced
<1>2. s \o t \in Scripts /\ Need(s \o t) = 0
  BY <1>1, Joined, NeedConcat
<1>3. d - Need(t) = d
  BY <1>1
<1>4. AtMost(s \o t, d)
  BY <1>1, <1>3, AtMostConcat
<1> QED
  BY <1>2, <1>4 DEF Balanced

\* Inside a session, one connection more is held.
LEMMA BalancedSession ==
  ASSUME NEW s, NEW d \in Int, Balanced(s, d), d >= -1
  PROVE  Balanced(Session(s), d + 1)
<1>1. s \in Scripts /\ Need(s) = 0 /\ AtMost(s, d)
  BY DEF Balanced
<1> DEFINE c == <<"connect">>
           r == <<"release">>
<1>2. /\ c \in Scripts /\ r \in Scripts /\ Need(c) = -1 /\ Need(r) = 1
      /\ AtMost(c, -1) /\ AtMost(r, 0)
  BY AtMostSmall, NeedSmall
<1>3. Session(s) = c \o s \o r
  BY DEF Session
<1> HIDE DEF c, r
<1>4. c \o s \in Scripts /\ Need(c \o s) = -1
  BY <1>1, <1>2, Joined, NeedConcat
<1>5. c \o s \o r \in Scripts /\ Need(c \o s \o r) = 0
  BY <1>2, <1>4, Joined, NeedConcat
<1>6. AtMost(c, d - Need(s))
  BY <1>1, <1>2, AtMostMore
<1>7. AtMost(c \o s, d)
  BY <1>1, <1>2, <1>6, AtMostConcat
<1>8. (d + 1) - Need(r) = d /\ AtMost(r, d + 1)
  BY <1>2, AtMostMore
<1>9. AtMost(c \o s \o r, d + 1)
  BY <1>2, <1>4, <1>7, <1>8, AtMostConcat
<1> QED
  BY <1>3, <1>5, <1>9 DEF Balanced

\* Every route gives back what it takes; a flat one waits with nothing in hand,
\* any other one with one connection at most.
Depth(c) == IF c \in Flat THEN 0 ELSE 1

LEMMA RoutesBalanced == ASSUME NEW c \in Client, NEW r \in Route[c] PROVE Balanced(r, Depth(c))
<1>1. Balanced(<<>>, -1) /\ Balanced(<<>>, 0)
  <2>1. AtMost(<<>>, -1)
    <3> SUFFICES ASSUME NEW t \in Scripts, NEW u \in Scripts, <<>> = t \o u, u # <<>>
                 PROVE  FALSE
      BY DEF AtMost
    <3> QED
      BY Joined, EmptySeq, LenProperties DEF Scripts
  <2> QED
    BY <2>1, AtMostSmall, NeedSmall DEF Balanced
<1>2. Balanced(Accessor, 0) /\ Balanced(Accessor, 1)
  <2>1. Balanced(Accessor, 0)
    BY <1>1, BalancedSession DEF Accessor
  <2> QED
    BY <2>1, AtMostMore DEF Balanced
<1>3. Balanced(Session(<<>>), 0)
  BY <1>1, BalancedSession
<1>4. Balanced(InboxRoute, 0)
  BY <1>2, <1>3, BalancedConcat DEF InboxRoute, Wrapped
<1>5. Balanced(MediaRoute, 0)
  BY <1>2, BalancedConcat DEF MediaRoute, OptedOut
<1>6. Balanced(Accessor \o Accessor \o Accessor, 0)
  BY <1>2, BalancedConcat
<1>7. Balanced(Session(Accessor \o Accessor \o Accessor), 1)
  BY <1>6, BalancedSession
<1>8. Balanced(MessageRoute, 1)
  BY <1>2, <1>7, BalancedConcat DEF MessageRoute, Wrapped
<1>9. Balanced(OpenedRoute, 1)
  BY <1>2, BalancedSession DEF OpenedRoute
<1>10. Balanced(OrdinaryRoute, 1)
  <2>1. Balanced(Session(Accessor), 1)
    BY <1>2, BalancedSession
  <2> QED
    BY <1>2, <2>1, BalancedConcat DEF OrdinaryRoute, Wrapped
<1> QED
  BY <1>4, <1>5, <1>8, <1>9, <1>10 DEF Route, Depth
-----------------------------------------------------------------------------
(* The pool. *)

\* A client holds what it has yet to give back, and a waiting one holds no more
\* than its routes allow.
Owes(c) == Cardinality(Held(c)) = Need(script[c]) /\ AtMost(script[c], Depth(c))

AboutToConnect(c) == script[c] # <<>> /\ Head(script[c]) = "connect"

InLineOnce == \A m, n \in DOMAIN queue : queue[m] = queue[n] => m = n

PoolTypes ==
  /\ script \in [Client -> Scripts]
  /\ owner \in [Connections -> Client \cup {NoClient}]
  /\ queue \in Seq(Client)

\* The inductive invariant.
PoolInv ==
  /\ PoolTypes
  /\ InLineOnce
  /\ \A c \in Waiting : AboutToConnect(c)
  /\ \A c \in Client : Owes(c)
  /\ queue # <<>> => Idle = {}

LEMMA PoolLimits == Size \in Nat \ {0} /\ NoClient \notin Client
BY PoolAssumption

\* Who holds what, in the state where o is the owner.
HeldIn(o, c) == {k \in Connections : o[k] = c}

Owners == [Connections -> Client \cup {NoClient}]

GoesTo(o, k, x, p) == p = [o EXCEPT ![k] = x]

Moved(o, p, x, y) ==
  /\ Cardinality(HeldIn(p, x)) = Cardinality(HeldIn(o, x)) + 1
  /\ Cardinality(HeldIn(p, y)) = Cardinality(HeldIn(o, y)) - 1
  /\ \A c : c # x /\ c # y => HeldIn(p, c) = HeldIn(o, c)

LEMMA HeldInFinite == ASSUME NEW o, NEW c PROVE IsFiniteSet(HeldIn(o, c)) /\ Cardinality(HeldIn(o, c)) \in Nat
<1>1. IsFiniteSet(Connections)
  BY PoolLimits, FS_Interval DEF Connections
<1>2. IsFiniteSet(HeldIn(o, c))
  BY <1>1, FS_Subset DEF HeldIn
<1> QED
  BY <1>2, FS_CardinalityType

LEMMA HeldFinite == ASSUME NEW c PROVE IsFiniteSet(Held(c)) /\ Cardinality(Held(c)) \in Nat
<1>1. Held(c) = HeldIn(owner, c)
  BY DEF Held, HeldIn
<1> QED
  BY <1>1, HeldInFinite

\* A connection goes from one holder to another.
LEMMA HeldMoves ==
  ASSUME NEW o \in Owners, NEW k \in Connections, NEW x, NEW y, o[k] = y, x # y,
         NEW p, GoesTo(o, k, x, p)
  PROVE  Moved(o, p, x, y)
<1>1. HeldIn(p, x) = HeldIn(o, x) \cup {k} /\ k \notin HeldIn(o, x)
  BY DEF HeldIn, Owners, GoesTo
<1>2. HeldIn(p, y) = HeldIn(o, y) \ {k} /\ k \in HeldIn(o, y)
  BY DEF HeldIn, Owners, GoesTo
<1>3. \A c : c # x /\ c # y => HeldIn(p, c) = HeldIn(o, c)
  BY DEF HeldIn, Owners, GoesTo
<1>4. Cardinality(HeldIn(o, x) \cup {k}) = Cardinality(HeldIn(o, x)) + 1
  BY <1>1, HeldInFinite, FS_AddElement
<1>5. Cardinality(HeldIn(o, y) \ {k}) = Cardinality(HeldIn(o, y)) - 1
  BY <1>2, HeldInFinite, FS_RemoveElement
<1> QED
  BY <1>1, <1>2, <1>3, <1>4, <1>5 DEF Moved

\* A step of a request done: it is owed one connection less, or one more.
LEMMA OneStepLess ==
  ASSUME NEW s \in Scripts, NEW d, s # <<>>, AtMost(s, d)
  PROVE  /\ Tail(s) \in Scripts /\ AtMost(Tail(s), d)
         /\ Need(Tail(s)) = IF Head(s) = "connect" THEN Need(s) + 1 ELSE Need(s) - 1
<1>1. Tail(s) \in Scripts /\ Need(Tail(s)) = Need(s) + (IF Head(s) = "connect" THEN 1 ELSE -1)
  BY NeedTail
<1>2. Need(s) \in Int
  BY NeedConcat
<1> QED
  BY <1>1, <1>2, AtMostTail

LEMMA PoolBegins == PoolInit => PoolInv
<1> SUFFICES ASSUME PoolInit PROVE PoolInv
  OBVIOUS
<1>1. PoolTypes
  BY AtMostSmall DEF PoolInit, PoolTypes
<1>2. InLineOnce /\ Waiting = {} /\ queue = <<>>
  BY DEF PoolInit, InLineOnce, Waiting
<1>3. ASSUME NEW c \in Client PROVE Owes(c)
  <2>1. Held(c) = {} /\ script[c] = <<>>
    BY PoolLimits DEF PoolInit, Held
  <2>2. AtMost(<<>>, 0) /\ AtMost(<<>>, 1)
    BY AtMostSmall, AtMostMore
  <2> QED
    BY <2>1, <2>2, NeedSmall, FS_EmptySet DEF Owes, Depth
<1> QED
  BY <1>1, <1>2, <1>3 DEF PoolInv

\* Nothing changes for a client whose request and whose connections stay.
LEMMA OwesStill ==
  ASSUME NEW c, Owes(c), script'[c] = script[c], Held(c)' = Held(c)
  PROVE  Owes(c)'
BY DEF Owes

\* A request begins.
LEMMA BeginKeeps ==
  ASSUME PoolInv, NEW c \in Client, NEW r \in Route[c], Begin(c, r)
  PROVE  PoolInv'
<1>1. /\ script[c] = <<>> /\ script' = [script EXCEPT ![c] = r] /\ owner' = owner /\ queue' = queue
      /\ PoolTypes /\ InLineOnce /\ (queue # <<>> => Idle = {})
      /\ \A b \in Waiting : AboutToConnect(b)
      /\ \A b \in Client : Owes(b)
  BY DEF Begin, PoolInv
<1>2. r \in Scripts /\ Need(r) = 0 /\ AtMost(r, Depth(c))
  BY RoutesBalanced DEF Balanced
<1>3. PoolTypes' /\ InLineOnce' /\ Waiting' = Waiting /\ (queue # <<>> => Idle = {})'
  BY <1>1, <1>2 DEF PoolTypes, InLineOnce, Waiting, Idle, Held
<1>4. c \notin Waiting
  BY <1>1 DEF AboutToConnect
<1>5. \A b \in Waiting' : AboutToConnect(b)'
  BY <1>1, <1>3, <1>4 DEF AboutToConnect, PoolTypes
<1>6. ASSUME NEW b \in Client PROVE Owes(b)'
  <2>1. Held(b)' = Held(b)
    BY <1>1 DEF Held
  <2>2. CASE b = c
    <3>1. Cardinality(Held(c)) = 0
      BY <1>1, NeedSmall DEF Owes
    <3>2. script'[c] = r
      BY <1>1 DEF PoolTypes
    <3> QED
      BY <1>2, <2>1, <2>2, <3>1, <3>2 DEF Owes
  <2>3. CASE b # c
    <3>1. script'[b] = script[b]
      BY <1>1, <2>3 DEF PoolTypes
    <3> QED
      BY <1>1, <2>1, <3>1, OwesStill
  <2> QED
    BY <2>2, <2>3
<1> QED
  BY <1>3, <1>5, <1>6 DEF PoolInv

\* A place at the end of the line.
LEMMA InLine ==
  ASSUME PoolTypes, InLineOnce, NEW c \in Client, c \notin Waiting, queue' = Append(queue, c)
  PROVE  queue' \in Seq(Client) /\ InLineOnce' /\ Waiting' = Waiting \cup {c}
<1>1. queue \in Seq(Client)
  BY DEF PoolTypes
<1>2. /\ queue' \in Seq(Client) /\ Len(queue') = Len(queue) + 1 /\ Len(queue) \in Nat
      /\ \A i \in 1 .. Len(queue) : queue'[i] = queue[i]
      /\ queue'[Len(queue) + 1] = c
  BY <1>1, AppendProperties, LenProperties
<1>3. DOMAIN queue = 1 .. Len(queue) /\ DOMAIN queue' = 1 .. Len(queue) + 1
  BY <1>1, <1>2, LenProperties
<1>4. InLineOnce'
  BY <1>2, <1>3 DEF InLineOnce, Waiting
<1>5. Waiting' = Waiting \cup {c}
  BY <1>2, <1>3 DEF Waiting
<1> QED
  BY <1>2, <1>4, <1>5

\* The first in line is served.
LEMMA OutOfLine ==
  ASSUME PoolTypes, InLineOnce, queue # <<>>, queue' = Tail(queue)
  PROVE  /\ queue' \in Seq(Client) /\ InLineOnce'
         /\ Head(queue) \in Waiting /\ Head(queue) \in Client /\ Waiting' = Waiting \ {Head(queue)}
<1>1. queue \in Seq(Client)
  BY DEF PoolTypes
<1>2. /\ queue' \in Seq(Client) /\ Len(queue') = Len(queue) - 1 /\ Len(queue) \in Nat \ {0}
      /\ \A i \in 1 .. Len(queue') : queue'[i] = queue[i + 1]
      /\ Head(queue) = queue[1] /\ Head(queue) \in Client
  BY <1>1, HeadTailProperties, LenProperties, EmptySeq
<1>3. DOMAIN queue = 1 .. Len(queue) /\ DOMAIN queue' = 1 .. Len(queue) - 1
  BY <1>1, <1>2, LenProperties
<1>4. InLineOnce'
  <2> SUFFICES ASSUME NEW m \in DOMAIN queue', NEW n \in DOMAIN queue', queue'[m] = queue'[n]
               PROVE  m = n
    BY DEF InLineOnce
  <2>1. m + 1 \in DOMAIN queue /\ n + 1 \in DOMAIN queue /\ queue[m + 1] = queue[n + 1]
    BY <1>2, <1>3
  <2>2. m + 1 = n + 1
    BY <2>1 DEF InLineOnce
  <2> QED
    BY <1>2, <1>3, <2>2
<1>5. Head(queue) \in Waiting
  BY <1>2, <1>3 DEF Waiting
<1>6. Waiting' \subseteq Waiting \ {Head(queue)}
  <2> SUFFICES ASSUME NEW n \in DOMAIN queue'
               PROVE  queue'[n] \in Waiting /\ queue'[n] # queue[1]
    BY <1>2 DEF Waiting
  <2>1. n + 1 \in DOMAIN queue /\ queue'[n] = queue[n + 1] /\ 1 \in DOMAIN queue /\ n + 1 # 1
    BY <1>2, <1>3
  <2> QED
    BY <2>1 DEF Waiting, InLineOnce
<1>7. Waiting \ {Head(queue)} \subseteq Waiting'
  <2> SUFFICES ASSUME NEW n \in DOMAIN queue, queue[n] # queue[1]
               PROVE  queue[n] \in Waiting'
    BY <1>2 DEF Waiting
  <2>1. n - 1 \in DOMAIN queue' /\ queue'[n - 1] = queue[n]
    BY <1>2, <1>3
  <2> QED
    BY <2>1 DEF Waiting
<1> QED
  BY <1>2, <1>4, <1>5, <1>6, <1>7

\* pool.connect().
LEMMA ConnectKeeps ==
  ASSUME PoolInv, NEW c \in Client, Connect(c)
  PROVE  PoolInv'
<1>1. /\ AboutToConnect(c) /\ c \notin Waiting
      /\ PoolTypes /\ InLineOnce /\ (queue # <<>> => Idle = {})
      /\ \A b \in Waiting : AboutToConnect(b)
      /\ \A b \in Client : Owes(b)
  BY DEF Connect, Does, AboutToConnect, PoolInv
<1>2. CASE /\ Idle # {}
           /\ \E k \in Idle : owner' = [owner EXCEPT ![k] = c]
           /\ script' = [script EXCEPT ![c] = Tail(@)]
           /\ UNCHANGED queue
  <2>1. PICK k \in Idle : owner' = [owner EXCEPT ![k] = c]
    BY <1>2
  <2>2. k \in Connections /\ owner[k] = NoClient /\ c # NoClient
    BY PoolLimits DEF Idle, Held
  <2>3. /\ Cardinality(Held(c)') = Cardinality(Held(c)) + 1
        /\ \A b : b # c /\ b # NoClient => Held(b)' = Held(b)
    <3>1. \A b : Held(b) = HeldIn(owner, b) /\ Held(b)' = HeldIn(owner', b)
      BY DEF Held, HeldIn
    <3>2. owner \in Owners
      BY <1>1 DEF PoolTypes, Owners
    <3>4. GoesTo(owner, k, c, owner')
      BY <2>1 DEF GoesTo
    <3>3. Moved(owner, owner', c, NoClient)
      BY <2>2, <3>2, <3>4, HeldMoves
    <3> QED
      BY <3>1, <3>3 DEF Moved
  <2>4. script[c] \in Scripts /\ script' = [script EXCEPT ![c] = Tail(script[c])]
    BY <1>1, <1>2 DEF PoolTypes
  <2>5. /\ Tail(script[c]) \in Scripts /\ AtMost(Tail(script[c]), Depth(c))
        /\ Need(Tail(script[c])) = Need(script[c]) + 1
    BY <1>1, <2>4, OneStepLess DEF AboutToConnect, Owes
  <2>6. queue = <<>> /\ queue' = <<>> /\ Waiting' = {}
    BY <1>1, <1>2 DEF Waiting
  <2>7. PoolTypes'
    <3>1. script' \in [Client -> Scripts]
      BY <1>1, <2>4, <2>5 DEF PoolTypes
    <3>2. owner' \in [Connections -> Client \cup {NoClient}]
      BY <1>1, <2>1 DEF PoolTypes
    <3> QED
      BY <1>1, <1>2, <3>1, <3>2 DEF PoolTypes
  <2>8. ASSUME NEW b \in Client PROVE Owes(b)'
    <3>1. CASE b = c
      <4>1. script'[c] = Tail(script[c])
        BY <1>1, <2>4 DEF PoolTypes
      <4> QED
        BY <1>1, <2>3, <2>5, <3>1, <4>1 DEF Owes
    <3>2. CASE b # c
      <4>1. script'[b] = script[b] /\ Held(b)' = Held(b)
        BY <1>1, <2>3, <2>4, <3>2, PoolLimits DEF PoolTypes
      <4> QED
        BY <1>1, <4>1, OwesStill
    <3> QED
      BY <3>1, <3>2
  <2>9. InLineOnce'
    BY <1>1, <1>2 DEF InLineOnce
  <2> QED
    BY <2>6, <2>7, <2>8, <2>9 DEF PoolInv
<1>3. CASE Idle = {} /\ queue' = Append(queue, c) /\ UNCHANGED <<script, owner>>
  <2>1. queue' \in Seq(Client) /\ InLineOnce' /\ Waiting' = Waiting \cup {c}
    BY <1>1, <1>3, InLine
  <2>2. PoolTypes' /\ Idle' = {}
    BY <1>1, <1>3, <2>1 DEF PoolTypes, Idle, Held
  <2>3. \A b \in Waiting' : AboutToConnect(b)'
    BY <1>1, <1>3, <2>1 DEF AboutToConnect
  <2>4. ASSUME NEW b \in Client PROVE Owes(b)'
    <3>1. script'[b] = script[b] /\ Held(b)' = Held(b)
      BY <1>3 DEF Held
    <3> QED
      BY <1>1, <3>1, OwesStill
  <2> QED
    BY <2>1, <2>2, <2>3, <2>4 DEF PoolInv
<1> QED
  BY <1>2, <1>3 DEF Connect

\* client.release().
LEMMA ReleaseKeeps ==
  ASSUME PoolInv, NEW c \in Client, Release(c)
  PROVE  PoolInv'
<1>1. /\ script[c] # <<>> /\ Head(script[c]) = "release" /\ c \notin Waiting
      /\ PoolTypes /\ InLineOnce /\ (queue # <<>> => Idle = {})
      /\ \A b \in Waiting : AboutToConnect(b)
      /\ \A b \in Client : Owes(b)
  BY DEF Release, Does, PoolInv
<1>2. PICK k \in Held(c) : GiveBack(k, [script EXCEPT ![c] = Tail(@)])
  BY DEF Release
<1>3. k \in Connections /\ owner[k] = c /\ c # NoClient
  BY PoolLimits DEF Held
<1>4. script[c] \in Scripts /\ [script EXCEPT ![c] = Tail(@)] = [script EXCEPT ![c] = Tail(script[c])]
  BY <1>1 DEF PoolTypes
<1>5. /\ Tail(script[c]) \in Scripts /\ AtMost(Tail(script[c]), Depth(c))
      /\ Need(Tail(script[c])) = Need(script[c]) - 1
  <2>1. Head(script[c]) # "connect"
    BY <1>1
  <2> QED
    BY <1>1, <1>4, <2>1, OneStepLess DEF Owes
<1>6. CASE queue = <<>>
  <2>1. /\ owner' = [owner EXCEPT ![k] = NoClient]
        /\ script' = [script EXCEPT ![c] = Tail(script[c])]
        /\ queue' = queue
    BY <1>2, <1>4, <1>6 DEF GiveBack
  <2>2. /\ Cardinality(Held(c)') = Cardinality(Held(c)) - 1
        /\ \A b : b # NoClient /\ b # c => Held(b)' = Held(b)
    <3>1. \A b : Held(b) = HeldIn(owner, b) /\ Held(b)' = HeldIn(owner', b)
      BY DEF Held, HeldIn
    <3>2. owner \in Owners
      BY <1>1 DEF PoolTypes, Owners
    <3>4. GoesTo(owner, k, NoClient, owner')
      BY <2>1 DEF GoesTo
    <3>3. Moved(owner, owner', NoClient, c)
      BY <1>3, <3>2, <3>4, HeldMoves
    <3> QED
      BY <3>1, <3>3 DEF Moved
  <2>3. PoolTypes'
    <3>1. script' \in [Client -> Scripts]
      BY <1>1, <1>5, <2>1 DEF PoolTypes
    <3>2. owner' \in [Connections -> Client \cup {NoClient}]
      BY <1>1, <2>1 DEF PoolTypes
    <3> QED
      BY <1>1, <2>1, <3>1, <3>2 DEF PoolTypes
  <2>4. ASSUME NEW b \in Client PROVE Owes(b)'
    <3>1. CASE b = c
      <4>1. script'[c] = Tail(script[c])
        BY <1>1, <2>1 DEF PoolTypes
      <4> QED
        BY <1>1, <1>5, <2>2, <3>1, <4>1 DEF Owes
    <3>2. CASE b # c
      <4>1. script'[b] = script[b] /\ Held(b)' = Held(b)
        BY <1>1, <2>1, <2>2, <3>2, PoolLimits DEF PoolTypes
      <4> QED
        BY <1>1, <4>1, OwesStill
    <3> QED
      BY <3>1, <3>2
  <2>5. InLineOnce' /\ queue' = <<>> /\ Waiting' = {}
    BY <1>1, <1>6, <2>1 DEF InLineOnce, Waiting
  <2> QED
    BY <2>3, <2>4, <2>5 DEF PoolInv
<1>7. CASE queue # <<>>
  <2>0. Head(queue) \in Client
    BY <1>1, <1>7, HeadTailProperties DEF PoolTypes
  <2> PICK h \in Client : h = Head(queue)
    BY <2>0
  <2> DEFINE rest == [script EXCEPT ![c] = Tail(script[c])]
  <2>1. owner' = [owner EXCEPT ![k] = h] /\ script' = [rest EXCEPT ![h] = Tail(@)] /\ queue' = Tail(queue)
    BY <1>2, <1>4, <1>7 DEF GiveBack
  <2>2. /\ queue' \in Seq(Client) /\ InLineOnce'
        /\ h \in Waiting /\ h \in Client /\ Waiting' = Waiting \ {h}
    BY <1>1, <1>7, <2>1, OutOfLine
  <2>3. rest \in [Client -> Scripts]
    BY <1>1, <1>5 DEF PoolTypes
  <2>4. rest[h] = script[h] /\ rest[c] = Tail(script[c]) /\ \A b \in Client : b # c => rest[b] = script[b]
    BY <1>1, <2>2 DEF PoolTypes
  <2> HIDE DEF rest
  <2>5. h # c /\ h # NoClient
    BY <1>1, <2>2, PoolLimits
  <2>6. script' = [rest EXCEPT ![h] = Tail(script[h])]
    BY <2>1, <2>2, <2>3, <2>4
  <2>7. /\ Cardinality(Held(h)') = Cardinality(Held(h)) + 1
        /\ Cardinality(Held(c)') = Cardinality(Held(c)) - 1
        /\ \A b : b # h /\ b # c => Held(b)' = Held(b)
    <3>1. /\ Held(h) = HeldIn(owner, h) /\ Held(h)' = HeldIn(owner', h)
          /\ Held(c) = HeldIn(owner, c) /\ Held(c)' = HeldIn(owner', c)
          /\ \A b : Held(b) = HeldIn(owner, b) /\ Held(b)' = HeldIn(owner', b)
      BY DEF Held, HeldIn
    <3>2. owner \in Owners
      BY <1>1 DEF PoolTypes, Owners
    <3>4. GoesTo(owner, k, h, owner')
      BY <2>1 DEF GoesTo
    <3>3. Moved(owner, owner', h, c)
      BY <1>3, <2>5, <3>2, <3>4, HeldMoves
    <3> QED
      BY <3>1, <3>3 DEF Moved
  <2>8. script[h] \in Scripts /\ script[h] # <<>> /\ Head(script[h]) = "connect" /\ Owes(h)
    BY <1>1, <2>2 DEF AboutToConnect, PoolTypes
  <2>9. /\ Tail(script[h]) \in Scripts /\ AtMost(Tail(script[h]), Depth(h))
        /\ Need(Tail(script[h])) = Need(script[h]) + 1
    BY <2>8, OneStepLess DEF Owes
  <2>10. PoolTypes'
    <3>1. script' \in [Client -> Scripts]
      BY <2>3, <2>6, <2>9
    <3>2. owner' \in [Connections -> Client \cup {NoClient}]
      BY <1>1, <2>1, <2>2 DEF PoolTypes
    <3> QED
      BY <2>2, <3>1, <3>2 DEF PoolTypes
  <2>11. /\ script'[h] = Tail(script[h]) /\ script'[c] = Tail(script[c])
         /\ \A b \in Client : b # h /\ b # c => script'[b] = script[b]
    BY <2>2, <2>3, <2>4, <2>5, <2>6
  <2>12. ASSUME NEW b \in Client PROVE Owes(b)'
    <3>1. CASE b = c
      <4>1. Owes(c)
        BY <1>1
      <4> QED
        BY <1>5, <2>7, <2>11, <3>1, <4>1 DEF Owes
    <3>2. CASE b = h
      BY <2>7, <2>8, <2>9, <2>11, <3>2 DEF Owes
    <3>3. CASE b # c /\ b # h
      <4>1. script'[b] = script[b] /\ Held(b)' = Held(b)
        BY <2>7, <2>11, <3>3
      <4> QED
        BY <1>1, <4>1, OwesStill
    <3> QED
      BY <3>1, <3>2, <3>3
  <2>13. \A b \in Waiting' : AboutToConnect(b)'
    <3>1. Waiting \subseteq Client
      BY <1>1, ElementOfSeq, LenProperties DEF Waiting, PoolTypes
    <3> QED
      BY <1>1, <2>2, <2>11, <3>1 DEF AboutToConnect
  <2>14. Idle' = {}
    <3>1. Idle = {}
      BY <1>1, <1>7
    <3> QED
      BY <2>5, <2>7, <1>3, <3>1 DEF Idle
  <2> QED
    BY <2>2, <2>10, <2>12, <2>13, <2>14 DEF PoolInv
<1> QED
  BY <1>6, <1>7

\* A request that only has releases left never waits.
LEMMA OnlyReleases ==
  ASSUME NEW n \in Nat
  PROVE  LET s == [m \in 1 .. n |-> "release"]
         IN  s \in Scripts /\ Need(s) = n /\ \A d : AtMost(s, d)
<1> DEFINE s == [m \in 1 .. n |-> "release"]
<1>1. s \in Scripts /\ Len(s) = n /\ DOMAIN s = 1 .. n /\ \A m \in 1 .. n : s[m] = "release"
  BY DEF Scripts, StepKind
<1> HIDE DEF s
<1>2. Count(s, "release") = n /\ Count(s, "connect") = 0
  <2>1. {m \in DOMAIN s : s[m] = "release"} = 1 .. n /\ {m \in DOMAIN s : s[m] = "connect"} = {}
    BY <1>1
  <2>2. Cardinality(1 .. n) = n
    BY FS_Interval
  <2> QED
    BY <2>1, <2>2, FS_EmptySet DEF Count
<1>3. ASSUME NEW t \in Scripts, NEW u \in Scripts, s = t \o u, u # <<>>
      PROVE  Head(u) # "connect"
  <2>1. Len(t) \in Nat /\ Len(u) \in Nat \ {0} /\ Head(u) = u[1]
    BY <1>3, LenProperties, EmptySeq DEF Scripts
  <2>2. n = Len(t) + Len(u)
    BY <1>1, <1>3, Joined
  <2>3. (t \o u)[Len(t) + 1] = u[1]
    <3>1. Len(t) + 1 \in 1 .. Len(t) + Len(u) /\ ~(Len(t) + 1 <= Len(t)) /\ (Len(t) + 1) - Len(t) = 1
      BY <2>1
    <3> QED
      BY <3>1, JoinedAt
  <2>4. s[Len(t) + 1] = "release"
    BY <1>1, <2>1, <2>2
  <2> QED
    BY <1>3, <2>1, <2>3, <2>4
<1>4. \A d : AtMost(s, d)
  BY <1>3 DEF AtMost
<1> QED
  BY <1>1, <1>2, <1>4 DEF Need, s

\* A request fails: what it holds is released, and no more.
LEMMA FailKeeps ==
  ASSUME PoolInv, NEW c \in Client, Fail(c)
  PROVE  PoolInv'
<1> DEFINE s == [n \in 1 .. Cardinality(Held(c)) |-> "release"]
<1>1. /\ c \notin Waiting /\ script' = [script EXCEPT ![c] = s] /\ owner' = owner /\ queue' = queue
      /\ PoolTypes /\ InLineOnce /\ (queue # <<>> => Idle = {})
      /\ \A b \in Waiting : AboutToConnect(b)
      /\ \A b \in Client : Owes(b)
  BY DEF Fail, PoolInv
<1>2. s \in Scripts /\ Need(s) = Cardinality(Held(c)) /\ AtMost(s, Depth(c))
  BY HeldFinite, OnlyReleases
<1> HIDE DEF s
<1>3. PoolTypes' /\ InLineOnce' /\ Waiting' = Waiting /\ (queue # <<>> => Idle = {})'
  BY <1>1, <1>2 DEF PoolTypes, InLineOnce, Waiting, Idle, Held
<1>4. Waiting \subseteq Client
  BY <1>1, ElementOfSeq, LenProperties DEF Waiting, PoolTypes
<1>5. \A b \in Waiting' : AboutToConnect(b)'
  BY <1>1, <1>3, <1>4 DEF AboutToConnect, PoolTypes
<1>6. ASSUME NEW b \in Client PROVE Owes(b)'
  <2>1. Held(b)' = Held(b)
    BY <1>1 DEF Held
  <2>2. CASE b = c
    <3>1. script'[c] = s
      BY <1>1 DEF PoolTypes
    <3> QED
      BY <1>2, <2>1, <2>2, <3>1 DEF Owes
  <2>3. CASE b # c
    <3>1. script'[b] = script[b]
      BY <1>1, <2>3 DEF PoolTypes
    <3> QED
      BY <1>1, <2>1, <3>1, OwesStill
  <2> QED
    BY <2>2, <2>3
<1> QED
  BY <1>3, <1>5, <1>6 DEF PoolInv

LEMMA NextPool == PoolInv /\ [PoolNext]_poolVars => PoolInv'
<1> SUFFICES ASSUME PoolInv, [PoolNext]_poolVars
             PROVE  PoolInv'
  OBVIOUS
<1>1. CASE \E c \in Client : Connect(c)
  BY <1>1, ConnectKeeps
<1>2. CASE \E c \in Client : Release(c)
  BY <1>2, ReleaseKeeps
<1>3. CASE \E c \in Client : Fail(c)
  BY <1>3, FailKeeps
<1>4. CASE \E c \in Client : \E r \in Route[c] : Begin(c, r)
  BY <1>4, BeginKeeps
<1>5. CASE UNCHANGED poolVars
  <2>1. script' = script /\ owner' = owner /\ queue' = queue
    BY <1>5 DEF poolVars
  <2> QED
    BY <2>1 DEF PoolInv, PoolTypes, InLineOnce, Waiting, AboutToConnect, Owes, Held, Idle
<1> QED
  BY <1>1, <1>2, <1>3, <1>4, <1>5 DEF PoolNext, PoolStep

\* The pool's inductive invariant holds of every behaviour: a request holds what
\* it has yet to give back, and who waits is about to connect.
THEOREM PoolInvariant == PoolSpec => []PoolInv
BY PoolBegins, NextPool, PTL DEF PoolSpec

\* pool.ts, withSession() and withSystemSession(): for any clients and any size,
\* a connection checked out comes back whatever happens to the request, and
\* nobody waits while one is idle.
THEOREM PoolNeverLeaks == PoolSpec => []NoLeak
<1>1. PoolInv => NoLeak
  BY DEF PoolInv, NoLeak, Owes, Need
<1> QED
  BY <1>1, PoolInvariant, PTL

\* A request that waits is about to connect, and no route holds more than its depth then.
LEMMA OuterOnly ==
  ASSUME PoolInv
  PROVE  HoldAndWait /\ Waiting \subseteq Client
<1>1. PoolTypes /\ (\A b \in Waiting : AboutToConnect(b)) /\ (\A b \in Client : Owes(b))
  BY DEF PoolInv
<1>2. Waiting \subseteq Client
  BY <1>1, ElementOfSeq, LenProperties DEF Waiting, PoolTypes
<1>3. ASSUME NEW c \in Waiting
      PROVE  Held(c) = {} \/ (c \in Nesting /\ Cardinality(Held(c)) = 1)
  <2>1. c \in Client /\ AboutToConnect(c) /\ Owes(c) /\ script[c] \in Scripts
    BY <1>1, <1>2, <1>3 DEF PoolTypes
  <2>2. Cardinality(Held(c)) <= Depth(c)
    BY <2>1, AtMostNow DEF AboutToConnect, Owes
  <2>3. Cardinality(Held(c)) \in Nat /\ (Cardinality(Held(c)) = 0 => Held(c) = {})
    BY HeldFinite, FS_EmptySet
  <2>4. CASE Cardinality(Held(c)) = 0
    BY <2>3, <2>4
  <2>5. CASE Cardinality(Held(c)) # 0
    <3>1. Depth(c) = 1 /\ c \notin Flat
      BY <2>2, <2>3, <2>5 DEF Depth
    <3> QED
      BY <2>1, <2>2, <2>3, <2>5, <3>1 DEF Client
  <2> QED
    BY <2>4, <2>5
<1> QED
  BY <1>2, <1>3 DEF HoldAndWait

LEMMA PoolInvHolds == PoolInv => PoolHolds
<1> SUFFICES ASSUME PoolInv PROVE PoolHolds
  OBVIOUS
<1>1. NoLeak
  BY DEF PoolInv, NoLeak, Owes, Need
<1>2. HoldAndWait
  BY OuterOnly
<1>3. ASSUME Gridlock
      PROVE  /\ \A k \in Connections : owner[k] \in Nesting
             /\ \A k, n \in Connections : owner[k] = owner[n] => k = n
  <2>1. ASSUME NEW k \in Connections
        PROVE  owner[k] \in Nesting /\ Cardinality(Held(owner[k])) = 1 /\ k \in Held(owner[k])
    <3>1. owner[k] \in Waiting /\ k \in Held(owner[k])
      BY <1>3 DEF Gridlock, Held
    <3> QED
      BY <1>2, <3>1 DEF HoldAndWait
  <2>2. ASSUME NEW k \in Connections, NEW n \in Connections, owner[k] = owner[n]
        PROVE  k = n
    <3>1. PICK x : Held(owner[k]) = {x}
      BY <2>1, HeldFinite, FS_Singleton
    <3>2. k \in Held(owner[k]) /\ n \in Held(owner[k])
      BY <2>2 DEF Held
    <3> QED
      BY <3>1, <3>2
  <2> QED
    BY <2>1, <2>2
<1> QED
  BY <1>1, <1>2, <1>3 DEF PoolHolds, GridlockIsNested

\* pool.ts and api.ts:113-149: for any clients and any size, no connection is lost, and
\* who waits while holding one is a request that nests; a gridlock takes as many of those
\* as there are connections.
THEOREM PoolAlwaysHolds == PoolSpec => []PoolHolds
BY PoolInvHolds, PoolInvariant, PTL

-----------------------------------------------------------------------------
(* The jobs of a night. *)

LEMMA Quotient ==
  ASSUME NEW d \in Nat \ {0}, NEW n \in Int
  PROVE  n % d \in 0 .. (d - 1) /\ n \div d \in Int /\ n = d * (n \div d) + (n % d)
OBVIOUS

LEMMA Remainder ==
  ASSUME NEW d \in Nat \ {0}, NEW q \in Int, NEW r \in 0 .. (d - 1)
  PROVE  (d * q + r) % d = r
OBVIOUS

LEMMA Multiples ==
  ASSUME NEW d \in Nat \ {0}, NEW x \in Int, NEW y \in Int, x > y
  PROVE  d * x >= d * y + d
OBVIOUS

LEMMA OneMore ==
  ASSUME NEW d \in Nat \ {0}, NEW x \in Int
  PROVE  d * (x + 1) = d * x + d
OBVIOUS

\* The same hour strikes again a day later, or more.
LEMMA HoursApart ==
  ASSUME NEW d \in Nat \ {0}, NEW x \in Int, NEW y \in Int, x % d = y % d, x < y
  PROVE  y - x >= d
<1> PICK p \in Int : p = x \div d
  BY Quotient
<1> PICK q \in Int : q = y \div d
  BY Quotient
<1> PICK r \in 0 .. (d - 1) : r = x % d
  BY Quotient
<1>1. x = d * p + r /\ y = d * q + r
  BY Quotient
<1>2. d * p \in Int /\ d * q \in Int
  OBVIOUS
<1>3. q > p
  <2>1. CASE q <= p
    <3>1. d * q <= d * p
      <4>1. CASE q = p
        BY <4>1, <1>2
      <4>2. CASE q < p
        BY <4>2, <1>2, Multiples
      <4> QED
        BY <2>1, <4>1, <4>2
    <3> QED
      BY <1>1, <1>2, <3>1
  <2> QED
    BY <2>1
<1>4. d * q >= d * p + d
  BY <1>3, Multiples
<1> QED
  BY <1>1, <1>2, <1>4

LEMMA SmallRemainder ==
  ASSUME NEW d \in Nat \ {0}, NEW r \in 0 .. (d - 1)
  PROVE  r % d = r /\ (d + r) % d = r
OBVIOUS

\* What is missing to the hour on a clock that shows r.
LEMMA Missing ==
  ASSUME NEW d \in Nat \ {0}, NEW h \in 0 .. (d - 1), NEW r \in 0 .. (d - 1), NEW m, m = (h + d - r) % d
  PROVE  (h < r => m = h + d - r) /\ (~(h < r) => m = h - r)
<1>1. CASE h < r
  <2>1. h + d - r \in 0 .. (d - 1)
    BY <1>1
  <2> QED
    BY <1>1, <2>1, SmallRemainder
<1>2. CASE ~(h < r)
  <2>1. h - r \in 0 .. (d - 1) /\ h + d - r = d + (h - r)
    BY <1>2
  <2> QED
    BY <1>2, <2>1, SmallRemainder
<1> QED
  BY <1>1, <1>2

LEMMA SumIsInt ==
  ASSUME NEW x \in Int, NEW y \in Int
  PROVE  \E w \in Int : w = x + y
OBVIOUS

LEMMA Regroup ==
  ASSUME NEW x \in Int, NEW y \in Int, NEW z \in Int
  PROVE  \E w \in Int : w = x + y + z
OBVIOUS

LEMMA SleptThrough ==
  ASSUME NEW d \in Nat \ {0}, NEW h \in 0 .. (d - 1), NEW r \in 0 .. (d - 1), NEW m \in Int,
         (h < r => m = h + d - r) /\ (~(h < r) => m = h - r),
         NEW l, m = 0 => l = d, m # 0 => l = m,
         NEW midnight \in Int, NEW n \in Int, n = midnight + r
  PROVE  l \in 1 .. d /\ (n + l = midnight + h \/ n + l = midnight + d + h)
<1>0. d \in Int /\ h \in Int /\ r \in Int /\ 0 <= h /\ h < d /\ 0 <= r /\ r < d
  OBVIOUS
<1>1. CASE m = 0
  <2>1. l = d /\ h = r
    BY <1>0, <1>1
  <2> QED
    BY <1>0, <2>1
<1>2. CASE m # 0
  <2>1. l = m
    BY <1>2
  <2>2. m \in 1 .. d /\ (n + m = midnight + h \/ n + m = midnight + d + h)
    BY <1>0, <1>2
  <2> QED
    BY <2>1, <2>2
<1> QED
  BY <1>1, <1>2

LEMMA AheadOf ==
  ASSUME NEW d \in Nat \ {0}, NEW h \in 0 .. (d - 1), NEW n \in Int
  PROVE  LET m == (h + d - (n % d)) % d
             l == IF m = 0 THEN d ELSE m
         IN  l \in 1 .. d /\ \E w \in Int : w = n + l /\ w % d = h
<1>0. d \in Int /\ h \in Int
  OBVIOUS
<1>1. PICK q \in Int, r \in 0 .. (d - 1) : q = n \div d /\ r = n % d
  BY Quotient
<1>2. PICK midnight \in Int : midnight = d * q
  OBVIOUS
<1>3. n = midnight + r
  BY <1>1, <1>2, Quotient, Zenon
<1>4. PICK gap \in Int : gap = h + d - r
  OBVIOUS
<1>5. PICK m \in Int : m = gap % d
  BY Quotient
<1>6. PICK l : l = IF m = 0 THEN d ELSE m
  OBVIOUS
<1>7. (h < r => m = h + d - r) /\ (~(h < r) => m = h - r)
  <2>1. m = (h + d - r) % d
    BY <1>4, <1>5, Zenon
  <2> QED
    BY <2>1, Missing
<1>8. (m = 0 => l = d) /\ (m # 0 => l = m)
  BY <1>6, Zenon
<1>9. l \in 1 .. d /\ (n + l = midnight + h \/ n + l = midnight + d + h)
  BY <1>3, <1>7, <1>8, SleptThrough
<1>10. \E w \in Int : w = n + l /\ w % d = h
  <2>1. CASE n + l = midnight + h
    <3>1. PICK w \in Int : w = midnight + h
      BY <1>0, SumIsInt, Zenon
    <3>2. w = d * q + h
      BY <1>2, <3>1, Zenon
    <3>3. w % d = h
      BY <3>2, Remainder, Zenon
    <3> QED
      BY <2>1, <3>1, <3>3, Zenon
  <2>2. CASE n + l = midnight + d + h
    <3>1. PICK w \in Int : w = midnight + d + h
      BY <1>0, Regroup, Zenon
    <3>2. d * (q + 1) = d * q + d /\ q + 1 \in Int
      BY OneMore
    <3>3. w = d * (q + 1) + h
      BY <1>2, <3>1, <3>2, Zenon
    <3>4. w % d = h
      BY <3>2, <3>3, Remainder, Zenon
    <3> QED
      BY <2>2, <3>1, <3>4, Zenon
  <2> QED
    BY <1>9, <2>1, <2>2, Zenon
<1>11. l = LET x == (h + d - (n % d)) % d IN IF x = 0 THEN d ELSE x
  BY <1>1, <1>4, <1>5, <1>6, Zenon
<1> QED
  BY <1>9, <1>10, <1>11, Zenon

\* scheduler.mjs, msUntilNextRun: the sleep ends on the hour.
LEMMA SleepsUntilTheHour ==
  ASSUME NEW n \in Nat
  PROVE  /\ msUntilNextRun(n) \in 1 .. DayTicks
         /\ \E w \in Int : w = n + msUntilNextRun(n) /\ w % DayTicks = HourUtc
<1> DEFINE d == DayTicks
           h == HourUtc
<1>1. d \in Nat \ {0} /\ h \in 0 .. (d - 1) /\ n \in Int
  BY NightlyAssumption
<1> DEFINE u == LET m == (h + d - (n % d)) % d IN IF m = 0 THEN d ELSE m
<1>2. msUntilNextRun(n) = u
  BY Zenon DEF msUntilNextRun
<1> HIDE DEF d, h, u
<1>3. u = LET m == (h + d - (n % d)) % d IN IF m = 0 THEN d ELSE m
  BY Zenon DEF u
<1>4. u \in 1 .. d /\ \E w \in Int : w = n + u /\ w % d = h
  BY <1>1, <1>3, AheadOf, Zenon
<1> QED
  BY <1>2, <1>4, Zenon DEF d, h

NightPcs == {"asleep", "lock", "work", "exit", "killed"}
Running ==
  [pc : NightPcs, loops : BOOLEAN, left : Nat, stopping : BOOLEAN, job : Nat,
   allOk : BOOLEAN, sawBad : BOOLEAN, last : Int, awry : BOOLEAN]

\* runAll(): the answer so far is the answers of its jobs.
Honest(p) == p.allOk = ~p.sawBad

\* A job of the registry is next, or at work.
AtItsJob(p) == p.pc \in {"lock", "work"} => p.job \in 1 .. Len(JOB_NAMES)

\* loop(): the sleep ends on the hour, a day or more after the night before it; and
\* a night of its own began on the hour.
OnSchedule(p, time) ==
  /\ p.awry = FALSE
  /\ p.pc = "asleep" => \E w \in Int : w = time + p.left /\ w % DayTicks = HourUtc /\ w - p.last >= DayTicks
  /\ p.pc \in {"lock", "work"} /\ p.loops = TRUE => p.last % DayTicks = HourUtc /\ p.last <= time

GoodNight(p, time) == p \in Running /\ Honest(p) /\ AtItsJob(p) /\ OnSchedule(p, time)

NightInv ==
  /\ tick \in Nat
  /\ scheduler = [s \in Scheduler |-> scheduler[s]]
  /\ \A s \in Scheduler : scheduler[s] = Off \/ GoodNight(scheduler[s], tick)
  /\ jobLock \in [Job -> Scheduler \cup {NoProcess}]
  /\ JobOnceAtATime

LEMMA OffFacts == Off.pc = "off" /\ \A p : p \in Running => p.pc \in NightPcs /\ p.pc # "off" /\ p # Off
BY DEF Off, Running, NightPcs

\* The registry of jobs.
LEMMA Registry ==
  /\ Len(JOB_NAMES) \in Nat /\ Len(JOB_NAMES) # 0 /\ 1 \in 1 .. Len(JOB_NAMES)
  /\ \A i \in 1 .. Len(JOB_NAMES) : JOB_NAMES[i] \in Job
<1>1. Len(JOB_NAMES) \in Nat /\ DOMAIN JOB_NAMES = 1 .. Len(JOB_NAMES)
  BY NightlyAssumption, LenProperties
<1>2. Len(JOB_NAMES) # 0
  BY NightlyAssumption, EmptySeq
<1>3. \A i \in 1 .. Len(JOB_NAMES) : JOB_NAMES[i] \in Job
  BY <1>1 DEF Job, ToSet
<1> QED
  BY <1>1, <1>2, <1>3

\* What changes of a process when its pc and its sleep do.
LEMMA Stepped ==
  ASSUME NEW p \in Running, NEW c \in NightPcs
  PROVE  LET q == [p EXCEPT !.pc = c] IN
         /\ q \in Running /\ q.pc = c /\ q.left = p.left /\ q.loops = p.loops /\ q.job = p.job
         /\ q.allOk = p.allOk /\ q.sawBad = p.sawBad /\ q.last = p.last /\ q.awry = p.awry
BY DEF Running

LEMMA NextJobIsGood ==
  ASSUME NEW p, GoodNight(p, tick), tick \in Nat, p.pc \in {"lock", "work"},
         NEW ok \in BOOLEAN, NEW bad \in BOOLEAN, bad = ~ok
  PROVE  GoodNight(NextJob(p, ok, bad), tick) /\ NextJob(p, ok, bad).pc \in {"lock", "asleep", "exit"}
<1> DEFINE q == [p EXCEPT !.allOk = AllOk(p, ok), !.sawBad = p.sawBad \/ bad, !.job = p.job + 1]
<1>1. p \in Running /\ p.allOk = ~p.sawBad /\ p.job \in 1 .. Len(JOB_NAMES) /\ OnSchedule(p, tick)
  BY DEF GoodNight, Honest, AtItsJob
<1>2. p.allOk \in BOOLEAN /\ p.sawBad \in BOOLEAN /\ p.loops \in BOOLEAN /\ p.job + 1 \in Nat
  BY <1>1, Registry DEF Running
<1> PICK a \in BOOLEAN : a = (p.allOk /\ ok)
  BY <1>2, Zenon
<1> PICK b \in BOOLEAN : b = (p.sawBad \/ bad)
  BY <1>2, Zenon
<1>3. a = ~b
  <2>1. a = (p.allOk /\ ok) /\ b = (p.sawBad \/ bad) /\ bad = ~ok
    OBVIOUS
  <2> QED
    BY <1>1, <1>2, <2>1
<1>4. q = [p EXCEPT !.allOk = a, !.sawBad = b, !.job = p.job + 1]
  BY Zenon DEF AllOk
<1>5. NextJob(p, ok, bad) = IF p.job < Len(JOB_NAMES) THEN [q EXCEPT !.pc = "lock"]
                            ELSE IF p.loops THEN GoToSleep(q, tick) ELSE [q EXCEPT !.pc = "exit"]
  BY Zenon DEF NextJob
<1> HIDE DEF q
<1>6. /\ q \in Running /\ q.loops = p.loops /\ q.job = p.job + 1 /\ q.allOk = a /\ q.sawBad = b
      /\ q.last = p.last /\ q.awry = p.awry
  BY <1>1, <1>2, <1>4 DEF Running
<1>7. CASE p.job < Len(JOB_NAMES)
  <2> PICK z : z = [q EXCEPT !.pc = "lock"]
    OBVIOUS
  <2>1. NextJob(p, ok, bad) = z
    BY <1>5, <1>7
  <2>2. /\ z \in Running /\ z.pc = "lock" /\ z.loops = p.loops /\ z.job = p.job + 1
        /\ z.allOk = a /\ z.sawBad = b /\ z.last = p.last /\ z.awry = p.awry
    BY <1>6, Stepped DEF NightPcs
  <2>3. AtItsJob(z)
    BY <1>1, <1>7, <2>2, Registry DEF AtItsJob
  <2>4. OnSchedule(z, tick)
    BY <1>1, <2>2 DEF OnSchedule
  <2>5. Honest(z)
    BY <1>3, <2>2 DEF Honest
  <2> QED
    BY <2>1, <2>2, <2>3, <2>4, <2>5 DEF GoodNight
<1>8. CASE ~(p.job < Len(JOB_NAMES)) /\ p.loops
  <2> PICK l \in Nat : l = msUntilNextRun(tick)
    BY SleepsUntilTheHour
  <2> PICK z : z = [q EXCEPT !.pc = "asleep", !.left = l]
    OBVIOUS
  <2>1. NextJob(p, ok, bad) = z
    BY <1>5, <1>8 DEF GoToSleep
  <2>2. /\ z \in Running /\ z.pc = "asleep" /\ z.left = l /\ z.loops = p.loops
        /\ z.allOk = a /\ z.sawBad = b /\ z.last = p.last /\ z.awry = p.awry
    BY <1>6 DEF Running, NightPcs
  <2>3. AtItsJob(z)
    BY <2>2 DEF AtItsJob
  <2>4. OnSchedule(z, tick)
    <3>1. l \in 1 .. DayTicks
      BY SleepsUntilTheHour
    <3> PICK w \in Int : w = tick + l /\ w % DayTicks = HourUtc
      BY SleepsUntilTheHour
    <3>2. p.loops = TRUE
      BY <1>2, <1>8
    <3>3. p.last % DayTicks = HourUtc /\ p.last <= tick /\ p.awry = FALSE /\ p.last \in Int
      BY <1>1, <3>2 DEF OnSchedule, Running
    <3>4. w - p.last >= DayTicks
      <4>1. DayTicks \in Nat \ {0}
        BY NightlyAssumption
      <4>2. p.last < w
        BY <3>1, <3>3, <4>1
      <4> QED
        BY <3>3, <4>1, <4>2, HoursApart
    <3> QED
      BY <2>2, <3>3, <3>4 DEF OnSchedule
  <2>5. Honest(z)
    BY <1>3, <2>2 DEF Honest
  <2> QED
    BY <2>1, <2>2, <2>3, <2>4, <2>5 DEF GoodNight
<1>9. CASE ~(p.job < Len(JOB_NAMES)) /\ ~p.loops
  <2> PICK z : z = [q EXCEPT !.pc = "exit"]
    OBVIOUS
  <2>1. NextJob(p, ok, bad) = z
    BY <1>5, <1>9
  <2>2. /\ z \in Running /\ z.pc = "exit" /\ z.allOk = a /\ z.sawBad = b /\ z.awry = p.awry
    BY <1>6, Stepped DEF NightPcs
  <2>3. AtItsJob(z) /\ OnSchedule(z, tick)
    BY <1>1, <2>2 DEF AtItsJob, OnSchedule
  <2>4. Honest(z)
    BY <1>3, <2>2 DEF Honest
  <2> QED
    BY <2>1, <2>2, <2>3, <2>4 DEF GoodNight
<1> QED
  BY <1>7, <1>8, <1>9

\* The process s goes on as p; the others stay.
GoesOn(s, p) ==
  /\ scheduler' = [x \in Scheduler |-> scheduler'[x]] /\ scheduler'[s] = p
  /\ \A x \in Scheduler : x # s => scheduler'[x] = scheduler[x]

LEMMA GoesOnFacts ==
  ASSUME NightInv, NEW s \in Scheduler, NEW p, SchedulerIs(s, p)
  PROVE  GoesOn(s, p)
<1>1. scheduler = [x \in Scheduler |-> scheduler[x]] /\ scheduler' = [scheduler EXCEPT ![s] = p]
  BY DEF NightInv, SchedulerIs
<1> QED
  BY <1>1 DEF GoesOn

LEMMA Running1 ==
  ASSUME NightInv, NEW s \in Scheduler, scheduler[s].pc # "off"
  PROVE  GoodNight(scheduler[s], tick) /\ scheduler[s] \in Running
BY OffFacts DEF NightInv, GoodNight

\* Whoever is at work on a job of the registry holds its lock, and nobody else's.
LEMMA LocksMove ==
  ASSUME NightInv, NEW s \in Scheduler, NEW p, GoesOn(s, p), tick' = tick, GoodNight(p, tick),
         \/ p.pc = "work" /\ p.job = scheduler[s].job /\ scheduler[s].pc = "lock" /\ Granted(JobOf(s))
              /\ jobLock' = [jobLock EXCEPT ![JobOf(s)] = s]
         \/ p.pc # "work" /\ scheduler[s].pc # "work" /\ jobLock' = jobLock
         \/ p.pc = "work" /\ scheduler[s].pc = "work" /\ p.job = scheduler[s].job /\ jobLock' = jobLock
         \/ p.pc # "work" /\ scheduler[s].pc = "work" /\ jobLock' = [jobLock EXCEPT ![JobOf(s)] = NoProcess]
         \/ p.pc # "work" /\ jobLock' = [j \in Job |-> IF jobLock[j] = s THEN NoProcess ELSE jobLock[j]]
  PROVE  NightInv'
<1>1. /\ tick \in Nat /\ jobLock \in [Job -> Scheduler \cup {NoProcess}] /\ NoProcess \notin Scheduler
      /\ \A x \in Scheduler : scheduler[x].pc = "work" => jobLock[JobOf(x)] = x
      /\ \A j \in Job, x \in Scheduler : jobLock[j] = x => scheduler[x].pc = "work" /\ JobOf(x) = j
      /\ \A x \in Scheduler : scheduler[x] = Off \/ GoodNight(scheduler[x], tick)
  BY NightlyAssumption DEF NightInv, JobOnceAtATime
<1>2. \A x \in Scheduler : scheduler[x].pc \in {"lock", "work"} => JobOf(x) \in Job
  BY <1>1, OffFacts, Registry DEF GoodNight, AtItsJob, JobOf
<1>3. /\ \A x \in Scheduler : x # s => scheduler'[x].pc = scheduler[x].pc /\ JOB_NAMES[scheduler'[x].job] = JobOf(x)
      /\ scheduler'[s].pc = p.pc /\ (p.job = scheduler[s].job => JOB_NAMES[scheduler'[s].job] = JobOf(s))
  BY DEF GoesOn, JobOf
<1>4. /\ jobLock' \in [Job -> Scheduler \cup {NoProcess}]
      /\ \A x \in Scheduler : scheduler'[x].pc = "work" => jobLock'[JOB_NAMES[scheduler'[x].job]] = x
      /\ \A j \in Job, x \in Scheduler :
           jobLock'[j] = x => scheduler'[x].pc = "work" /\ JOB_NAMES[scheduler'[x].job] = j
  <2>1. CASE p.pc = "work" /\ p.job = scheduler[s].job /\ scheduler[s].pc = "lock" /\ Granted(JobOf(s))
               /\ jobLock' = [jobLock EXCEPT ![JobOf(s)] = s]
    BY <1>1, <1>2, <1>3, <2>1 DEF Granted
  <2>2. CASE p.pc # "work" /\ scheduler[s].pc # "work" /\ jobLock' = jobLock
    BY <1>1, <1>2, <1>3, <2>2
  <2>3. CASE p.pc = "work" /\ scheduler[s].pc = "work" /\ p.job = scheduler[s].job /\ jobLock' = jobLock
    BY <1>1, <1>2, <1>3, <2>3
  <2>4. CASE p.pc # "work" /\ scheduler[s].pc = "work" /\ jobLock' = [jobLock EXCEPT ![JobOf(s)] = NoProcess]
    BY <1>1, <1>2, <1>3, <2>4
  <2>5. CASE p.pc # "work" /\ jobLock' = [j \in Job |-> IF jobLock[j] = s THEN NoProcess ELSE jobLock[j]]
    BY <1>1, <1>2, <1>3, <2>5
  <2> QED
    BY <2>1, <2>2, <2>3, <2>4, <2>5
<1>5. JobOnceAtATime'
  BY <1>4 DEF JobOnceAtATime, JobOf
<1>6. \A x \in Scheduler : scheduler'[x] = Off \/ GoodNight(scheduler'[x], tick')
  BY <1>1 DEF GoesOn
<1> QED
  BY <1>1, <1>4, <1>5, <1>6 DEF NightInv, GoesOn

LEMMA LoopKeeps ==
  ASSUME NightInv, NEW s \in Scheduler, loop(s) \/ RunOnce(s)
  PROVE  NightInv'
<1>1. tick \in Nat /\ scheduler[s].pc = "off" /\ jobLock' = jobLock /\ tick' = tick
  BY DEF loop, RunOnce, NightInv
<1>2. ASSUME NEW p, SchedulerIs(s, p), GoodNight(p, tick), p.pc # "work" PROVE NightInv'
  BY <1>1, <1>2, GoesOnFacts, LocksMove
<1>3. CASE loop(s)
  <2> PICK l \in Nat : l = msUntilNextRun(tick)
    BY <1>1, SleepsUntilTheHour
  <2> PICK q : q = [pc |-> "asleep", loops |-> TRUE, left |-> 0, stopping |-> FALSE, job |-> 1,
                    allOk |-> TRUE, sawBad |-> FALSE, last |-> 0 - DayTicks, awry |-> FALSE]
    OBVIOUS
  <2> PICK z : z = [q EXCEPT !.pc = "asleep", !.left = l]
    OBVIOUS
  <2>1. SchedulerIs(s, z)
    <3>1. SchedulerIs(s, GoToSleep(q, tick))
      BY <1>3, Zenon DEF loop
    <3>2. GoToSleep(q, tick) = z
      BY Zenon DEF GoToSleep
    <3> QED
      BY <3>1, <3>2, Zenon
  <2>2. /\ z \in Running /\ z.pc = "asleep" /\ z.left = l
        /\ z.allOk = TRUE /\ z.sawBad = FALSE /\ z.last = 0 - DayTicks /\ z.awry = FALSE
    <3>1. /\ q \in Running /\ q.allOk = TRUE /\ q.sawBad = FALSE /\ q.last = 0 - DayTicks /\ q.awry = FALSE
      BY NightlyAssumption DEF Running, NightPcs
    <3> QED
      BY <3>1 DEF Running, NightPcs
  <2>3. Honest(z) /\ AtItsJob(z)
    BY <2>2 DEF Honest, AtItsJob
  <2>4. OnSchedule(z, tick)
    <3>1. l \in 1 .. DayTicks
      BY <1>1, SleepsUntilTheHour
    <3> PICK w \in Int : w = tick + l /\ w % DayTicks = HourUtc
      BY <1>1, SleepsUntilTheHour
    <3>3. DayTicks \in Nat
      BY NightlyAssumption
    <3>4. w - z.last >= DayTicks
      BY <1>1, <2>2, <3>1, <3>3
    <3> QED
      BY <2>2, <3>4 DEF OnSchedule
  <2> QED
    BY <1>2, <2>1, <2>2, <2>3, <2>4 DEF GoodNight
<1>4. CASE RunOnce(s)
  <2> PICK z : z = [pc |-> "lock", loops |-> FALSE, left |-> 0, stopping |-> FALSE, job |-> 1,
                    allOk |-> TRUE, sawBad |-> FALSE, last |-> tick, awry |-> FALSE]
    OBVIOUS
  <2>1. SchedulerIs(s, z)
    BY <1>4 DEF RunOnce
  <2>2. z \in Running /\ AtItsJob(z)
    BY <1>1, Registry DEF Running, NightPcs, AtItsJob
  <2>3. Honest(z)
    BY DEF Honest
  <2>4. OnSchedule(z, tick)
    BY DEF OnSchedule
  <2> QED
    BY <1>2, <2>1, <2>2, <2>3, <2>4 DEF GoodNight
<1> QED
  BY <1>3, <1>4

\* Six fields of a process change as it wakes up, the other three do not.
Awake(p, time, b) ==
  [p EXCEPT !.pc = "lock", !.job = 1, !.allOk = TRUE, !.sawBad = FALSE, !.last = time, !.awry = b]

LEMMA Woken ==
  ASSUME NEW p \in Running, NEW time \in Int, NEW b \in BOOLEAN
  PROVE  LET z == Awake(p, time, b) IN
         /\ z \in Running /\ z.pc = "lock" /\ z.job = 1 /\ z.allOk = TRUE /\ z.sawBad = FALSE
         /\ z.last = time /\ z.awry = b
<1>1. PICK f \in BOOLEAN, g \in BOOLEAN : f = TRUE /\ g = FALSE
  OBVIOUS
<1>2. PICK z : z = [p EXCEPT !.pc = "lock", !.job = 1, !.allOk = f, !.sawBad = g, !.last = time, !.awry = b]
  OBVIOUS
<1>3. /\ p = [pc |-> p.pc, loops |-> p.loops, left |-> p.left, stopping |-> p.stopping, job |-> p.job,
             allOk |-> p.allOk, sawBad |-> p.sawBad, last |-> p.last, awry |-> p.awry]
      /\ p.loops \in BOOLEAN /\ p.left \in Nat /\ p.stopping \in BOOLEAN
  BY DEF Running
<1>4. PICK loops \in BOOLEAN, left \in Nat, stopping \in BOOLEAN :
        z = [pc |-> "lock", loops |-> loops, left |-> left, stopping |-> stopping, job |-> 1,
             allOk |-> f, sawBad |-> g, last |-> time, awry |-> b]
  BY <1>2, <1>3
<1>5. /\ z \in Running /\ z.pc = "lock" /\ z.job = 1 /\ z.allOk = f /\ z.sawBad = g
      /\ z.last = time /\ z.awry = b
  BY <1>4 DEF Running, NightPcs
<1>6. z = Awake(p, time, b)
  BY <1>1, <1>2, Zenon DEF Awake
<1> QED
  BY <1>1, <1>5, <1>6, Zenon

LEMMA WakeKeeps ==
  ASSUME NightInv, NEW s \in Scheduler, WakeUp(s)
  PROVE  NightInv'
<1> PICK p : p = scheduler[s]
  OBVIOUS
<1>1. /\ p.pc = "asleep" /\ p.left = 0 /\ jobLock' = jobLock /\ tick' = tick /\ tick \in Nat
      /\ SchedulerIs(s, [p EXCEPT !.pc = "lock", !.job = 1, !.allOk = TRUE, !.sawBad = FALSE,
                              !.last = tick, !.awry = p.awry \/ AwryNight(p, tick)])
  BY DEF WakeUp, NightInv
<1>2. GoodNight(p, tick) /\ p \in Running
  BY <1>1, Running1
<1>3. tick % DayTicks = HourUtc /\ tick - p.last >= DayTicks /\ p.awry = FALSE
  <2>1. p.awry = FALSE
    BY <1>2 DEF GoodNight, OnSchedule
  <2>2. PICK w \in Int : w = tick + p.left /\ w % DayTicks = HourUtc /\ w - p.last >= DayTicks
    BY <1>1, <1>2 DEF GoodNight, OnSchedule
  <2>3. w = tick
    BY <1>1, <2>2
  <2> QED
    BY <2>1, <2>2, <2>3
<1>4. p.last \in Int /\ DayTicks \in Int
  BY <1>2, NightlyAssumption DEF Running
<1>5. ~AwryNight(p, tick)
  BY <1>1, <1>3, <1>4 DEF AwryNight
<1> PICK b \in BOOLEAN : b = (p.awry \/ AwryNight(p, tick))
  BY <1>3, Zenon
<1> PICK z : z = [p EXCEPT !.pc = "lock", !.job = 1, !.allOk = TRUE, !.sawBad = FALSE, !.last = tick, !.awry = b]
  OBVIOUS
<1>6. b = FALSE
  BY <1>3, <1>5
<1>7. SchedulerIs(s, z)
  BY <1>1, Zenon
<1>8. /\ z \in Running /\ z.pc = "lock" /\ z.job = 1 /\ z.allOk = TRUE /\ z.sawBad = FALSE
      /\ z.last = tick /\ z.awry = FALSE
  <2>1. z = Awake(p, tick, b)
    BY Zenon DEF Awake
  <2>2. tick \in Int
    BY <1>1
  <2>3. /\ Awake(p, tick, b) \in Running /\ Awake(p, tick, b).pc = "lock" /\ Awake(p, tick, b).job = 1
        /\ Awake(p, tick, b).allOk = TRUE /\ Awake(p, tick, b).sawBad = FALSE
        /\ Awake(p, tick, b).last = tick /\ Awake(p, tick, b).awry = b
    BY <1>2, <2>2, Woken
  <2> QED
    BY <1>6, <2>1, <2>3
<1>9. AtItsJob(z) /\ OnSchedule(z, tick)
  BY <1>1, <1>3, <1>8, Registry DEF AtItsJob, OnSchedule
<1>10. Honest(z)
  BY <1>8 DEF Honest
<1> QED
  BY <1>1, <1>7, <1>8, <1>9, <1>10, GoesOnFacts, LocksMove DEF GoodNight

\* A process whose pc changes, and nothing else of it but that it was told to stop.
LEMMA PcGoes ==
  ASSUME NEW p, GoodNight(p, tick), NEW c \in NightPcs, c # "asleep",
         c \in {"lock", "work"} => p.pc \in {"lock", "work"}
  PROVE  LET z == [p EXCEPT !.pc = c] IN GoodNight(z, tick) /\ z.pc = c /\ z.job = p.job
<1> PICK z : z = [p EXCEPT !.pc = c]
  OBVIOUS
<1>1. /\ z \in Running /\ z.pc = c /\ z.loops = p.loops /\ z.job = p.job
      /\ z.allOk = p.allOk /\ z.sawBad = p.sawBad /\ z.last = p.last /\ z.awry = p.awry
  BY Stepped DEF GoodNight
<1>2. AtItsJob(z) /\ OnSchedule(z, tick)
  BY <1>1 DEF GoodNight, AtItsJob, OnSchedule
<1>3. Honest(z)
  BY <1>1 DEF GoodNight, Honest
<1> QED
  BY <1>1, <1>2, <1>3 DEF GoodNight

LEMMA StopKeeps ==
  ASSUME NightInv, NEW s \in Scheduler, LoopStops(s) \/ Sigterm(s) \/ Killed(s)
  PROVE  NightInv'
<1> PICK p : p = scheduler[s]
  OBVIOUS
<1>1. tick \in Nat /\ tick' = tick /\ p.pc \in {"asleep", "lock", "work"} /\ GoodNight(p, tick) /\ p \in Running
  BY Running1 DEF LoopStops, Sigterm, Killed, NightInv
<1>2. CASE LoopStops(s)
  <2> PICK z : z = [p EXCEPT !.pc = "exit"]
    OBVIOUS
  <2>1. SchedulerIs(s, z) /\ jobLock' = jobLock /\ p.pc # "work"
    BY <1>2 DEF LoopStops
  <2>2. GoodNight(z, tick) /\ z.pc = "exit"
    BY <1>1, PcGoes DEF NightPcs
  <2> QED
    BY <1>1, <2>1, <2>2, GoesOnFacts, LocksMove
<1>3. CASE Killed(s)
  <2> PICK z : z = [p EXCEPT !.pc = "killed"]
    OBVIOUS
  <2>1. SchedulerIs(s, z) /\ jobLock' = [j \in Job |-> IF jobLock[j] = s THEN NoProcess ELSE jobLock[j]]
    BY <1>3 DEF Killed
  <2>2. GoodNight(z, tick) /\ z.pc = "killed"
    BY <1>1, PcGoes DEF NightPcs
  <2> QED
    BY <1>1, <2>1, <2>2, GoesOnFacts, LocksMove
<1>4. CASE Sigterm(s)
  <2> PICK z : z = [p EXCEPT !.stopping = TRUE]
    OBVIOUS
  <2>1. SchedulerIs(s, z) /\ jobLock' = jobLock
    BY <1>4 DEF Sigterm
  <2>2. /\ z \in Running /\ z.pc = p.pc /\ z.left = p.left /\ z.loops = p.loops /\ z.job = p.job
        /\ z.allOk = p.allOk /\ z.sawBad = p.sawBad /\ z.last = p.last /\ z.awry = p.awry
    BY <1>1 DEF Running
  <2>3. AtItsJob(z) /\ OnSchedule(z, tick)
    BY <1>1, <2>2 DEF GoodNight, AtItsJob, OnSchedule
  <2>4. Honest(z)
    BY <1>1, <2>2 DEF GoodNight, Honest
  <2>5. GoodNight(z, tick)
    BY <2>2, <2>3, <2>4 DEF GoodNight
  <2> QED
    BY <1>1, <2>1, <2>2, <2>5, GoesOnFacts, LocksMove
<1> QED
  BY <1>2, <1>3, <1>4

LEMMA IsOrNot ==
  ASSUME NEW a, NEW b
  PROVE  (a = b) \in BOOLEAN /\ (~(a = b)) \in BOOLEAN
OBVIOUS

LEMMA WorkKeeps ==
  ASSUME NightInv, NEW s \in Scheduler, withJobLock(s) \/ runNamedJob(s) \/ JobFails(s)
  PROVE  NightInv'
<1> PICK p : p = scheduler[s]
  OBVIOUS
<1>1. tick \in Nat /\ tick' = tick /\ p.pc \in {"lock", "work"} /\ GoodNight(p, tick)
  BY Running1 DEF withJobLock, runNamedJob, JobFails, NightInv
<1>2. CASE withJobLock(s) /\ Granted(JobOf(s))
  <2> PICK z : z = [p EXCEPT !.pc = "work"]
    OBVIOUS
  <2>1. SchedulerIs(s, z) /\ jobLock' = [jobLock EXCEPT ![JobOf(s)] = s] /\ p.pc = "lock"
    BY <1>2 DEF withJobLock
  <2>2. GoodNight(z, tick) /\ z.pc = "work" /\ z.job = p.job
    <3>1. "work" \in NightPcs /\ "work" # "asleep"
      BY DEF NightPcs
    <3>2. LET y == [p EXCEPT !.pc = "work"] IN GoodNight(y, tick) /\ y.pc = "work" /\ y.job = p.job
      BY <1>1, <3>1, PcGoes
    <3> QED
      BY <3>2, Zenon
  <2> QED
    BY <1>1, <1>2, <2>1, <2>2, GoesOnFacts, LocksMove
<1>3. ASSUME NEW ok \in BOOLEAN, NEW bad \in BOOLEAN, bad = ~ok, SchedulerIs(s, NextJob(p, ok, bad)),
             \/ p.pc = "lock" /\ jobLock' = jobLock
             \/ p.pc = "work" /\ jobLock' = [jobLock EXCEPT ![JobOf(s)] = NoProcess]
             \/ jobLock' = [j \in Job |-> IF jobLock[j] = s THEN NoProcess ELSE jobLock[j]]
      PROVE  NightInv'
  <2> PICK z : z = NextJob(p, ok, bad)
    OBVIOUS
  <2>1. GoodNight(z, tick) /\ z.pc \in {"lock", "asleep", "exit"}
    BY <1>1, <1>3, NextJobIsGood
  <2>2. GoesOn(s, z)
    BY <1>3, GoesOnFacts
  <2> QED
    BY <1>1, <1>3, <2>1, <2>2, LocksMove
<1>4. CASE withJobLock(s) /\ ~Granted(JobOf(s))
  <2>1. SchedulerIs(s, NextJob(p, TRUE, FALSE)) /\ p.pc = "lock" /\ jobLock' = jobLock
    BY <1>4, Zenon DEF withJobLock
  <2>2. \E ok \in BOOLEAN, bad \in BOOLEAN : bad = ~ok /\ SchedulerIs(s, NextJob(p, ok, bad))
    BY <2>1, Zenon
  <2> QED
    BY <1>3, <2>1, <2>2
<1>5. CASE runNamedJob(s)
  <2> DEFINE won == HowItWent(JobOf(s)) = "ok"
  <2>1. SchedulerIs(s, NextJob(p, won, ~won)) /\ p.pc = "work" /\ jobLock' = [jobLock EXCEPT ![JobOf(s)] = NoProcess]
    BY <1>5, Zenon DEF runNamedJob
  <2> HIDE DEF won
  <2>2. \E ok \in BOOLEAN, bad \in BOOLEAN : bad = ~ok /\ SchedulerIs(s, NextJob(p, ok, bad))
    <3>1. won \in BOOLEAN /\ (~won) \in BOOLEAN
      BY IsOrNot, Zenon DEF won
    <3> QED
      BY <2>1, <3>1, Zenon
  <2> QED
    BY <1>3, <2>1, <2>2
<1>6. CASE JobFails(s)
  <2>1. /\ SchedulerIs(s, NextJob(p, FALSE, TRUE))
        /\ jobLock' = [j \in Job |-> IF jobLock[j] = s THEN NoProcess ELSE jobLock[j]]
    BY <1>6, Zenon DEF JobFails
  <2>2. \E ok \in BOOLEAN, bad \in BOOLEAN : bad = ~ok /\ SchedulerIs(s, NextJob(p, ok, bad))
    BY <2>1, Zenon
  <2> QED
    BY <1>3, <2>1, <2>2
<1> QED
  BY <1>2, <1>4, <1>5, <1>6

LEMMA TimeKeeps ==
  ASSUME NightInv, TickPasses
  PROVE  NightInv'
<1>1. /\ tick \in Nat /\ tick' = tick + 1 /\ jobLock' = jobLock
      /\ \A s \in Scheduler : scheduler[s].pc = "asleep" => scheduler[s].left > 0
      /\ scheduler' = [s \in Scheduler |->
           IF scheduler[s].pc = "asleep" THEN [scheduler[s] EXCEPT !.left = @ - 1] ELSE scheduler[s]]
  BY DEF NightInv, TickPasses
<1>2. ASSUME NEW s \in Scheduler
      PROVE  /\ scheduler'[s] = Off \/ GoodNight(scheduler'[s], tick + 1)
             /\ scheduler'[s].pc = scheduler[s].pc /\ scheduler'[s].job = scheduler[s].job
  <2> PICK p : p = scheduler[s]
    OBVIOUS
  <2>1. CASE p.pc = "asleep"
    <3> PICK z : z = [p EXCEPT !.left = p.left - 1]
      OBVIOUS
    <3>1. GoodNight(p, tick) /\ p \in Running /\ p.left > 0 /\ p.left \in Nat /\ p.last \in Int
      BY <1>1, <2>1, Running1 DEF Running
    <3>2. scheduler'[s] = z
      BY <1>1, <2>1
    <3>3. /\ z \in Running /\ z.pc = p.pc /\ z.left = p.left - 1 /\ z.loops = p.loops /\ z.job = p.job
          /\ z.allOk = p.allOk /\ z.sawBad = p.sawBad /\ z.last = p.last /\ z.awry = p.awry
      BY <3>1 DEF Running
    <3>4. AtItsJob(z)
      BY <3>1, <3>3 DEF GoodNight, AtItsJob
    <3>5. Honest(z)
      BY <3>1, <3>3 DEF GoodNight, Honest
    <3>6. OnSchedule(z, tick + 1)
      <4>1. PICK w \in Int : w = tick + p.left /\ w % DayTicks = HourUtc /\ w - p.last >= DayTicks
        BY <2>1, <3>1 DEF GoodNight, OnSchedule
      <4>2. w = tick + 1 + z.left /\ w - z.last >= DayTicks
        BY <1>1, <3>1, <3>3, <4>1
      <4>3. z.awry = FALSE
        BY <3>1, <3>3 DEF GoodNight, OnSchedule
      <4> QED
        BY <2>1, <3>3, <4>1, <4>2, <4>3 DEF OnSchedule
    <3> QED
      BY <3>2, <3>3, <3>4, <3>5, <3>6 DEF GoodNight
  <2>2. CASE p.pc # "asleep"
    <3>1. scheduler'[s] = p
      BY <1>1, <2>2
    <3>2. CASE p = Off
      BY <3>1, <3>2
    <3>3. CASE p # Off
      <4>1. GoodNight(p, tick) /\ p.last \in Int
        BY <3>3 DEF NightInv, GoodNight, Running
      <4>2. OnSchedule(p, tick + 1)
        BY <1>1, <2>2, <4>1 DEF GoodNight, OnSchedule
      <4> QED
        BY <3>1, <4>1, <4>2 DEF GoodNight
    <3> QED
      BY <3>2, <3>3
  <2> QED
    BY <2>1, <2>2
<1>3. JobOnceAtATime'
  BY <1>1, <1>2 DEF NightInv, JobOnceAtATime, JobOf
<1>4. scheduler' = [s \in Scheduler |-> scheduler'[s]]
  BY <1>1
<1>5. \A s \in Scheduler : scheduler'[s] = Off \/ GoodNight(scheduler'[s], tick')
  BY <1>1, <1>2
<1> QED
  BY <1>1, <1>3, <1>4, <1>5 DEF NightInv

LEMMA NightStays ==
  ASSUME NightInv, scheduler' = scheduler, jobLock' = jobLock, tick' = tick
  PROVE  NightInv'
BY DEF NightInv, JobOnceAtATime, JobOf

LEMMA NightBegins == NightlyInit => NightInv
<1> SUFFICES ASSUME NightlyInit PROVE NightInv
  OBVIOUS
<1>1. /\ tick \in Nat /\ scheduler = [s \in Scheduler |-> scheduler[s]]
      /\ \A s \in Scheduler : scheduler[s] = Off
      /\ jobLock \in [Job -> Scheduler \cup {NoProcess}]
  BY DEF NightlyInit
<1>2. JobOnceAtATime
  BY <1>1, OffFacts, NightlyAssumption DEF NightlyInit, JobOnceAtATime
<1> QED
  BY <1>1, <1>2 DEF NightInv

LEMMA NextNight ==
  ASSUME NightInv, [NightlyNext]_nightlyVars
  PROVE  NightInv'
<1>1. CASE NightNext
  <2>1. ASSUME NEW s \in Scheduler, loop(s) \/ RunOnce(s) \/ SchedulerWorks(s) \/ Sigterm(s) \/ Killed(s)
        PROVE  NightInv'
    BY <2>1, LoopKeeps, WakeKeeps, StopKeeps, WorkKeeps DEF SchedulerWorks
  <2>2. CASE HealthChanges
    BY <2>2, NightStays DEF HealthChanges
  <2> QED
    BY <1>1, <2>1, <2>2, TimeKeeps DEF NightNext
<1>2. CASE UNCHANGED nightVars
  BY <1>2, NightStays DEF nightVars
<1> QED
  BY <1>1, <1>2 DEF NightlyNext, nightlyVars

\* scheduler.mjs: the inductive invariant of the nights holds in every behaviour.
THEOREM NightInvariant == NightlySpec => []NightInv
BY NightBegins, NextNight, PTL DEF NightlySpec

LEMMA NightsHold == NightInv => JobOnceAtATime /\ ExitIsHonest /\ NightsAreHours
<1> SUFFICES ASSUME NightInv PROVE ExitIsHonest /\ NightsAreHours
  BY DEF NightInv
<1>1. \A s \in Scheduler : scheduler[s].pc # "off" => Honest(scheduler[s]) /\ OnSchedule(scheduler[s], tick)
  BY Running1 DEF GoodNight
<1>2. ExitIsHonest
  BY <1>1, Zenon DEF ExitIsHonest, Honest
<1>3. NightsAreHours
  BY <1>1 DEF NightsAreHours, OnSchedule
<1> QED
  BY <1>2, <1>3

\* scheduler.mjs: for any registry of jobs and any number of processes, a job runs in
\* one at a time and no lock outlives its holder; what `run all' answers is what
\* happened; and the loop works at the hour, once on a day.
THEOREM NightsAlwaysHold == NightlySpec => [](JobOnceAtATime /\ ExitIsHonest /\ NightsAreHours)
BY NightInvariant, NightsHold, PTL

-----------------------------------------------------------------------------
(* The ledger of the migrations. *)

\* An operator's run of migrate.mjs is a step, the files to do and the text read of the first.
RunPcs == {"off", "apply", "exec", "record"}
Runs ==
  \A o \in Operator : \E pc, todo, body : pc \in RunPcs /\ operator[o] = Run(pc, todo, body)

\* What is about to be executed is what the checksum is of, and what is about to be
\* recorded was executed, unless the file changed between the two readings.
ReadsOK(p) ==
  /\ p.pc = "exec" => p.body = content[Head(p.todo)] \/ Head(p.todo) \in slipped
  /\ p.pc = "record" =>
       /\ Head(p.todo) \in Executed
       /\ <<Head(p.todo), p.body>> \in schema \/ Head(p.todo) \in slipped

RowOK(m) == m[1] \in Executed /\ (m \in schema \/ m[1] \in slipped)

OnceOnly == \A m \in schema, n \in schema : m[1] = n[1] /\ m[1] \notin Repeatable => m = n
OneRow == \A m \in schema_migration, n \in schema_migration : n[1] = m[1] => n = m

LedgerInv ==
  /\ operator = [o \in Operator |-> operator[o]]
  /\ Runs /\ (\A o \in Operator : ReadsOK(operator[o])) /\ OnceOnly /\ OneRow
  /\ \A m \in schema_migration : RowOK(m)

LEMMA RunIs ==
  ASSUME NEW pc, NEW todo, NEW body
  PROVE  Run(pc, todo, body).pc = pc /\ Run(pc, todo, body).todo = todo /\ Run(pc, todo, body).body = body
BY DEF Run

LEMMA LedgerBegins == NightlyInit => LedgerInv
<1> SUFFICES ASSUME NightlyInit PROVE LedgerInv
  OBVIOUS
<1>1. /\ operator = [o \in Operator |-> operator[o]] /\ schema = {} /\ schema_migration = {}
      /\ \A o \in Operator : operator[o] = NoRun
  BY DEF NightlyInit
<1>2. Runs
  <2>1. "off" \in RunPcs
    BY DEF RunPcs
  <2> QED
    BY <1>1, <2>1, Zenon DEF Runs, NoRun
<1>3. NoRun.pc = "off"
  BY RunIs DEF NoRun
<1>4. \A o \in Operator : ReadsOK(operator[o])
  BY <1>1, <1>3 DEF ReadsOK
<1> QED
  BY <1>1, <1>2, <1>4 DEF LedgerInv, OnceOnly, OneRow

\* What was executed, and what slipped, stays so.
LEMMA RowStill ==
  ASSUME NEW m, RowOK(m), schema \subseteq schema', slipped \subseteq slipped'
  PROVE  RowOK(m)'
BY DEF RowOK, Executed

\* One run takes a step; what it reads is right for what it is about to do.
LEMMA RunGoes ==
  ASSUME LedgerInv, NEW o \in Operator, NEW pc \in RunPcs, NEW todo, NEW body,
         OperatorIs(o, Run(pc, todo, body)),
         schema \subseteq schema', slipped' = slipped, content' = content,
         pc = "exec" => body = content[Head(todo)] \/ Head(todo) \in slipped,
         pc = "record" => Head(todo) \in Executed' /\ (<<Head(todo), body>> \in schema' \/ Head(todo) \in slipped)
  PROVE  /\ (operator = [e \in Operator |-> operator[e]])' /\ Runs'
         /\ \A e \in Operator : ReadsOK(operator[e])'
<1>1. operator' = [operator EXCEPT ![o] = Run(pc, todo, body)] /\ operator = [e \in Operator |-> operator[e]]
  BY DEF OperatorIs, LedgerInv
<1>2. PICK p : p = Run(pc, todo, body)
  OBVIOUS
<1>3. p.pc = pc /\ p.todo = todo /\ p.body = body
  BY <1>2, RunIs
<1>4. /\ operator' = [e \in Operator |-> operator'[e]] /\ operator'[o] = p
      /\ \A e \in Operator : e # o => operator'[e] = operator[e]
  BY <1>1, <1>2
<1>5. Runs'
  <2> SUFFICES ASSUME NEW e \in Operator
               PROVE  \E c, t, b : c \in RunPcs /\ operator'[e] = Run(c, t, b)
    BY Zenon DEF Runs
  <2>1. CASE e = o
    <3>1. operator'[e] = Run(pc, todo, body)
      BY <1>2, <1>4, <2>1
    <3> QED
      BY <3>1, Zenon
  <2>2. CASE e # o
    <3>1. operator'[e] = operator[e]
      BY <1>4, <2>2
    <3> QED
      BY <3>1, ZenonT(40) DEF LedgerInv, Runs
  <2> QED
    BY <2>1, <2>2
<1>6. ASSUME NEW e \in Operator PROVE ReadsOK(operator[e])'
  <2>1. CASE e = o
    <3>1. operator'[e] = p
      BY <1>4, <2>1
    <3> QED
      BY <1>3, <3>1 DEF ReadsOK
  <2>2. CASE e # o
    <3>1. operator'[e] = operator[e] /\ ReadsOK(operator[e])
      BY <1>4, <2>2 DEF LedgerInv
    <3> QED
      BY <3>1 DEF ReadsOK, Executed
  <2> QED
    BY <2>1, <2>2
<1> QED
  BY <1>4, <1>5, <1>6

\* A run goes on, and nothing is executed or recorded.
LEMMA RunOnly ==
  ASSUME LedgerInv, NEW o \in Operator, NEW pc \in RunPcs, NEW todo, NEW body, pc # "record",
         OperatorIs(o, Run(pc, todo, body)),
         pc = "exec" => body = content[Head(todo)] \/ Head(todo) \in slipped,
         UNCHANGED <<content, schema, schema_migration, slipped>>
  PROVE  LedgerInv'
<1>1. /\ (operator = [e \in Operator |-> operator[e]])' /\ Runs'
      /\ \A e \in Operator : ReadsOK(operator[e])'
  BY RunGoes
<1>2. OnceOnly' /\ OneRow' /\ \A m \in schema_migration' : RowOK(m)'
  BY DEF LedgerInv, OnceOnly, OneRow, RowOK, Executed
<1> QED
  BY <1>1, <1>2 DEF LedgerInv

LEMMA EndKeeps ==
  ASSUME LedgerInv, NEW o \in Operator, RunEnds(o), UNCHANGED <<content, schema, schema_migration, slipped>>
  PROVE  LedgerInv'
<1>1. OperatorIs(o, Run("off", <<>>, 0)) /\ "off" \in RunPcs
  BY DEF RunEnds, NoRun, RunPcs
<1> QED
  BY <1>1, RunOnly

LEMMA ReadKeeps ==
  ASSUME LedgerInv, NEW o \in Operator, ReadBody(o)
  PROVE  LedgerInv'
<1> PICK f : f = Head(operator[o].todo)
  OBVIOUS
<1>1. UNCHANGED <<content, schema, schema_migration, slipped>>
  BY DEF ReadBody
<1>2. CASE content[f] = Absent
  <2>1. RunEnds(o)
    BY <1>2 DEF ReadBody
  <2> QED
    BY <1>1, <2>1, EndKeeps
<1>3. CASE content[f] # Absent
  <2>1. OperatorIs(o, Run("exec", operator[o].todo, content[f])) /\ "exec" \in RunPcs
    BY <1>3 DEF ReadBody, RunPcs
  <2> QED
    BY <1>1, <2>1, RunOnly
<1> QED
  BY <1>2, <1>3

LEMMA ExecKeeps ==
  ASSUME LedgerInv, NEW o \in Operator, ExecFile(o)
  PROVE  LedgerInv'
<1> PICK p : p = operator[o]
  OBVIOUS
<1> PICK f : f = Head(p.todo)
  OBVIOUS
<1>1. p.pc = "exec" /\ content' = content /\ schema_migration' = schema_migration /\ slipped' = slipped
  BY DEF ExecFile
<1>2. CASE content[f] = Absent \/ (f \in Executed /\ f \notin Repeatable)
  <2>1. RunEnds(o) /\ schema' = schema
    BY <1>2 DEF ExecFile
  <2> QED
    BY <1>1, <2>1, EndKeeps
<1>3. CASE ~(content[f] = Absent \/ (f \in Executed /\ f \notin Repeatable))
  <2>1. PICK v : v = content[f]
    OBVIOUS
  <2>2. schema' = schema \cup {<<f, v>>} /\ OperatorIs(o, Run("record", p.todo, p.body))
    BY <1>3, <2>1 DEF ExecFile
  <2>3. <<f, v>>[1] = f /\ f \in Executed'
    <3>1. PICK m : m = <<f, v>>
      OBVIOUS
    <3>2. m \in schema' /\ m[1] = f
      BY <2>2, <3>1
    <3> QED
      BY <3>1, <3>2, Zenon DEF Executed
  <2>4. <<f, p.body>> \in schema' \/ f \in slipped
    <3>1. ReadsOK(p)
      BY DEF LedgerInv
    <3>2. p.body = v \/ f \in slipped
      BY <1>1, <2>1, <3>1 DEF ReadsOK
    <3> QED
      BY <2>2, <3>2
  <2>5. /\ (operator = [e \in Operator |-> operator[e]])' /\ Runs'
        /\ \A e \in Operator : ReadsOK(operator[e])'
    <3>1. "record" \in RunPcs /\ schema \subseteq schema'
      BY <2>2 DEF RunPcs
    <3> QED
      BY <1>1, <2>2, <2>3, <2>4, <3>1, RunGoes
  <2>6. OnceOnly'
    <3>1. f \in Repeatable \/ \A n \in schema : n[1] # f
      BY <1>3 DEF Executed
    <3> QED
      BY <2>2, <2>3, <3>1 DEF LedgerInv, OnceOnly
  <2>7. OneRow' /\ \A m \in schema_migration' : RowOK(m)'
    BY <1>1, <2>2, RowStill DEF LedgerInv, OneRow
  <2> QED
    BY <2>5, <2>6, <2>7 DEF LedgerInv
<1> QED
  BY <1>2, <1>3

LEMMA RecordKeeps ==
  ASSUME LedgerInv, NEW o \in Operator, RecordMigration(o)
  PROVE  LedgerInv'
<1> PICK p : p = operator[o]
  OBVIOUS
<1> PICK f : f = Head(p.todo)
  OBVIOUS
<1>1. p.pc = "record" /\ content' = content /\ schema' = schema /\ slipped' = slipped
  BY DEF RecordMigration
<1>2. CASE f \in Recorded
  <2>1. RunEnds(o) /\ schema_migration' = schema_migration
    BY <1>2 DEF RecordMigration
  <2> QED
    BY <1>1, <2>1, EndKeeps
<1>3. CASE f \notin Recorded
  <2>1. /\ schema_migration' = schema_migration \cup {<<f, p.body>>}
        /\ OperatorIs(o, Run("apply", Tail(p.todo), 0))
    BY <1>3 DEF RecordMigration, Checksum
  <2>2. <<f, p.body>>[1] = f /\ RowOK(<<f, p.body>>)
    <3>1. ReadsOK(p)
      BY DEF LedgerInv
    <3> QED
      BY <1>1, <3>1 DEF ReadsOK, RowOK
  <2>3. /\ (operator = [e \in Operator |-> operator[e]])' /\ Runs'
        /\ \A e \in Operator : ReadsOK(operator[e])'
    <3>1. "apply" \in RunPcs
      BY DEF RunPcs
    <3> QED
      BY <1>1, <2>1, <3>1, RunGoes
  <2>4. OneRow'
    <3>1. \A n \in schema_migration : n[1] # f
      BY <1>3 DEF Recorded
    <3> QED
      BY <2>1, <2>2, <3>1 DEF LedgerInv, OneRow
  <2>5. OnceOnly' /\ \A m \in schema_migration' : RowOK(m)'
    BY <1>1, <2>1, <2>2, RowStill DEF LedgerInv, OnceOnly
  <2> QED
    BY <2>3, <2>4, <2>5 DEF LedgerInv
<1> QED
  BY <1>2, <1>3

LEMMA RunKeeps ==
  ASSUME LedgerInv, NEW o \in Operator, Migrate(o) \/ MigrationsDone(o) \/ MigrateDies(o)
  PROVE  LedgerInv'
<1>1. UNCHANGED <<content, schema, schema_migration, slipped>>
  BY DEF Migrate, MigrationsDone, MigrateDies
<1>2. RunEnds(o) \/ \E todo : OperatorIs(o, Run("apply", todo, 0))
  <2>1. CASE Migrate(o)
    BY <2>1, Zenon DEF Migrate
  <2>2. CASE MigrationsDone(o) \/ MigrateDies(o)
    BY <2>2 DEF MigrationsDone, MigrateDies
  <2> QED
    BY <2>1, <2>2
<1>3. CASE RunEnds(o)
  BY <1>1, <1>3, EndKeeps
<1>4. ASSUME NEW todo, OperatorIs(o, Run("apply", todo, 0))
      PROVE  LedgerInv'
  <2>1. "apply" \in RunPcs
    BY DEF RunPcs
  <2> QED
    BY <1>1, <1>4, <2>1, RunOnly
<1> QED
  BY <1>2, <1>3, <1>4

\* A file changes: whoever would now execute another text than she has the checksum of
\* makes it one that slipped.
LEMMA ChangeKeeps ==
  ASSUME LedgerInv, NEW f, FileChanges(f)
  PROVE  LedgerInv'
<1>1. /\ operator' = operator /\ schema' = schema /\ schema_migration' = schema_migration
      /\ slipped' = slipped \cup {Head(operator[o].todo) : o \in Outdated(content')}
  BY DEF FileChanges
<1>2. ASSUME NEW o \in Operator PROVE ReadsOK(operator[o])'
  <2>1. ReadsOK(operator[o])
    BY DEF LedgerInv
  <2>2. operator[o].pc = "exec" =>
          operator[o].body = content'[Head(operator[o].todo)] \/ Head(operator[o].todo) \in slipped'
    <3>1. SUFFICES ASSUME operator[o].pc = "exec", operator[o].body # content'[Head(operator[o].todo)]
                   PROVE  Head(operator[o].todo) \in slipped'
      OBVIOUS
    <3>2. o \in Outdated(content')
      BY <3>1 DEF Outdated
    <3> QED
      BY <1>1, <3>2
  <2> QED
    BY <1>1, <2>1, <2>2 DEF ReadsOK, Executed
<1>3. Runs' /\ OnceOnly' /\ OneRow'
  BY <1>1 DEF LedgerInv, Runs, OnceOnly, OneRow
<1>4. \A m \in schema_migration' : RowOK(m)'
  BY <1>1, RowStill DEF LedgerInv
<1> QED
  BY <1>1, <1>2, <1>3, <1>4 DEF LedgerInv

LEMMA LedgerStays ==
  ASSUME LedgerInv, UNCHANGED migrateVars
  PROVE  LedgerInv'
BY DEF LedgerInv, Runs, ReadsOK, RowOK, Executed, OnceOnly, OneRow, migrateVars

LEMMA NextLedger ==
  ASSUME LedgerInv, [NightlyNext]_nightlyVars
  PROVE  LedgerInv'
<1>1. CASE MigrateNext
  <2>1. ASSUME NEW o \in Operator,
               Migrate(o) \/ MigrationsDone(o) \/ ReadBody(o) \/ ExecFile(o) \/ RecordMigration(o) \/ MigrateDies(o)
        PROVE  LedgerInv'
    BY <2>1, ReadKeeps, ExecKeeps, RecordKeeps, RunKeeps
  <2>2. ASSUME NEW f, FileChanges(f)
        PROVE  LedgerInv'
    BY <2>2, ChangeKeeps
  <2> QED
    BY <1>1, <2>1, <2>2 DEF MigrateNext
<1>2. CASE UNCHANGED migrateVars
  BY <1>2, LedgerStays
<1> QED
  BY <1>1, <1>2 DEF NightlyNext, nightlyVars

LEMMA LedgerTrue == LedgerInv => LedgerIsTrue
<1> SUFFICES ASSUME LedgerInv, NEW m \in schema_migration
             PROVE  /\ m[1] \in Executed /\ (m \in schema \/ m[1] \in slipped)
                    /\ \A n \in schema_migration : n[1] = m[1] => n = m
                    /\ m[1] \notin Repeatable => \A n, k \in schema : n[1] = m[1] /\ k[1] = m[1] => n = k
  BY DEF LedgerIsTrue
<1>1. RowOK(m)
  BY DEF LedgerInv
<1> QED
  BY <1>1 DEF LedgerInv, RowOK, OnceOnly, OneRow

\* migrate.mjs: for any files, repeatable or not, and any number of operators that
\* nothing keeps apart, the ledger says of a file what was executed, once, unless the
\* file was edited between the two times it was read.
THEOREM LedgerAlwaysTrue == NightlySpec => []LedgerIsTrue
BY LedgerTrue, LedgerBegins, NextLedger, PTL DEF NightlySpec

-----------------------------------------------------------------------------
(* The server. *)

\* pool.ts: who waits, waits in one place of the line.
LEMMA PoolTyped == PoolInv => PoolTypeOK
<1> SUFFICES ASSUME PoolInv PROVE PoolTypeOK
  OBVIOUS
<1>1. queue \in Seq(Client) /\ DOMAIN queue = 1 .. Len(queue) /\ Len(queue) \in Nat /\ InLineOnce
  BY LenProperties DEF PoolInv, PoolTypes
<1>2. Cardinality(Waiting) = Len(queue)
  <2>1. queue \in [1 .. Len(queue) -> Waiting]
    BY <1>1, LenProperties DEF Waiting
  <2>2. queue \in Bijection(1 .. Len(queue), Waiting)
    <3>1. \A a, b \in 1 .. Len(queue) : queue[a] = queue[b] => a = b
      BY <1>1 DEF InLineOnce
    <3>2. \A t \in Waiting : \E a \in 1 .. Len(queue) : queue[a] = t
      BY <1>1 DEF Waiting
    <3> QED
      BY <2>1, <3>1, <3>2, Fun_IsBij
  <2>3. ExistsBijection(1 .. Len(queue), Waiting)
    BY <2>2, Fun_ExistsBij
  <2>4. IsFiniteSet(1 .. Len(queue)) /\ Cardinality(1 .. Len(queue)) = Len(queue)
    <3>1. 1 \in Int /\ Len(queue) \in Int /\ Len(queue) \in Nat
      BY <1>1
    <3>2. IsFiniteSet(1 .. Len(queue)) /\ Cardinality(1 .. Len(queue)) = (IF 1 > Len(queue) THEN 0 ELSE Len(queue) - 1 + 1)
      BY <3>1, FS_Interval, Zenon
    <3> QED
      BY <3>1, <3>2
  <2> QED
    BY <2>3, <2>4, FS_Bijection
<1> QED
  BY <1>1, <1>2 DEF PoolInv, PoolTypes, PoolTypeOK, AboutToConnect, Scripts, StepKind

LEMMA NightlyTyped == NightInv /\ LedgerInv => NightlyTypeOK
<1> SUFFICES ASSUME NightInv, LedgerInv PROVE NightlyTypeOK
  OBVIOUS
<1>1. ASSUME NEW s \in Scheduler
      PROVE  scheduler[s].pc \in {"off", "asleep", "lock", "work", "exit", "killed"}
  BY Running1 DEF Running, NightPcs
<1>2. ASSUME NEW o \in Operator PROVE operator[o].pc \in RunPcs
  <2>1. PICK pc, todo, body : pc \in RunPcs /\ operator[o] = Run(pc, todo, body)
    BY Zenon DEF LedgerInv, Runs
  <2> QED
    BY <2>1, RunIs
<1>3. jobLock \in [Job -> Scheduler \cup {NoProcess}]
  BY DEF NightInv
<1> QED
  BY <1>1, <1>2, <1>3 DEF NightlyTypeOK, RunPcs

ServerInv == TableInv /\ PoolInv /\ NightInv /\ LedgerInv

LEMMA ServerBegins == ServerInit => ServerInv
BY TableInvInit, PoolBegins, NightBegins, LedgerBegins DEF ServerInit, ServerInv

\* A component that is not the one a behaviour is about rests.
LEMMA ServerParts ==
  ASSUME [ServerNext]_ServerVars
  PROVE  /\ [Next]_vars /\ [PoolNext]_poolVars
         /\ [NightNext]_nightVars /\ [MigrateNext]_migrateVars
         /\ UNCHANGED nightVars \/ UNCHANGED migrateVars
<1>1. CASE UNCHANGED ServerVars
  BY <1>1 DEF ServerVars, nightlyVars
<1>2. CASE ServerNext
  BY <1>2 DEF ServerNext
<1> QED
  BY <1>1, <1>2

LEMMA NextServer == ServerInv /\ [ServerNext]_ServerVars => ServerInv'
<1> SUFFICES ASSUME ServerInv, [ServerNext]_ServerVars PROVE ServerInv'
  OBVIOUS
<1>1. TableInv' /\ PoolInv'
  BY ServerParts, TypesKept, EndsKept, NextPool DEF ServerInv, TableInv, Ends
<1>2. [NightlyNext]_nightlyVars
  BY ServerParts DEF NightlyNext, nightlyVars
<1>3. NightInv' /\ LedgerInv'
  BY <1>2, NextNight, NextLedger DEF ServerInv
<1> QED
  BY <1>1, <1>3 DEF ServerInv

\* The inductive invariant of the server is that of its parts, which share no state.
THEOREM ServerInvariant == ServerSpec => []ServerInv
BY ServerBegins, NextServer, PTL DEF ServerSpec

\* The state of every part of the server keeps its types, for any seats, clients, jobs,
\* processes, operators and files.
THEOREM ServerTypesHold == ServerSpec => []ServerTypeOK
<1>1. ServerInv => ServerTypeOK
  BY PoolTyped, NightlyTyped DEF ServerInv, TableInv, ServerTypeOK
<1> QED
  BY <1>1, ServerInvariant, PTL

\* pool.ts, scheduler.mjs and migrate.mjs: what the parts of the server share is held by
\* whom it belongs to and told the truth about, for any number of them.
THEOREM WhatIsSharedAlwaysHolds == ServerSpec => []WhatIsSharedHolds
<1>1. LedgerInv => LedgerIsTrue
  BY LedgerTrue
<1>2. ServerInv => WhatIsSharedHolds
  BY <1>1, PoolInvHolds, NightsHold DEF ServerInv, WhatIsSharedHolds
<1> QED
  BY <1>2, ServerInvariant, PTL

=============================================================================
