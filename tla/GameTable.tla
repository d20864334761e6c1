----------------------------- MODULE GameTable -----------------------------
(***************************************************************************)
(* One networked game table: two authorized principals, a join token each, *)
(* a WebSocket each, moves relayed through the server.  The server is one  *)
(* event loop, so every action is one callback; between two of them clock, *)
(* clients and network move freely.  Clients are the app's own: they move  *)
(* only when told the table is active and when their board says it is      *)
(* their turn, but any socket may die and any frame may be garbled.        *)
(***************************************************************************)
EXTENDS Integers, Sequences, FiniteSets

CONSTANTS
  JoinTTL,    \* TABLE_TOKEN_TTL_SECONDS, of tokens and of the unjoined table
  Lifetime,   \* TABLE_MAX_LIFETIME_SECONDS
  RateCap,    \* RATE_CAPACITY
  MaxMoves,   \* bound: moves played at the table
  MaxTime     \* bound: the clock stops here

ASSUME TableAssumption ==
  /\ {JoinTTL, Lifetime, MaxMoves, MaxTime} \subseteq Nat
  /\ RateCap \in Nat \ {0}

Seat == {0, 1}
Other(s) == 1 - s

VARIABLES
  now,       \* since the table was opened
  status,    \* of the entry in `tables'; "gone" once it is deleted
  consumed,  \* tokenConsumed of each seat
  connected, \* connected of each seat
  turn,      \* turnSeat
  rate,      \* tokens left in each seat's bucket
  tokens,    \* join tokens handed out: signed, not stored, never withdrawn
  joining,   \* seats with a POST .../join awaiting its authorization query
  sock,      \* each seat's socket, as the server sees it
  up, down,  \* frames on the way to the server and to the client
  client,    \* each client: the status it shows and whose turn its board says
  played,    \* moves each client sent
  got        \* moves that reached each client

table == <<status, consumed, connected, turn, rate>>
net   == <<sock, up, down>>
vars  == <<now, table, tokens, joining, net, client, played, got>>

Status == {"none", "pending", "active", "gone"}

\* "failing": the token is redeemed, the handshake will not land and the raw
\* socket's close event is still to come.  "closing": readyState is not OPEN
\* any more, the close event is still to come.
Socket == {"none", "failing", "open", "closing", "shut"}

OfSeats(x) == [s \in Seat |-> x]

Init ==
  /\ now = 0
  /\ status = "none" /\ turn = 0
  /\ consumed = OfSeats(FALSE) /\ connected = OfSeats(FALSE)
  /\ rate = OfSeats(RateCap)
  /\ tokens = {} /\ joining = {}
  /\ sock = OfSeats("none") /\ up = OfSeats(<<>>) /\ down = OfSeats(<<>>)
  /\ client = OfSeats([shows |-> "waiting", turn |-> 0])
  /\ played = OfSeats(0) /\ got = OfSeats(0)

Exists == status \in {"pending", "active"}

-----------------------------------------------------------------------------
(* HTTP: open and join. *)

mintJoinToken(s) == [seat |-> s, exp |-> now + JoinTTL]

\* POST /v1/game-tables; either side may be the one that opens.
OpenTable(s) ==
  /\ status = "none"
  /\ status' = "pending"
  /\ tokens' = tokens \cup {mintJoinToken(s)}
  /\ UNCHANGED <<now, consumed, connected, turn, rate, joining, net,
                 client, played, got>>

\* POST .../join: the status is checked, then the edge is queried.
JoinCheck(s) ==
  /\ status = "pending" /\ s \notin joining
  /\ joining' = joining \cup {s}
  /\ UNCHANGED <<now, table, tokens, net, client, played, got>>

\* The answer: a token, for a table that may be gone by now, or a refusal
\* because the edge or sibling link no longer holds.
JoinMint(s) ==
  /\ s \in joining
  /\ joining' = joining \ {s}
  /\ tokens' \in {tokens, tokens \cup {mintJoinToken(s)}}
  /\ UNCHANGED <<now, table, net, client, played, got>>

-----------------------------------------------------------------------------
(* The upgrade: handleTableUpgrade() and the connection handler. *)

\* Mutant: a token may be presented again.
RedeemableAgain(s) ==
  /\ \E t \in tokens : t.seat = s /\ now < t.exp
  /\ Exists
  /\ ~(now > JoinTTL /\ status = "pending")

\* readJoinToken() and redeemJoin() let the token through.
Redeemable(s) ==
  /\ \E t \in tokens : t.seat = s /\ now < t.exp
  /\ Exists /\ ~consumed[s]
  /\ ~(now > JoinTTL /\ status = "pending")

\* What redeemJoin() commits, before the handshake is known to land.
Redeem(s) ==
  /\ Redeemable(s)
  /\ consumed' = [consumed EXCEPT ![s] = TRUE]
  /\ connected' = [connected EXCEPT ![s] = TRUE]
  /\ rate' = [rate EXCEPT ![s] = RateCap]
  /\ status' = IF connected[Other(s)] THEN "active" ELSE "pending"
  /\ UNCHANGED turn

\* safeSend() to seat s, on the given sockets and queues.
Sent(s, frame) ==
  IF sock[s] = "open" THEN [down EXCEPT ![s] = Append(@, frame)] ELSE down

\* The handshake lands in the same callback: the socket is stored, and the
\* connection handler welcomes this seat and, on an active table, both.
Land(s) ==
  /\ Redeem(s)
  /\ sock' = [sock EXCEPT ![s] = "open"]
  /\ down' = IF status' = "active"
             THEN [Sent(Other(s), "active") EXCEPT ![s] = <<"active", "active">>]
             ELSE [down EXCEPT ![s] = <<"waiting">>]
  /\ UNCHANGED <<now, tokens, joining, up, client, played, got>>

\* The raw socket is no longer writable: ws destroys it and never calls back.
Miss(s) ==
  /\ Redeem(s)
  /\ sock' = [sock EXCEPT ![s] = "failing"]
  /\ UNCHANGED <<now, tokens, joining, up, down, client, played, got>>

\* Either seat dropping ends the table, whose entry is deleted.
onSeatDisconnected(s) ==
  /\ status' = "gone"
  /\ connected' = [connected EXCEPT ![s] = FALSE]

\* An existing entry ends, the other seat told and closed.  Does nothing once the
\* entry is gone.
EndTable(s) ==
  /\ IF Exists THEN onSeatDisconnected(s) ELSE UNCHANGED <<status, connected>>
  /\ sock' = [t \in Seat |->
       CASE t = s -> "shut"
         [] t # s /\ Exists /\ sock[t] = "open" -> "closing"
         [] OTHER -> sock[t]]
  /\ down' = IF Exists THEN Sent(Other(s), "closed") ELSE down

\* Mutant: only the failed socket is forgotten.
RollbackSocketOnly(s) ==
  /\ sock[s] = "failing"
  /\ sock' = [sock EXCEPT ![s] = "shut"]
  /\ UNCHANGED <<now, table, tokens, joining, up, down, client, played, got>>

\* rollbackIfHandshakeNeverLands()
Rollback(s) ==
  /\ sock[s] = "failing"
  /\ EndTable(s)
  /\ UNCHANGED <<now, consumed, turn, rate, tokens, joining,
                 up, client, played, got>>

\* The close (or error) event of an established socket.
Closed(s) ==
  /\ sock[s] = "closing"
  /\ EndTable(s)
  /\ UNCHANGED <<now, consumed, turn, rate, tokens, joining,
                 up, client, played, got>>

\* The client leaves or its network dies.
Drop(s) ==
  /\ sock[s] = "open"
  /\ sock' = [sock EXCEPT ![s] = "closing"]
  /\ UNCHANGED <<now, table, tokens, joining, up, down, client, played, got>>

-----------------------------------------------------------------------------
(* Moves. *)

\* The board of the app: it moves when its status is active, on its turn, and
\* passes the turn unless the same piece goes on capturing.
Play(s, frame) ==
  /\ sock[s] = "open" /\ played[0] + played[1] < MaxMoves
  /\ client[s].shows = "active" /\ client[s].turn = s
  /\ up' = [up EXCEPT ![s] = Append(@, frame)]
  /\ client' = [client EXCEPT ![s].turn = IF frame = "move" THEN Other(s) ELSE s]
  /\ played' = [played EXCEPT ![s] = @ + 1]
  /\ UNCHANGED <<now, table, tokens, joining, sock, down, got>>

\* A frame that is oversized, no JSON or no move.
Garble(s) ==
  /\ sock[s] = "open" /\ up[s] = <<>>
  /\ up' = [up EXCEPT ![s] = <<"garbled">>]
  /\ UNCHANGED <<now, table, tokens, joining, sock, down, client, played, got>>

\* The message handler; a closing socket still hands over what had arrived.
\* Frames are taken in order, and a refusal closes the sender.
Arrives(s) ==
  /\ sock[s] \in {"open", "closing"} /\ up[s] # <<>>
  /\ up' = [up EXCEPT ![s] = Tail(@)]
  /\ UNCHANGED <<now, consumed, connected, status, tokens,
                 joining, client, played, got>>

Refuse(s) == sock' = [sock EXCEPT ![s] = "closing"] /\ UNCHANGED turn

\* messageTooLarge() and parseClientMessage() let nothing else through than a move.
Unreadable(s) == Head(up[s]) = "garbled"

\* applyIncomingMove() on the table's status and turn.
InTurn(s) == status = "active" /\ turn = s

\* rateAllow() finds a token in the seat's bucket.
MayMove(s) == rate[s] > 0

NextTurn(s, frame) == IF frame = "continue" THEN s ELSE Other(s)

\* The table is gone, the frame is garbled, or applyIncomingMove() refuses it
\* before it takes a rate token.  The app's board chains its continuations, so
\* lastMove, which refuses the others, is left out.
Reject(s) ==
  /\ Arrives(s) /\ Refuse(s)
  /\ ~Exists \/ Unreadable(s) \/ ~InTurn(s)
  /\ down' = IF Exists /\ ~Unreadable(s) THEN Sent(s, "error") ELSE down
  /\ UNCHANGED rate

RateLimit(s) ==
  /\ Arrives(s) /\ Refuse(s)
  /\ InTurn(s) /\ ~Unreadable(s) /\ ~MayMove(s)
  /\ down' = Sent(s, "error")
  /\ UNCHANGED rate

Relay(s) ==
  /\ Arrives(s)
  /\ InTurn(s) /\ ~Unreadable(s) /\ MayMove(s)
  /\ rate' = [rate EXCEPT ![s] = @ - 1]
  /\ turn' = NextTurn(s, Head(up[s]))
  /\ down' = Sent(Other(s), Head(up[s]))
  /\ UNCHANGED sock

\* The client's channel takes the next frame.
Receive(s) ==
  LET f == Head(down[s])
  IN  /\ down[s] # <<>>
      /\ down' = [down EXCEPT ![s] = Tail(@)]
      /\ client' = [client EXCEPT ![s] =
           CASE f \in {"waiting", "active", "closed"} -> [@ EXCEPT !.shows = f]
             [] f = "error"                           -> [@ EXCEPT !.shows = "closed"]
             [] f = "move"                            -> [@ EXCEPT !.turn = s]
             [] OTHER                                 -> @]
      /\ got' = [got EXCEPT ![s] = IF f \in {"move", "continue"} THEN @ + 1 ELSE @]
      /\ UNCHANGED <<now, table, tokens, joining, sock, up, played>>

-----------------------------------------------------------------------------
(* Time. *)

Overdue ==
  \/ status = "pending" /\ now > JoinTTL
  \/ Exists /\ now > Lifetime

\* The sweep timer: expired sockets are closed and the entry deleted.
Sweep ==
  /\ Overdue
  /\ status' = "gone"
  /\ sock' = [s \in Seat |-> IF sock[s] = "open" THEN "closing" ELSE sock[s]]
  /\ UNCHANGED <<now, consumed, connected, turn, rate, tokens,
                 joining, up, down, client, played, got>>

\* Buckets refill with time.
Tick ==
  /\ status # "none" /\ now < MaxTime
  /\ now' = now + 1
  /\ rate' = OfSeats(RateCap)
  /\ UNCHANGED <<status, consumed, connected, turn, tokens,
                 joining, net, client, played, got>>

Serve(s) == Rollback(s) \/ Closed(s) \/ Reject(s) \/ RateLimit(s) \/ Relay(s)

Next ==
  \/ \E s \in Seat :
       \/ OpenTable(s) \/ JoinCheck(s) \/ JoinMint(s) \/ Land(s) \/ Miss(s)
       \/ Serve(s) \/ Drop(s) \/ Garble(s) \/ Receive(s)
       \/ \E f \in {"move", "continue"} : Play(s, f)
  \/ Sweep \/ Tick

Spec == Init /\ [][Next]_vars

\* The event loop serves events, the interval timer fires, time passes.
LiveSpec ==
  /\ Spec
  /\ \A s \in Seat : WF_vars(Rollback(s)) /\ WF_vars(Closed(s))
  /\ WF_vars(Sweep) /\ WF_vars(Tick)

-----------------------------------------------------------------------------
(* Properties. *)

\* Values of the variables.
TypeOK ==
  /\ now \in Nat
  /\ status \in Status /\ turn \in Seat
  /\ consumed \in [Seat -> BOOLEAN] /\ connected \in [Seat -> BOOLEAN]
  /\ rate \in [Seat -> 0..RateCap]
  /\ tokens \subseteq [seat : Seat, exp : Nat]
  /\ joining \subseteq Seat
  /\ sock \in [Seat -> Socket]
  /\ up \in [Seat -> Seq({"move", "continue", "garbled"})]
  /\ down \in [Seat -> Seq({"waiting", "active", "move", "continue", "error", "closed"})]
  /\ client \in [Seat -> [shows : {"waiting", "active", "closed"}, turn : Seat]]
  /\ played \in [Seat -> Nat] /\ got \in [Seat -> Nat]

\* game_tables.mjs:251-272: a seat marked connected has a socket, or one whose
\* close event is still to come and will end the table.  No table is active
\* with a peer that is not there and nobody to notice.
NoStrandedPeer ==
  Exists => \A s \in Seat :
    /\ connected[s] <=> sock[s] # "none"
    /\ sock[s] # "shut"

\* table.ts T7: when the table is gone no socket of it stays open, whoever
\* ended it and whatever the other seat was doing.
NoOrphanSocket ==
  status = "gone" => \A s \in Seat : sock[s] # "open"

\* table.ts T2: over the life of a table a seat gets one socket, however many
\* tokens were minted for it and however often they are presented: not a second
\* one while it is connected or after it left, and none on an unjoined table
\* the sweep has yet to delete.
SingleUse ==
  [][\A s \in Seat : sock'[s] # sock[s] /\ sock'[s] \in {"open", "failing"} =>
       sock[s] = "none" /\ ~(status = "pending" /\ now > JoinTTL)]_vars

\* table.ts, "Finding A": fair play is never refused for its turn.  A move at
\* the head of a seat's frames finds the table active and that seat's turn.
FairPlayInTurn ==
  Exists => \A s \in Seat :
    sock[s] = "open" /\ up[s] # <<>> /\ Head(up[s]) # "garbled" => InTurn(s)

MovesIn(q) == {k \in DOMAIN q : q[k] \in {"move", "continue"}}
Moves(q) == Cardinality(MovesIn(q))

\* The relay loses no move: with both sockets open, every move a client sent is
\* on its way or on the other board.
NoLostMove ==
  (\A s \in Seat : sock[s] = "open") =>
    \A s \in Seat :
      played[s] = Moves(up[s]) + Moves(down[Other(s)]) + got[Other(s)]

\* T5, T7: a table nobody joins, or that outlives its ceiling, is deleted, and
\* a socket whose table ends is shut.
Ephemeral ==
  /\ status = "pending" ~> status \in {"active", "gone"}
  /\ \A s \in Seat : sock[s] \in {"failing", "closing"} ~> sock[s] = "shut"
  /\ status = "active" ~> status = "gone"

\* table.ts, game_tables.mjs: in whatever order the two sockets, the handshake, the
\* rollback and the sweep end a table, they end it for both seats.
TableEndsForBoth == NoStrandedPeer /\ NoOrphanSocket
=============================================================================
