------------------------------ MODULE Playroom ------------------------------
(***************************************************************************)
(* The games as play.ts plays them with one child at the screen: a tap is  *)
(* her move and, in the same turn of the event loop, the reply of an       *)
(* opponent who picks any legal move, for as many moves as a bounded loop  *)
(* lets him.  Every move of his goes through the same rules as hers, those *)
(* of Games and Contests; chess is the vendored engine's.                  *)
(***************************************************************************)
EXTENDS Games, Contests
LOCAL INSTANCE SequencesExt

CONSTANTS
  RoomKinds,     \* the games of games.ts that are played here
  RoomMoves,     \* bound on the moves of a game
  MemoryTries,   \* cards he turns in one reply: 6 in the code
  Objects,       \* on the tray
  Prompts        \* of the hunt

ASSUME PlayroomAssumption ==
  {RoomMoves, MemoryTries} \subseteq Nat /\ Cardinality(Objects) > 1 /\ Prompts # {}

VARIABLES
  room,       \* S[kind]: the game of games.ts on the screen
  draughts,   \* S.checkers
  ocean,      \* S.battleship
  spoken,     \* S.chain
  kim, kimPhase, hunt

roomVars == room
draughtsVars == draughts
oceanVars == ocean
spokenVars == spoken
trayVars == <<kim, kimPhase, hunt>>
playroomVars == <<room, draughts, ocean, spoken, trayVars>>

\* What n rounds of a loop can come to; a round that leaves the game as it is is a break.
LoopOf(Round(_), start, n) ==
  FoldLeft(LAMBDA games, k : UNION {Round(g) : g \in games}, {start}, [k \in 1 .. n |-> k])

\* Where there is nothing to choose the game stays as it is.
OrStay(games, g) == IF games = {} THEN {g} ELSE games

-----------------------------------------------------------------------------
(* The games of games.ts. *)

\* free[] of an empty list is undefined: nothing is marked, and the turn passes.
PlayUndefined(g) == Record(g, "B", Nothing, FALSE)

playG(g, side, at) == IF at = Nothing THEN PlayUndefined(g) ELSE play(g, side, at)

\* What he may choose from.
FreePlaces(g) ==
  CASE g.kind = "tictactoe" ->
         (Places(g.kind) \cap Offered[g.kind]) \ (Taken(g) \cup IF g.handicap = "no_centre" THEN {4} ELSE {})
    [] g.kind = "dotsboxes" -> (Places(g.kind) \cap Offered[g.kind]) \ Taken(g)
    [] g.kind = "memory" -> Places(g.kind) \ (Taken(g) \cup g.revealed)
    [] g.kind = "story" -> {"a line"}

HisMoves(g) == {playG(g, "B", at) : at \in FreePlaces(g)} \ {Nothing}

HisRound(g) == IF g.turn # "B" \/ g.outcome # Nothing THEN {g} ELSE OrStay(HisMoves(g), g)

\* Mutant: he moves once, whatever he took.
RoomTriesOne(g) == 1

\* One move, but where a box or a pair keeps the turn.
RoomTries(g) == CASE g.kind = "dotsboxes" -> 30 [] g.kind = "memory" -> MemoryTries [] OTHER -> 1

gReply(g) ==
  IF g.kind = "tictactoe" /\ g.turn = "B" /\ g.outcome = Nothing /\ FreePlaces(g) = {}
  THEN {PlayUndefined(g)}
  ELSE LoopOf(HisRound, g, RoomTries(g))

\* Her tap, refused or not, and his reply to what there is then.
gMove(at) ==
  /\ Len(room.moves) < RoomMoves
  /\ LET hers == play(room, "A", at) IN room' \in gReply(IF hers = Nothing THEN room ELSE hers)

gStart(kind) == room' = newGame(kind)

\* takeBack() on the moves of both; an undefined one is replayed like the others.
RoomReplay(g, move) == LET r == playG(g, move[1], move[2]) IN IF r = Nothing THEN g ELSE r

gUndo ==
  /\ room.moves # <<>>
  /\ LET fresh == newGame(room.kind)
         start == IF room.handicap = Nothing THEN fresh ELSE setHandicap(fresh, room.handicap)
     IN  room' = FoldLeft(RoomReplay, start, SubSeq(room.moves, 1, Len(room.moves) - 1))

gHandicap(h) == room' = setHandicap(room, h)

RoomNext ==
  \/ \E kind \in RoomKinds : gStart(kind)
  \/ \E at \in Places(room.kind) \cap Offered[room.kind] : gMove(at)
  \/ gUndo
  \/ \E h \in Handicaps(room.kind) \cup {Nothing} : gHandicap(h)

-----------------------------------------------------------------------------
(* Checkers and battleship. *)

HisJumps(s) ==
  IF s.turn # "B" \/ s.outcome # None THEN {s}
  ELSE OrStay({playCheckers(s, "B", move) : move \in checkersMoves(s, "B")}, s)

\* Mutant: he moves once, and not on while he takes.
CheckersTriesOne == 1

CheckersTries == 12

\* The screen asks for his reply when her move was good.
DraughtsMove ==
  /\ draughts.outcome = None
  /\ \E move \in checkersMoves(draughts, draughts.turn) :
       /\ draughts.turn = "A"
       /\ draughts' \in LoopOf(HisJumps, playCheckers(draughts, "A", move), CheckersTries)

DraughtsNext == DraughtsMove \/ draughts' = newCheckers

Neighbours(cell) ==
  {n \in Cells : \/ n \in {cell - 1, cell + 1} /\ n \div Sea = cell \div Sea
                 \/ n \in {cell - Sea, cell + Sea}}

\* Hits on ships of hers that he has not sunk.
OpenHits(b) ==
  UNION {b.ships["A"][n] \cap b.hits["A"] : n \in {m \in DOMAIN b.ships["A"] : ~b.ships["A"][m] \subseteq b.hits["A"]}}

\* Beside such a hit if he can; which one, the order he keeps his hits in decides.
HisTargets(b) ==
  LET near == UNION {Neighbours(c) : c \in OpenHits(b)} \ b.shots["B"]
  IN  IF near # {} THEN near ELSE Cells \ b.shots["B"]

HisShots(b) ==
  IF b.turn # "B" \/ b.outcome # None THEN {b} ELSE OrStay({fire(b, "B", cell) : cell \in HisTargets(b)}, b)

BattleshipTries == 20

OceanMove(cell) ==
  /\ ~Placing(ocean) /\ ocean.outcome = None /\ cell \notin ocean.shots["A"] /\ ocean.turn = "A"
  /\ ocean' \in LoopOf(HisShots, fire(ocean, "A", cell), BattleshipTries)

\* One fleet where 300 throws put it: anywhere it fits.
Fleets ==
  {[n \in DOMAIN Fleet |-> ShipCells(place[n][1], Fleet[n], place[n][2])] :
     place \in [DOMAIN Fleet -> Cells \X BOOLEAN]}

autoPlaceFleet ==
  {f \in Fleets : \A n, m \in DOMAIN Fleet : f[n] # {} /\ (n # m => f[n] \cap f[m] = {})}

OceanStart ==
  \E a, b \in autoPlaceFleet : ocean' = [newBattleship EXCEPT !.ships = [A |-> a, B |-> b]]

OceanNext == OceanStart \/ \E cell \in Cells : OceanMove(cell)

-----------------------------------------------------------------------------
(* The chain, the tray and the hunt. *)

Said(s) == {s.steps[n][2] : n \in DOMAIN s.steps}

addStep(s, side, label) ==
  [s EXCEPT !.steps = Append(@, <<side, label>>), !.turn = Foe(side), !.phase = "recalling", !.recallIndex = 0]

recallStep(s, side, label) ==
  LET next == s.recallIndex + 1 IN
  IF s.steps[next][2] # label THEN [s EXCEPT !.ended = <<s.recallIndex, side>>]
  ELSE IF next < Len(s.steps) THEN [s EXCEPT !.recallIndex = next]
  ELSE [s EXCEPT !.phase = "building", !.recallIndex = 0]

\* He opens.
chStart == {addStep(newChain, "B", label) : label \in Labels}

\* He says all of it back and has one word more, if one is left.
HeAnswers(s) ==
  LET recalled == [s EXCEPT !.phase = "building", !.recallIndex = 0]
      unused == Labels \ Said(s)
  IN  IF unused = {} THEN {recalled} ELSE {addStep(recalled, "B", label) : label \in unused}

chPlay(label) ==
  /\ spoken.ended = None /\ spoken.turn = "A"
  /\ IF spoken.phase = "recalling" THEN spoken' = recallStep(spoken, "A", label)
     ELSE label \notin Said(spoken) /\ spoken' \in HeAnswers(addStep(spoken, "A", label))

SpokenNext == spoken' \in chStart \/ \E label \in Labels : chPlay(label)

newKim == {[removed |-> o, guess |-> None, revealed |-> FALSE] : o \in Objects}

kimStart == kim' \in newKim /\ kimPhase' = "look" /\ UNCHANGED hunt
kimAdvance == kimPhase' = "guess" /\ UNCHANGED <<kim, hunt>>

\* Mutant: she may guess again.
MayGuessAgain == TRUE

MayGuess == ~kim.revealed

kimAnswer(object) ==
  /\ MayGuess
  /\ kim' = [kim EXCEPT !.guess = object, !.revealed = TRUE] /\ kimPhase' = "done"
  /\ UNCHANGED hunt

\* What she found for each prompt: the first photograph counts.
huntStart == hunt' = [p \in Prompts |-> None] /\ UNCHANGED <<kim, kimPhase>>

submitFind(p, photo) ==
  /\ hunt[p] = None /\ hunt' = [hunt EXCEPT ![p] = photo]
  /\ UNCHANGED <<kim, kimPhase>>

TrayNext ==
  \/ kimStart \/ kimAdvance \/ \E object \in Objects : kimAnswer(object)
  \/ huntStart \/ \E p \in Prompts, photo \in Objects : submitFind(p, photo)

PlayroomInit ==
  /\ room = newGame(CHOOSE kind \in RoomKinds : TRUE) /\ draughts = newCheckers
  /\ ocean = newBattleship /\ spoken \in chStart
  /\ kim \in newKim /\ kimPhase = "look" /\ hunt = [p \in Prompts |-> None]

-----------------------------------------------------------------------------
(* Properties. *)

\* play.ts, gReply: after a tap it is her turn, or the game is over, however many
\* moves a box, a capture or a hit let him make; only in the memory game may his
\* tries run out first.
TurnComesBack ==
  /\ draughts.outcome = None => draughts.turn = "A"
  /\ ocean.outcome = None => ocean.turn = "A"
  /\ spoken.ended = None => spoken.turn = "A" \/ Labels = Said(spoken)

TurnComesBackToHer ==
  [Len(room'.moves) > Len(room.moves) =>
     \/ room'.turn = "A" \/ room'.outcome # Nothing
     \/ room'.kind = "memory" \/ FreePlaces(room') = {}]_room

\* play.ts, gReply: a game that is his to play never hangs: after a take-back, a new
\* handicap or a reply that was cut short the next tap lets him move, as long as
\* there is a place left to him.
NeverHangs ==
  room.turn = "B" /\ room.outcome = Nothing /\ FreePlaces(room) # {} => room \notin gReply(room)

\* games3.ts: an answer that was revealed and a photograph that was sent stay as they
\* are until a new round is begun.
AnswersStand ==
  [/\ kim.revealed /\ kim' # kim => ~kim'.revealed
   /\ \A p \in Prompts : hunt[p] # None /\ hunt'[p] # hunt[p] => \A q \in Prompts : hunt'[q] = None]_trayVars
=============================================================================
