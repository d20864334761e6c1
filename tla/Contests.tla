------------------------------ MODULE Contests ------------------------------
(***************************************************************************)
(* The games with rules of their own: checkers and battleship, hangman and *)
(* the word search (games2.ts); the chain said back (games3.ts).  Each is  *)
(* a game of its own; A is the child.                                      *)
(***************************************************************************)
EXTENDS Integers, Sequences, FiniteSets

CONSTANTS
  Size, MenRows,     \* checkers: 8 and 3 in the code
  Sea, Fleet,        \* battleship: 8 and five ships; a function from names to lengths
  Alphabet, Secret,  \* hangman: the letters, and those of the word
  LIVES,             \* 8
  Hidden,            \* the words hidden in the search: from words to sets of cells
  Labels, ChainMax,  \* the chain: what may be said, and a bound on its length
  None

VARIABLES checkers, battleship, hangman, search, chain

contestVars == <<checkers, battleship, hangman, search, chain>>

Sides == {"A", "B"}
Foe(side) == IF side = "A" THEN "B" ELSE "A"

-----------------------------------------------------------------------------
(* Checkers. *)

Squares == {sq \in (0 .. Size - 1) \X (0 .. Size - 1) : (sq[1] + sq[2]) % 2 = 1}

newCheckers ==
  [board |-> [sq \in {s \in Squares : s[1] < MenRows \/ s[1] >= Size - MenRows} |->
                [side |-> IF sq[1] < MenRows THEN "B" ELSE "A", king |-> FALSE]],
   turn |-> "A", outcome |-> None, mustContinueFrom |-> None]

dirs(p) == (IF p.king THEN {-1, 1} ELSE IF p.side = "A" THEN {-1} ELSE {1}) \X {-1, 1}

Step(sq, d, n) == <<sq[1] + n * d[1], sq[2] + n * d[2]>>
Vacant(s, sq) == sq \in Squares \ DOMAIN s.board

\* What a piece may do from its square, as <<from, to, taken>>.
JumpsFrom(s, sq) ==
  {<<sq, Step(sq, d, 2), {Step(sq, d, 1)}>> : d \in
     {e \in dirs(s.board[sq]) :
        /\ Step(sq, e, 1) \in DOMAIN s.board /\ s.board[Step(sq, e, 1)].side # s.board[sq].side
        /\ Vacant(s, Step(sq, e, 2))}}
StepsFrom(s, sq) ==
  {<<sq, Step(sq, d, 1), {}>> : d \in {e \in dirs(s.board[sq]) : Vacant(s, Step(sq, e, 1))}}

\* Captures are mandatory, and the piece in mid-jump goes on jumping.
checkersMoves(s, side) ==
  LET men == {sq \in DOMAIN s.board : s.board[sq].side = side}
      jumps == UNION {JumpsFrom(s, sq) : sq \in men}
  IN  IF s.mustContinueFrom # None THEN JumpsFrom(s, s.mustContinueFrom)
      ELSE IF jumps # {} THEN jumps ELSE UNION {StepsFrom(s, sq) : sq \in men}

\* Mutant: only a player without a piece has lost.
StuckEmpty(s, side) == \A sq \in DOMAIN s.board : s.board[sq].side # side
Stuck(s, side) == checkersMoves(s, side) = {}

playCheckers(s, side, move) ==
  LET from == move[1] to == move[2] p == s.board[from]
      crowned == ~p.king /\ to[1] = (IF side = "A" THEN 0 ELSE Size - 1)
      board == [sq \in (DOMAIN s.board \ ({from} \cup move[3])) \cup {to} |->
                  IF sq = to THEN [side |-> side, king |-> p.king \/ crowned] ELSE s.board[sq]]
      moved == [s EXCEPT !.board = board, !.mustContinueFrom = None]
      on == move[3] # {} /\ ~crowned /\ JumpsFrom(moved, to) # {}
      next == IF on THEN side ELSE Foe(side)
      state == [moved EXCEPT !.turn = next, !.mustContinueFrom = IF on THEN to ELSE None]
  IN  [state EXCEPT !.outcome = IF Stuck(state, next) THEN Foe(next) ELSE None]

CheckersMove ==
  /\ checkers.outcome = None
  /\ \E move \in checkersMoves(checkers, checkers.turn) :
       checkers' = playCheckers(checkers, checkers.turn, move)
  /\ UNCHANGED <<battleship, hangman, search, chain>>

-----------------------------------------------------------------------------
(* Battleship. *)

Cells == 0 .. Sea * Sea - 1

newBattleship ==
  [ships |-> [s \in Sides |-> [n \in {} |-> {}]], hits |-> [s \in Sides |-> {}],
   shots |-> [s \in Sides |-> {}], turn |-> "A", outcome |-> None]

Placing(b) == \E s \in Sides : DOMAIN b.ships[s] # DOMAIN Fleet

\* Where a ship lies, {} when it would leave the board.
ShipCells(start, length, across) ==
  LET r == start \div Sea c == start % Sea
      end == (IF across THEN c ELSE r) + length
  IN  IF end > Sea THEN {}
      ELSE {IF across THEN r * Sea + c + i ELSE (r + i) * Sea + c : i \in 0 .. length - 1}

Afloat(b, side) == UNION {b.ships[side][n] : n \in DOMAIN b.ships[side]}

Overlaps(b, side, cells) == cells \cap Afloat(b, side) # {}

PlaceShip ==
  /\ \E side \in Sides, name \in DOMAIN Fleet, start \in Cells, across \in BOOLEAN :
       LET cells == ShipCells(start, Fleet[name], across) IN
         /\ name \notin DOMAIN battleship.ships[side]
         /\ cells # {} /\ ~Overlaps(battleship, side, cells)
         /\ battleship' = [battleship EXCEPT !.ships[side] =
              [n \in DOMAIN @ \cup {name} |-> IF n = name THEN cells ELSE @[n]]]
  /\ UNCHANGED <<checkers, hangman, search, chain>>

fire(b, side, cell) ==
  LET foe == Foe(side)
      hit == cell \in Afloat(b, foe)
      hits == [b.hits EXCEPT ![foe] = IF hit THEN @ \cup {cell} ELSE @]
      allSunk == hits[foe] = Afloat(b, foe)
  IN  [b EXCEPT !.hits = hits, !.shots[side] = @ \cup {cell},
                !.outcome = IF allSunk THEN side ELSE None,
                !.turn = IF hit /\ ~allSunk THEN side ELSE foe]

Fire ==
  /\ ~Placing(battleship) /\ battleship.outcome = None
  /\ \E cell \in Cells \ battleship.shots[battleship.turn] :
       battleship' = fire(battleship, battleship.turn, cell)
  /\ UNCHANGED <<checkers, hangman, search, chain>>

-----------------------------------------------------------------------------
(* Hangman and the word search: the parent's word, the child's guesses. *)

hangmanOutcome(h) ==
  IF Secret \subseteq h.guessed THEN "won" ELSE IF h.livesLeft <= 0 THEN "lost" ELSE None

GuessLetter ==
  /\ hangmanOutcome(hangman) = None
  /\ \E letter \in Alphabet \ hangman.guessed :
       hangman' = [guessed |-> hangman.guessed \cup {letter},
                   livesLeft |-> IF letter \in Secret THEN hangman.livesLeft ELSE hangman.livesLeft - 1]
  /\ UNCHANGED <<checkers, battleship, search, chain>>

\* The first word not found yet that lies on exactly these cells.
FoundNow(cells) ==
  LET there == {w \in DOMAIN Hidden \ search.found : Hidden[w] = cells}
  IN  IF there = {} THEN {} ELSE {CHOOSE w \in there : TRUE}

FindWord ==
  /\ \E word \in DOMAIN Hidden :
       search' = [found |-> search.found \cup FoundNow(Hidden[word]),
                  finds |-> search.finds + Cardinality(FoundNow(Hidden[word]))]
  /\ UNCHANGED <<checkers, battleship, hangman, chain>>

-----------------------------------------------------------------------------
(* The chain, said back and lengthened in turn. *)

newChain == [steps |-> <<>>, turn |-> "B", phase |-> "building", recallIndex |-> 0, ended |-> None]

AfterAdd(side) == Foe(side)

AddStep ==
  /\ chain.ended = None /\ chain.phase = "building" /\ Len(chain.steps) < ChainMax
  /\ \E label \in Labels :
       chain' = [chain EXCEPT !.steps = Append(@, <<chain.turn, label>>), !.turn = AfterAdd(@),
                              !.phase = "recalling", !.recallIndex = 0]
  /\ UNCHANGED <<checkers, battleship, hangman, search>>

RecallStep ==
  /\ chain.ended = None /\ chain.phase = "recalling"
  /\ \E label \in Labels :
       LET next == chain.recallIndex + 1 IN
       chain' = IF chain.steps[next][2] # label
                THEN [chain EXCEPT !.ended = <<chain.recallIndex, chain.turn>>]
                ELSE IF next < Len(chain.steps) THEN [chain EXCEPT !.recallIndex = next]
                ELSE [chain EXCEPT !.phase = "building", !.recallIndex = 0]
  /\ UNCHANGED <<checkers, battleship, hangman, search>>

-----------------------------------------------------------------------------

ContestsInit ==
  /\ checkers = newCheckers /\ battleship = newBattleship /\ chain = newChain
  /\ hangman = [guessed |-> {}, livesLeft |-> LIVES]
  /\ search = [found |-> {}, finds |-> 0]

CheckersNext == CheckersMove
BattleshipNext == PlaceShip \/ Fire
LettersNext == GuessLetter \/ FindWord
ChainNext == AddStep \/ RecallStep

-----------------------------------------------------------------------------
(* Properties. *)

\* Values of the variables; nothing is counted twice.
ContestsTypeOK ==
  /\ DOMAIN checkers.board \subseteq Squares /\ checkers.turn \in Sides
  /\ \A s \in Sides : battleship.hits[s] \subseteq battleship.shots[Foe(s)]
  /\ hangman.livesLeft \in 0 .. LIVES /\ hangman.guessed \subseteq Alphabet
  /\ hangman.livesLeft = LIVES - Cardinality(hangman.guessed \ Secret)
  /\ search.finds = Cardinality(search.found)
  /\ chain.recallIndex \in 0 .. ChainMax - 1 \cup {0}

\* games2.ts, playCheckers: a game that is not over has a legal move for whoever is to
\* play, and a jump that must go on is that player's.
SomeoneCanMove ==
  /\ checkers.outcome = None => checkersMoves(checkers, checkers.turn) # {}
  /\ checkers.mustContinueFrom # None =>
       checkers.board[checkers.mustContinueFrom].side = checkers.turn

\* A capture is never passed over: a player who steps had nothing to take.
CapturesAreMandatory ==
  [checkers' # checkers /\ Cardinality(DOMAIN checkers'.board) = Cardinality(DOMAIN checkers.board) =>
     \A sq \in DOMAIN checkers.board :
       checkers.board[sq].side = checkers.turn => JumpsFrom(checkers, sq) = {}]_contestVars

\* games2.ts, fire: the game is won by the one who has hit every cell of every ship,
\* as many cells as the fleet has, and by nobody else.
SunkIsWon ==
  LET fleet == UNION {{<<n, i>> : i \in 1 .. Fleet[n]} : n \in DOMAIN Fleet} IN
  \A s \in Sides :
    (battleship.outcome = s) <=> Cardinality(battleship.hits[Foe(s)]) = Cardinality(fleet)

\* games3.ts, addStep, "built one item per turn": the two add in turn, the parent first,
\* and nobody adds before having said all of it back.
ChainIsShared ==
  /\ \A i \in 1 .. Len(chain.steps) : chain.steps[i][1] = IF i % 2 = 1 THEN "B" ELSE "A"
  /\ chain.ended = None => chain.turn = IF Len(chain.steps) % 2 = 0 THEN "B" ELSE "A"
=============================================================================
