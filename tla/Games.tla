------------------------------- MODULE Games -------------------------------
(***************************************************************************)
(* The turn games of games.ts: three in a row, dots and boxes, the memory  *)
(* game and the story.  A game is a record; a move is refused (Nothing) or *)
(* gives the next game; taking back replays all moves but the last on a    *)
(* fresh game, and skips a move that the fresh game refuses.               *)
(* Positions count from 0 as in the code.                                  *)
(***************************************************************************)
EXTENDS Integers, Sequences, FiniteSets
LOCAL INSTANCE SequencesExt

CONSTANTS
  Kinds,       \* the kinds of game played
  Dots,        \* dots per side: 4 in the code
  Deck,        \* the memory deck, a sequence of photos, each twice
  StoryEnds,   \* lines of a whole story: 20 in the code
  MovesMax,    \* bound on the moves of a game
  LateMax,     \* bound on the moves before a handicap is changed
  Offered,     \* bound on the places of each kind that are played
  Nothing

VARIABLES
  game,
  earlier,   \* the games each move of this one was made in
  settled    \* the handicap was chosen once, before the first move, or never

gameVars == <<game, earlier, settled>>

Player == {"A", "B"}   \* A is the child
Opponent(side) == IF side = "A" THEN "B" ELSE "A"

Handicaps(kind) ==
  CASE kind = "tictactoe" -> {"no_centre", "child_first"}
    [] kind = "dotsboxes" -> {"start_behind", "child_first"}
    [] kind = "memory"    -> {"extra_pairs"}
    [] kind = "story"     -> {}

-----------------------------------------------------------------------------
(* Boards. *)

\* A line of the dot grid is <<"h" or "v", row, column>>.
DotLines ==
  ({"h"} \X (0 .. Dots - 1) \X (0 .. Dots - 2)) \cup ({"v"} \X (0 .. Dots - 2) \X (0 .. Dots - 1))
DotBoxes == (0 .. Dots - 2) \X (0 .. Dots - 2)
SidesOf(box) ==
  LET r == box[1] c == box[2]
  IN  {<<"h", r, c>>, <<"h", r + 1, c>>, <<"v", r, c>>, <<"v", r, c + 1>>}

Places(kind) ==
  CASE kind = "tictactoe" -> 0 .. 8
    [] kind = "dotsboxes" -> DotLines
    [] kind = "memory"    -> 0 .. Len(Deck) - 1
    [] kind = "story"     -> {"a line", ""}

\* The board: who took each place, what lies face up, how many lines there are.
newGame(kind) ==
  [kind |-> kind, turn |-> "A", moves |-> <<>>, outcome |-> Nothing, handicap |-> Nothing,
   scores |-> [s \in Player |-> 0], taken |-> [p \in {} |-> "A"], owner |-> [b \in {} |-> "A"],
   revealed |-> {}]

Taken(g) == DOMAIN g.taken
Put(f, p, side) == [q \in DOMAIN f \cup {p} |-> IF q = p THEN side ELSE f[q]]

\* By the child; she may change it at any time.
setHandicap(g, h) ==
  [g EXCEPT !.handicap = h,
            !.scores = IF h = "start_behind" THEN [A |-> 2, B |-> 0] ELSE @,
            !.turn = IF h = "child_first" THEN "A" ELSE @]

-----------------------------------------------------------------------------
(* A move. *)

Rows == {{0, 1, 2}, {3, 4, 5}, {6, 7, 8}, {0, 3, 6}, {1, 4, 7}, {2, 5, 8}, {0, 4, 8}, {2, 4, 6}}

tttOutcome(taken) ==
  LET won == {s \in Player : \E row \in Rows : row \subseteq {p \in DOMAIN taken : taken[p] = s}}
  IN  IF won # {} THEN CHOOSE s \in won : TRUE
      ELSE IF DOMAIN taken = 0 .. 8 THEN "draw" ELSE Nothing

Lead(a, b) == IF a = b THEN "draw" ELSE IF a > b THEN "A" ELSE "B"

\* The move is on record and the turn passes, unless it is kept.
Record(g, side, at, keepTurn) ==
  [g EXCEPT !.moves = Append(@, <<side, at>>), !.turn = IF keepTurn THEN side ELSE Opponent(side)]

PlayThree(g, side, at) ==
  IF at \in Taken(g) \/ (g.handicap = "no_centre" /\ side = "B" /\ at = 4) THEN Nothing
  ELSE LET taken == Put(g.taken, at, side)
       IN  Record([g EXCEPT !.taken = taken, !.outcome = tttOutcome(taken)], side, at, FALSE)

claimBoxes(g, taken) == {b \in DotBoxes \ DOMAIN g.owner : SidesOf(b) \subseteq DOMAIN taken}

PlayDots(g, side, at) ==
  IF at \in Taken(g) THEN Nothing
  ELSE LET taken == Put(g.taken, at, side)
           claimed == claimBoxes(g, taken)
           owner == [b \in DOMAIN g.owner \cup claimed |-> IF b \in claimed THEN side ELSE g.owner[b]]
           scores == [g.scores EXCEPT ![side] = @ + Cardinality(claimed)]
           full == DOMAIN owner = DotBoxes
       IN  Record([g EXCEPT !.taken = taken, !.owner = owner, !.scores = scores,
                            !.outcome = IF full THEN Lead(scores["A"], scores["B"]) ELSE Nothing],
                  side, at, claimed # {} /\ ~full)

\* Both cards, whether they match or not.
TurnedDown(pair, hit) == {}

PlayMemory(g, side, at) ==
  IF at \in Taken(g) \cup g.revealed THEN Nothing
  ELSE IF g.revealed = {} THEN Record([g EXCEPT !.revealed = {at}], side, at, TRUE)
  ELSE LET pair == g.revealed \cup {at}
           hit == \A p, q \in pair : Deck[p + 1] = Deck[q + 1]
           taken == [p \in Taken(g) \cup (IF hit THEN pair ELSE {}) |-> IF p \in pair THEN side ELSE g.taken[p]]
           scores == [g.scores EXCEPT ![side] = IF hit THEN @ + 1 ELSE @]
           done == DOMAIN taken = Places("memory")
           target == IF g.handicap = "extra_pairs" THEN 2 ELSE 0
       IN  Record([g EXCEPT !.revealed = TurnedDown(pair, hit), !.taken = taken, !.scores = scores,
                            !.outcome = IF done THEN Lead(scores["A"], scores["B"] - target) ELSE Nothing],
                  side, at, hit /\ ~done)

PlayStory(g, side, at) ==
  IF at = "" THEN Nothing
  ELSE Record([g EXCEPT !.outcome = IF Len(g.moves) + 1 >= StoryEnds THEN "done" ELSE Nothing],
              side, at, FALSE)

\* A game that is over, the other one's turn, a place that is taken or
\* forbidden, an empty line: refused.
play(g, side, at) ==
  IF g.outcome # Nothing \/ side # g.turn THEN Nothing
  ELSE CASE g.kind = "tictactoe" -> PlayThree(g, side, at)
         [] g.kind = "dotsboxes" -> PlayDots(g, side, at)
         [] g.kind = "memory"    -> PlayMemory(g, side, at)
         [] g.kind = "story"     -> PlayStory(g, side, at)

\* Mutant: the sides alternate on replay.
ReplayAlternating(g, move) == LET r == play(g, g.turn, move[2]) IN
  IF r = Nothing THEN g ELSE [r EXCEPT !.turn = Opponent(g.turn)]

\* A move the fresh game refuses is skipped.
Replay(g, move) == LET r == play(g, move[1], move[2]) IN IF r = Nothing THEN g ELSE r

takeBack(g) ==
  LET fresh == newGame(g.kind)
      start == IF g.handicap = Nothing THEN fresh ELSE setHandicap(fresh, g.handicap)
  IN  FoldLeft(Replay, start, SubSeq(g.moves, 1, Len(g.moves) - 1))

-----------------------------------------------------------------------------

GamesInit ==
  /\ game \in {newGame(k) : k \in Kinds}
  /\ earlier = <<>> /\ settled = TRUE

ChooseHandicap ==
  \E h \in Handicaps(game.kind) \cup {Nothing} :
    /\ h # game.handicap /\ Len(game.moves) <= LateMax
    /\ game' = setHandicap(game, h)
    /\ settled' = (settled /\ game.moves = <<>> /\ game.handicap = Nothing)
    /\ UNCHANGED earlier

Move ==
  /\ Len(game.moves) < MovesMax
  /\ \E side \in Player, at \in Places(game.kind) \cap Offered[game.kind] :
       /\ play(game, side, at) # Nothing
       /\ game' = play(game, side, at)
  /\ earlier' = Append(earlier, game)
  /\ UNCHANGED settled

TakeBack ==
  /\ game.moves # <<>> /\ settled
  /\ game' = takeBack(game)
  /\ earlier' = SubSeq(earlier, 1, Len(earlier) - 1)
  /\ UNCHANGED settled

GamesNext == ChooseHandicap \/ Move \/ TakeBack

-----------------------------------------------------------------------------
(* Properties. *)

\* Values of the variables; two cards are never left lying face up.
GamesTypeOK ==
  /\ game.turn \in Player /\ game.outcome \in Player \cup {"draw", "done", Nothing}
  /\ Taken(game) \subseteq Places(game.kind) /\ Cardinality(game.revealed) < 2
  /\ Len(earlier) = Len(game.moves)

\* games.ts, takeBack: "inversion is where takeback bugs live": the replay gives
\* back exactly the game the move was made in, whatever turns were kept, as long as
\* the handicap was chosen once and before the first move.
TakebackUndoes ==
  [settled /\ Len(game'.moves) < Len(game.moves) => game' = earlier[Len(earlier)]]_gameVars

\* games.ts, play: what the two are told they have is what they took, after
\* any number of takebacks.
TallyIsTrue ==
  settled =>
    \A s \in Player :
      game.scores[s] =
        (IF s = "A" /\ game.handicap = "start_behind" THEN 2 ELSE 0) +
        (CASE game.kind = "dotsboxes" -> Cardinality({b \in DOMAIN game.owner : game.owner[b] = s})
           [] game.kind = "memory" -> Cardinality({p \in Taken(game) : game.taken[p] = s}) \div 2
           [] OTHER -> 0)
=============================================================================
