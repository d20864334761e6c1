----------------------------- MODULE SharedCanvas -----------------------------
(***************************************************************************)
(* The annotation canvas two people draw on at once (annotation/canvas.ts).*)
(* Strokes are kept in the order they were drawn and are never taken out:  *)
(* an undone one carries the instant it was undone, an erased one who      *)
(* erased it.  Each call carries its instant, and one person's calls come  *)
(* at different instants.                                                  *)
(***************************************************************************)
EXTENDS Naturals, Sequences, FiniteSets
LOCAL INSTANCE SequencesExt

CONSTANTS
  Actor, KindOf,          \* who is at the canvas, and as child, guardian or observer
  MaxStrokes, LastInstant

ASSUME CanvasAssumption ==
  KindOf \in [Actor -> {"child", "guardian", "observer"}] /\ LastInstant \in Nat \ {0}

VARIABLES
  strokes,        \* Seq of [actorId, undoneAt, erasedBy], by seq
  canvasNow,      \* the instant of the next call
  undoneStack     \* history: what each actor has undone and may have back, oldest first

canvasVars == <<strokes, canvasNow, undoneStack>>

Instant == 1..LastInstant
NotUndone == 0
NoEraser == {}             \* erasedBy: null

CanvasInit ==
  /\ strokes = <<>> /\ canvasNow = 1
  /\ undoneStack = [a \in Actor |-> <<>>]

CAN_DRAW(kind) == kind # "observer"
Visible(s) == s.undoneAt = NotUndone /\ s.erasedBy = NoEraser
visible == {k \in DOMAIN strokes : Visible(strokes[k])}

\* A laser pointer is a gesture: it leaves nothing on the canvas, and is left out.
CallTakesTime == canvasNow < LastInstant /\ canvasNow' = canvasNow + 1

add(a) ==
  /\ CAN_DRAW(KindOf[a]) /\ Len(strokes) < MaxStrokes
  /\ strokes' = Append(strokes, [actorId |-> a, undoneAt |-> NotUndone, erasedBy |-> NoEraser])
  /\ UNCHANGED <<canvasNow, undoneStack>>

\* The actor's own strokes an undo may take, the newest of which it takes.
UndoableOnce(a) == {k \in DOMAIN strokes : strokes[k].undoneAt = NotUndone /\ strokes[k].erasedBy = NoEraser}
Undoable(a) == {k \in DOMAIN strokes : strokes[k].actorId = a /\ Visible(strokes[k])}
NewestOf(ks) == CHOOSE k \in ks : \A j \in ks : j <= k

undo(a) ==
  /\ CallTakesTime /\ Undoable(a) # {}
  /\ strokes' = [strokes EXCEPT ![NewestOf(Undoable(a))].undoneAt = canvasNow]
  /\ undoneStack' = [undoneStack EXCEPT ![a] = Append(@, NewestOf(Undoable(a)))]

UndoneBy(a) == {k \in DOMAIN strokes : strokes[k].actorId = a /\ strokes[k].undoneAt # NotUndone}

\* The most recently undone.
RedoPick(a) == CHOOSE k \in UndoneBy(a) : \A j \in UndoneBy(a) : strokes[j].undoneAt <= strokes[k].undoneAt

redo(a) ==
  /\ UndoneBy(a) # {}
  /\ strokes' = [strokes EXCEPT ![RedoPick(a)].undoneAt = NotUndone]
  /\ undoneStack' = [undoneStack EXCEPT ![a] = IF @ = <<>> THEN @ ELSE Front(@)]
  /\ UNCHANGED canvasNow

\* Anyone may erase any stroke; what was undone before it was erased is forgotten.
ErasedKeepingUndone(s, a) == [s EXCEPT !.erasedBy = {a}]
Erased(s, a) == [s EXCEPT !.erasedBy = {a}, !.undoneAt = NotUndone]

erase(k, a) ==
  /\ k \in DOMAIN strokes /\ strokes[k].erasedBy = NoEraser
  /\ strokes' = [strokes EXCEPT ![k] = Erased(@, a)]
  /\ undoneStack' = [b \in Actor |-> SelectSeq(undoneStack[b], LAMBDA j : j # k)]
  /\ UNCHANGED canvasNow

CanvasNext ==
  \E a \in Actor : add(a) \/ undo(a) \/ redo(a) \/ \E k \in 1..MaxStrokes : erase(k, a)

-----------------------------------------------------------------------------
(* Properties. *)

CanvasTypeOK ==
  /\ \A k \in DOMAIN strokes :
       strokes[k].undoneAt \in {NotUndone} \cup Instant /\ Cardinality(strokes[k].erasedBy) <= 1
  /\ canvasNow \in Instant

\* canvas.ts, undo, redo and erase: however two people draw, undo and erase in
\* turn, what a person has back next is what that person undid last and is still
\* there to be had, and nothing erased or drawn by the other is in the way.
RedoIsTheLastUndo ==
  \A a \in Actor :
    /\ UndoneBy(a) = ToSet(undoneStack[a])
    /\ undoneStack[a] # <<>> => RedoPick(a) = Last(undoneStack[a])

\* canvas.ts, erase: no stroke is undone and erased at a time, and erased is for
\* good; a stroke another person drew leaves the canvas by an eraser only.
ErasedIsForGood ==
  [\A k \in DOMAIN strokes :
     /\ strokes[k].erasedBy # NoEraser => strokes'[k] = strokes[k] /\ strokes[k].undoneAt = NotUndone
     /\ k \in visible /\ ~Visible(strokes'[k]) /\ strokes'[k].erasedBy = NoEraser =>
          Last(undoneStack'[strokes[k].actorId]) = k]_canvasVars
=============================================================================
