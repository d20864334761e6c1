-------------------------------- MODULE Circle --------------------------------
(***************************************************************************)
(* The people around her (packages/observer, showcase, agency, guardian):  *)
(* observers one parent invites, things a parent asks to be shown, the     *)
(* pings she sends, and the solo turns of a call with several children.    *)
(* Each part keeps a state of its own, handed from call to call.           *)
(***************************************************************************)
EXTENDS Naturals, Sequences, SequencesExt

CONSTANTS
  Guardian, Relative,      \* who invites, and who is invited
  MaxInvites, MaxAsks,
  MAX_PENDING_ASKS,
  PingLimit, MaxTaps, MaxDate,
  Youngest, Eldest         \* ages of the children on the call, as a range

ASSUME CircleAssumption ==
  /\ MAX_PENDING_ASKS \in Nat \ {0} /\ PingLimit \in Nat /\ Youngest \in Nat /\ Eldest \in Nat

VARIABLES
  observers,      \* the invitations, oldest first
  revoker,        \* history: who ended each invitation
  asks, asked,    \* the pending asks, and how many were made
  pingLog, tapped, banked, localDate,   \* per parent and her local date
  soloTurn, turns                       \* GroupCall.soloTurn; history: turns had

observerVars == <<observers, revoker>>
askVars == <<asks, asked>>
pingVars == <<pingLog, tapped, banked, localDate>>
groupVars == <<soloTurn, turns>>
circleVars == <<observerVars, askVars, pingVars, groupVars>>

Sibling == Youngest..Eldest       \* a child of the call, by age
NoTurn == Eldest + 1

CircleInit ==
  /\ observers = <<>> /\ revoker = <<>>
  /\ asks = <<>> /\ asked = 0
  /\ pingLog = [k \in Guardian \X (0..MaxDate) |-> 0]
  /\ tapped = pingLog /\ banked = pingLog /\ localDate = 0
  /\ soloTurn = NoTurn /\ turns = [c \in Sibling |-> 0]

-----------------------------------------------------------------------------
(* Observers. *)

Live(o) == o.revoked = FALSE

invite(byRole, g, u) ==
  /\ byRole = "guardian" /\ Len(observers) < MaxInvites
  /\ ~\E k \in DOMAIN observers : observers[k].user = u /\ Live(observers[k])
  /\ observers' = Append(observers, [user |-> u, invitedBy |-> g, accepted |-> FALSE, revoked |-> FALSE])
  /\ revoker' = Append(revoker, {})

\* External: the invited person accepts.
acceptInvitation(k) ==
  /\ Live(observers[k]) /\ ~observers[k].accepted
  /\ observers' = [observers EXCEPT ![k].accepted = TRUE] /\ UNCHANGED revoker

\* The invitation revoke() finds: the first of that person still in force.
InvitationOf(u) ==
  LET inForce == {k \in DOMAIN observers : observers[k].user = u /\ Live(observers[k])}
  IN  IF inForce = {} THEN 0 ELSE CHOOSE k \in inForce : \A j \in inForce : k <= j

\* Whoever invited may revoke; every invitation of that person is stamped.
revoke(g, u) ==
  LET k == InvitationOf(u) IN
  /\ k # 0 /\ observers[k].invitedBy = g
  /\ observers' = [j \in DOMAIN observers |->
       IF observers[j].user = u THEN [observers[j] EXCEPT !.revoked = TRUE] ELSE observers[j]]
  /\ revoker' = [j \in DOMAIN observers |->
       IF observers[j].user = u /\ Live(observers[j]) THEN {g} ELSE revoker[j]]

ObserversNext ==
  \/ \E byRole \in {"guardian", "child", "observer"}, g \in Guardian, u \in Relative : invite(byRole, g, u)
  \/ \E k \in DOMAIN observers : acceptInvitation(k)
  \/ \E g \in Guardian, u \in Relative : revoke(g, u)

-----------------------------------------------------------------------------
(* Asks: askForShow keeps the open ones, and the oldest makes room.        *)

OpenAsks == SelectSeq(asks, LAMBDA a : ~a.answered)

askForShow ==
  LET next == Append(OpenAsks, [id |-> asked + 1, answered |-> FALSE]) IN
  /\ asked < MaxAsks /\ asked' = asked + 1
  /\ asks' = IF Len(next) <= MAX_PENDING_ASKS THEN next ELSE Tail(next)

answerAsk(id) ==
  /\ \E k \in DOMAIN asks : asks[k].id = id /\ ~asks[k].answered
  /\ asks' = [k \in DOMAIN asks |-> IF asks[k].id = id THEN [asks[k] EXCEPT !.answered = TRUE] ELSE asks[k]]
  /\ UNCHANGED asked

AsksNext == askForShow \/ \E id \in 1..MaxAsks : answerAsk(id)

-----------------------------------------------------------------------------
(* Pings: a tap within the limit of her age reaches him, one beyond it is  *)
(* banked, and she is told the same.                                       *)

UsedOn(g) == pingLog[<<g, localDate>>]

tapPing(g) ==
  LET k == <<g, localDate>> IN
  /\ tapped[k] < MaxTaps
  /\ tapped' = [tapped EXCEPT ![k] = @ + 1]
  /\ IF UsedOn(g) >= PingLimit
     THEN banked' = [banked EXCEPT ![k] = @ + 1] /\ UNCHANGED pingLog
     ELSE pingLog' = [pingLog EXCEPT ![k] = @ + 1] /\ UNCHANGED banked
  /\ UNCHANGED localDate

\* Midnight, or a flight over the date line and back.
DateMoves ==
  /\ localDate' \in {localDate + 1, localDate - 1} \cap (0..MaxDate)
  /\ UNCHANGED <<pingLog, tapped, banked>>

PingsNext == DateMoves \/ \E g \in Guardian : tapPing(g)

-----------------------------------------------------------------------------
(* The group call: solo turns from the youngest up, then round again.      *)

\* Ages stand for the children, so soloOrder is the order of the numbers.
nextSolo == IF soloTurn = NoTurn THEN Youngest
            ELSE IF soloTurn = Eldest THEN NoTurn ELSE soloTurn + 1

SoloTurnPasses ==
  /\ \A c \in Sibling : turns[c] < 3
  /\ soloTurn' = nextSolo
  /\ turns' = [c \in Sibling |-> IF c = soloTurn' THEN turns[c] + 1 ELSE turns[c]]

GroupNext == SoloTurnPasses

-----------------------------------------------------------------------------
(* Properties. *)

\* observer.ts, revoke: an observer is put out only by the parent who let them
\* in, also where the other parent invited the same person once before; and
\* nobody holds two invitations at a time.
OnlyTheInviterRevokes ==
  \A k \in DOMAIN observers :
    /\ revoker[k] \subseteq {observers[k].invitedBy}
    /\ \A j \in DOMAIN observers :
         j # k /\ observers[j].user = observers[k].user => ~(Live(observers[j]) /\ Live(observers[k]))

\* exchange.ts, askForShow: an unanswered ask leaves her screen only for a full
\* set of newer ones that wait for her too.
AsksKeepTheNewest ==
  [\A j \in DOMAIN asks :
     \/ asks[j].answered
     \/ \E k \in DOMAIN asks' : asks'[k].id = asks[j].id
     \/ /\ Len(asks') = MAX_PENDING_ASKS
        /\ \A k \in DOMAIN asks' : asks'[k].id > asks[j].id /\ ~asks'[k].answered]_circleVars

\* agency.ts, ping and guardian/pending.ts, tapPing: on each of her days each
\* parent is reached as often as she tapped for that parent, up to the limit,
\* and every other tap is banked; dates that come back included.
EveryTapReaches ==
  \A k \in Guardian \X (0..MaxDate) :
    /\ pingLog[k] = IF tapped[k] < PingLimit THEN tapped[k] ELSE PingLimit
    /\ pingLog[k] + banked[k] = tapped[k]

\* guardian/pending.ts, nextSolo: no child is two turns ahead of another, and of
\* two children the younger is never behind.
TurnsComeRound ==
  \A c, d \in Sibling : c < d => turns[c] - turns[d] \in {0, 1}
=============================================================================
