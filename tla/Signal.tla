-------------------------------- MODULE Signal --------------------------------
(***************************************************************************)
(* The come-back signal (packages/signal): what deliver() lets onto her    *)
(* screen, what a blocked signal waits for, and which of several wins.     *)
(* The caller is assumed to do what the file's last section says: defer    *)
(* what silent hours or a blocked window refuse, and offer it again when   *)
(* she is reachable.  Every shipped application is safe to tap by mistake  *)
(* and none is safety critical, so those branches are left out.            *)
(***************************************************************************)
EXTENDS Naturals, FiniteSets

CONSTANTS
  DAILY_CEILING,
  CHILD_MUTE, DEFERRAL_STALE_AFTER,   \* in ticks
  ChildAge,
  Pending,                            \* the signals parents ask for
  Silence                             \* no signal

ASSUME SignalAssumption ==
  /\ DAILY_CEILING \in Nat \ {0} /\ CHILD_MUTE \in Nat \ {0} /\ DEFERRAL_STALE_AFTER \in Nat

VARIABLES
  current, mutedLeft, sentToday, transitioning,   \* SignalState
  deferred,      \* DeferredSignal: the pending signal and the ticks it has waited
  asking,        \* the pending signals prioritise() chooses from
  reach,         \* "open", or what blocks her: "silent_hours", "blocked_window"
  surfaceBusy,
  shownToday     \* history: prompts she saw since the day began

signalVars == <<current, mutedLeft, sentToday, transitioning, deferred, asking, reach,
                surfaceBusy, shownToday>>

\* Youngest age of each application, by whether it waits for a free surface.
MinAge(kind) ==
  CASE kind \in {"come_back", "im_here"} -> 2
    [] kind \in {"turn_it_round", "your_turn", "running_late", "sorry_my_end", "well_done"} -> 4
    [] OTHER -> 3
Always == {"show_me_again", "turn_it_round", "can_you_hear_me", "louder", "wave_to_other",
           "say_goodnight", "someone_says_hello", "sorry_my_end"}
Defers == {"come_back", "im_here", "look_at_this", "nearly_bedtime", "your_turn", "running_late",
           "nearly_there", "well_done"}
SignalKind == Always \cup Defers

Principal == {"parent", "grandparent", "stepparent", "caregiver", "therapist", "coordinator", "supervisor"}
Configuration == {"both_parents", "one_parent_only", "sole_guardian", "both_in_same_house"}
canSend(principal) == principal \in {"parent"}
activeInConfiguration(conf) == conf # "both_in_same_house"

SignalInit ==
  /\ current = Silence /\ mutedLeft = 0 /\ sentToday = 0 /\ transitioning = FALSE
  /\ deferred = [kind |-> Silence, waited |-> 0]
  /\ asking = {}
  /\ reach \in {"open", "silent_hours", "blocked_window"} /\ surfaceBusy \in BOOLEAN
  /\ shownToday = 0

\* prioritise(): absence beats presence, then in a call, then first.
Earliest(pool) == CHOOSE p \in pool : \A q \in pool : p.at <= q.at

inCallOf(pending, pool) == {p \in pool : p.inCall}

prioritise(pending) ==
  LET absent == {p \in pending : ~p.senderIsPresent}
      pool == IF absent # {} THEN absent ELSE pending
      calling == inCallOf(pending, pool)
  IN  IF calling # {} /\ Cardinality(calling) < Cardinality(pool)
      THEN Earliest(calling) ELSE Earliest(pool)

Waiting == deferred.kind # Silence

\* Why deliver() refuses a signal, in the order of its tests.
DeliverError(kind, principal, conf) ==
  IF ~canSend(principal) THEN "sender_not_permitted"
  ELSE IF ~activeInConfiguration(conf) THEN "configuration_inactive"
  ELSE IF ChildAge < MinAge(kind) THEN "too_young"
  ELSE IF mutedLeft > 0 THEN "muted"
  ELSE IF sentToday >= DAILY_CEILING THEN "daily_ceiling"
  ELSE IF reach # "open" THEN reach
  ELSE IF transitioning THEN "mid_transition"
  ELSE IF surfaceBusy /\ kind \in Defers THEN "not_interruptible"
  ELSE "ok"

\* One at a time: this replaces whatever was there.
Show(kind) ==
  /\ current' = kind /\ sentToday' = sentToday + 1 /\ shownToday' = shownToday + 1

Ask(p) ==
  /\ asking' = asking \cup {p} /\ asking' # asking
  /\ UNCHANGED <<current, mutedLeft, sentToday, transitioning, deferred, reach, surfaceBusy, shownToday>>

\* The winner is offered to her, and the losers are never told.  Silent hours
\* and blocked windows defer it; every other refusal drops it.
deliver(principal, conf) ==
  LET kind == prioritise(asking).kind
      error == DeliverError(kind, principal, conf) IN
  /\ asking # {} /\ asking' = {}
  /\ IF error = "ok" THEN Show(kind) ELSE UNCHANGED <<current, sentToday, shownToday>>
  /\ deferred' = IF error \in {"silent_hours", "blocked_window"}
                 THEN [kind |-> kind, waited |-> 0] ELSE deferred
  /\ UNCHANGED <<mutedLeft, transitioning, reach, surfaceBusy>>

\* She is reachable again: the deferred signal goes through deliver() once more,
\* or is dropped as stale.
redeliverIfReachable ==
  /\ Waiting /\ reach = "open"
  /\ deferred' = [kind |-> Silence, waited |-> 0]
  /\ IF /\ deferred.waited <= DEFERRAL_STALE_AFTER
        /\ DeliverError(deferred.kind, "parent", "both_parents") = "ok"
     THEN Show(deferred.kind)
     ELSE UNCHANGED <<current, sentToday, shownToday>>
  /\ UNCHANGED <<mutedLeft, transitioning, asking, reach, surfaceBusy>>

\* expire() after 90 seconds, or dismiss(): the prompt is gone and nothing said.
expire ==
  /\ current # Silence /\ current' = Silence
  /\ UNCHANGED <<mutedLeft, sentToday, transitioning, deferred, asking, reach, surfaceBusy, shownToday>>

act ==
  /\ current # Silence /\ current' = Silence /\ transitioning' = TRUE
  /\ UNCHANGED <<mutedLeft, sentToday, deferred, asking, reach, surfaceBusy, shownToday>>

transitionComplete ==
  /\ transitioning /\ transitioning' = FALSE
  /\ UNCHANGED <<current, mutedLeft, sentToday, deferred, asking, reach, surfaceBusy, shownToday>>

muteForAnHour ==
  /\ current' = Silence /\ mutedLeft' = CHILD_MUTE
  /\ UNCHANGED <<sentToday, transitioning, deferred, asking, reach, surfaceBusy, shownToday>>

\* External: her day goes on, and a new one begins with a new state.
SignalTick ==
  /\ mutedLeft' = IF mutedLeft > 0 THEN mutedLeft - 1 ELSE 0
  /\ deferred' = IF Waiting /\ deferred.waited <= DEFERRAL_STALE_AFTER
                 THEN [deferred EXCEPT !.waited = @ + 1] ELSE deferred
  /\ reach' \in {"open", "silent_hours", "blocked_window"} /\ surfaceBusy' \in BOOLEAN
  /\ UNCHANGED <<current, sentToday, transitioning, asking, shownToday>>
NewDay ==
  /\ reach = "silent_hours" /\ current' = Silence /\ sentToday' = 0 /\ shownToday' = 0
  /\ mutedLeft' = 0 /\ transitioning' = FALSE
  /\ UNCHANGED <<deferred, asking, reach, surfaceBusy>>

SignalNext ==
  \/ \E p \in Pending : Ask(p)
  \/ \E principal \in {"parent", "grandparent"},
        conf \in {"both_parents", "both_in_same_house"} : deliver(principal, conf)
  \/ redeliverIfReachable \/ expire \/ act \/ transitionComplete \/ muteForAnHour
  \/ SignalTick \/ NewDay

SignalSpec == SignalInit /\ [][SignalNext]_signalVars

-----------------------------------------------------------------------------
(* Properties. *)

\* Values of the variables; a prompt on the screen is never a muted one.
SignalTypeOK ==
  /\ current \in SignalKind \cup {Silence} /\ deferred.kind \in SignalKind \cup {Silence}
  /\ mutedLeft \in 0..CHILD_MUTE /\ deferred.waited \in 0..DEFERRAL_STALE_AFTER + 1
  /\ sentToday \in 0..DAILY_CEILING /\ transitioning \in BOOLEAN
  /\ current # Silence => mutedLeft = 0 /\ ~transitioning

\* signal.ts, DAILY_CEILING: however they are asked for, replaced, deferred and
\* offered again, she sees no more prompts in a day than the ceiling.
CeilingHolds == shownToday <= DAILY_CEILING

\* signal.ts, muteForAnHour and deliver: a prompt appears only where nothing
\* blocks her, not within the hour she muted and not while she acts on one,
\* even if it was asked for before she did either.
QuietIsQuiet ==
  [current' \notin {Silence, current} =>
     reach = "open" /\ mutedLeft = 0 /\ ~transitioning]_signalVars

\* signal.ts, prioritise: one more pending signal wins or changes nothing, and a
\* parent who is absent never loses to the one who is with her.
PrioritiseIsSteady ==
  [asking # {} /\ asking' # {} =>
     /\ prioritise(asking') \in {prioritise(asking)} \cup (asking' \ asking)
     /\ prioritise(asking').senderIsPresent => \A p \in asking : p.senderIsPresent]_asking
=============================================================================
