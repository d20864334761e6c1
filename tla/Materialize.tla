---------------------------- MODULE Materialize ----------------------------
(***************************************************************************)
(* The delivery engine's pure decisions: where a child is on her time      *)
(* zone timeline, which instant a delivery policy resolves to, and whether *)
(* a delivery may arrive right now.  Time is counted in ticks, Day of them *)
(* to a day; a zone is the number of ticks its midnight lies after UTC's   *)
(* (so a zone west of Greenwich has a positive shift).                     *)
(*                                                                         *)
(* A child context (type ChildCtx) is a record                             *)
(*   home   the shift of child.home_tz                                     *)
(*   tz     a set of [start, end, shift]: her child_tz_interval rows       *)
(*   parts  a set of [kind, wall, until, days, reachable]: her day_part    *)
(*          rows; wall and until are ticks after local midnight, days are  *)
(*          weekdays 0..Week-1                                             *)
(***************************************************************************)
EXTENDS Integers

CONSTANTS
  Day,          \* ticks in a day
  Week,         \* days in a week
  Grace,        \* PAST_GRACE_MINUTES, in ticks
  Horizon,      \* how many dates at_daypart and nextReachableWindow probe
  DefaultWall,  \* the '20:30' on_local_date falls back to, in ticks
  MaxDefers,    \* MAX_DEFERS
  NoDate,       \* "no explicit target date"
  Unbounded     \* the bound an open interval does not have

ASSUME TimeAssumption ==
  /\ Day \in Nat \ {0} /\ Week \in Nat \ {0} /\ Horizon \in Nat \ {0}
  /\ Grace \in Nat /\ DefaultWall \in 0..(Day - 1) /\ MaxDefers \in Nat
  /\ NoDate \notin Int /\ Unbounded \notin Int

\* What the columns behind a child context hold.
IsContext(c) ==
  /\ c.home \in Int
  /\ \A iv \in c.tz : {iv.start, iv.end} \subseteq Int \cup {Unbounded} /\ iv.shift \in Int
  /\ \A p \in c.parts : {p.wall, p.until} \subseteq Int

LeastOf(S) == CHOOSE x \in S : \A y \in S : x <= y

-----------------------------------------------------------------------------
(* The timeline. *)

Covers(iv, t) ==
  /\ iv.start = Unbounded \/ iv.start <= t
  /\ iv.end = Unbounded \/ t < iv.end

\* A lookup against the timeline, falling back to the home zone.  Intervals
\* of one child do not overlap at equal confidence.
resolveZone(c, t) ==
  IF \E iv \in c.tz : Covers(iv, t)
  THEN (CHOOSE iv \in c.tz : Covers(iv, t)).shift
  ELSE c.home

\* The child-local date and the local wall clock at instant t.
LocalDate(c, t) == (t - resolveZone(c, t)) \div Day
LocalWall(c, t) == (t - resolveZone(c, t)) % Day

\* Both policies and windows resolve the zone of a date at its noon UTC.
ZoneOfDate(c, d) == resolveZone(c, d * Day + Day \div 2)

resolveWallClock(d, wall, shift) == d * Day + wall + shift

-----------------------------------------------------------------------------
(* Policies. *)

OnDay(p, d) == (d % Week) \in p.days

dayPartsFor(c, kind, d) == {p \in c.parts : p.kind = kind /\ OnDay(p, d)}

\* The instant at which the day-part of this kind starts on date d.
PartInstant(c, kind, d) ==
  resolveWallClock(d, (CHOOSE p \in dayPartsFor(c, kind, d) : TRUE).wall,
                   ZoneOfDate(c, d))

Ok(t, zone)  == [ok |-> TRUE,  at |-> t, tz |-> zone, reason |-> "none"]
Skip(reason) == [ok |-> FALSE, at |-> 0, tz |-> 0, reason |-> reason]

\* A fixed instant goes out unless it is more than Grace behind.
AtInstant(c, t, now) ==
  IF t < now - Grace THEN Skip("target_in_past") ELSE Ok(t, resolveZone(c, now))

FirstDate(c, date, now) == IF date = NoDate THEN LocalDate(c, now) ELSE date

\* An undated intent rolls forward to the next date with a slot inside the
\* grace window; a dated one is judged on the first date that has the part.
AtDaypart(c, kind, date, now) ==
  LET first    == FirstDate(c, date, now)
      probed   == {d \in first..(first + Horizon - 1) : dayPartsFor(c, kind, d) # {}}
      usable   == {d \in probed : PartInstant(c, kind, d) >= now - Grace}
      pastDate == date # NoDate /\ LeastOf(probed) \notin usable
      Chosen   == LeastOf(usable)
  IN  IF probed # {} /\ pastDate THEN Skip("target_in_past")
      ELSE IF usable = {} THEN Skip("daypart_undefined")
      ELSE Ok(PartInstant(c, kind, Chosen), ZoneOfDate(c, Chosen))

\* Mutant: a named night that is past rolls to the next one.
OnLocalDateRolling(c, kind, date, now) ==
  LET zone == ZoneOfDate(c, date)
      t    == resolveWallClock(date, DefaultWall, zone)
  IN  Ok(IF t < now - Grace THEN t + Day ELSE t, zone)

\* A named local date is never moved: it resolves on that date or is past.
OnLocalDate(c, kind, date, now) ==
  LET zone == ZoneOfDate(c, date)
      t    == IF dayPartsFor(c, kind, date) # {}
              THEN PartInstant(c, kind, date)
              ELSE resolveWallClock(date, DefaultWall, zone)
  IN  IF t < now - Grace THEN Skip("target_in_past") ELSE Ok(t, zone)

\* Starts of reachable day-parts on date d that are not before instant t.
ReachableStarts(c, d, t) ==
  {s \in {resolveWallClock(d, p.wall, ZoneOfDate(c, d)) :
            p \in {q \in c.parts : q.reachable /\ OnDay(q, d)}} : s >= t}

\* The dates probed are those of `from' in the zone it is expressed in, which
\* for every caller in the repository is UTC.
nextReachableWindow(c, from) ==
  LET utc  == from \div Day
      hits == {d \in utc..(utc + Horizon - 1) : ReachableStarts(c, d, from) # {}}
  IN  IF hits = {} THEN Skip("no_reachable_window")
      ELSE Ok(LeastOf(ReachableStarts(c, LeastOf(hits), from)),
              ZoneOfDate(c, LeastOf(hits)))

Terminal == {"delivered", "opened", "expired", "revoked"}

\* An intent is [state, policy, kind, date, instant, expires]; instant is the
\* target instant, or that of the target event (NoDate when it is unknown).
materialize(i, c, now) ==
  IF i.state \in Terminal THEN Skip("terminal_state")
  ELSE IF i.expires <= now THEN Skip("already_expired")
  ELSE CASE i.policy = "immediate"      -> Ok(now, resolveZone(c, now))
         [] i.policy = "at_instant"     -> AtInstant(c, i.instant, now)
         [] i.policy = "at_daypart"     -> AtDaypart(c, i.kind, i.date, now)
         [] i.policy = "on_local_date"  -> OnLocalDate(c, i.kind, i.date, now)
         [] i.policy = "when_reachable" -> nextReachableWindow(c, now)
         [] i.policy = "on_event"       -> IF i.instant = NoDate
                                           THEN Skip("unresolvable_event")
                                           ELSE AtInstant(c, i.instant, now)

-----------------------------------------------------------------------------
(* The recipient-side gate. *)

\* A day-part may wrap midnight; its weekdays are those of the current date.
InPart(p, wall) ==
  IF p.wall <= p.until THEN p.wall <= wall /\ wall < p.until
                       ELSE p.wall <= wall \/ wall < p.until

CurrentParts(c, now) ==
  {p \in c.parts : OnDay(p, LocalDate(c, now)) /\ InPart(p, LocalWall(c, now))}

\* In an hour no day-part covers, nothing blocks.  Parts of a day do not
\* overlap; where rows do, the first one the query returned decides.
ReachableNow(c, now) ==
  LET current == CurrentParts(c, now)
  IN  current = {} \/ (CHOOSE p \in current : TRUE).reachable

Exhausted(defers) == defers >= MaxDefers

\* Result of gate(): allow, the instant to defer to (a Skip when none), and
\* the caller's next defer count.
gate(c, now, emergency, defers) ==
  IF emergency \/ Exhausted(defers) \/ ReachableNow(c, now)
  THEN [allow |-> TRUE,  deferTo |-> Skip("none"), defers |-> defers]
  ELSE [allow |-> FALSE, deferTo |-> nextReachableWindow(c, now),
        defers |-> defers + 1]
=============================================================================
