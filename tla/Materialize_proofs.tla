------------------------- MODULE Materialize_proofs -------------------------
(***************************************************************************)
(* What materialize() and gate() return, for every context, intent and     *)
(* instant: a delivery instant that is an integer, inside the grace window *)
(* and before the intent's expiry; for a named night, the same one         *)
(* whenever it is asked; for a moment of her day, the earliest that is not *)
(* past; and a postponement that is never into the past.                   *)
(***************************************************************************)
EXTENDS Materialize, FiniteSetTheorems, WellFoundedInduction, TLAPS

-----------------------------------------------------------------------------
(* Least elements. *)

\* Least-number principle for sets of naturals.
LEMMA LeastNat ==
  ASSUME NEW T \in SUBSET Nat, T # {}
  PROVE  \E x \in T : \A y \in T : x <= y
<1>1. IsWellFoundedOn({ss \in Nat \X Nat : ss[1] < ss[2]}, Nat)
  BY NatLessThanWellFounded DEF OpToRel
<1>2. PICK x \in T : \A y \in T : ~ (<<y, x>> \in {ss \in Nat \X Nat : ss[1] < ss[2]})
  BY <1>1, WFMin, Zenon
<1>3. ASSUME NEW y \in T PROVE x <= y
  <2>1. x \in Nat /\ y \in Nat
    OBVIOUS
  <2>2. <<y, x>> \notin {ss \in Nat \X Nat : ss[1] < ss[2]}
    BY <1>2
  <2> QED BY <2>1, <2>2
<1> QED BY <1>3

\* LeastOf() is the least element of any set of integers bounded below.
LEMMA LeastOfIsLeast ==
  ASSUME NEW S \in SUBSET Int, S # {}, NEW n \in Int, \A x \in S : x >= n
  PROVE  LeastOf(S) \in S /\ \A y \in S : LeastOf(S) <= y
<1> DEFINE T == {x - n : x \in S}
<1>1. T \in SUBSET Nat /\ T # {}
  <2>1. ASSUME NEW x \in S PROVE x - n \in Nat
    <3>1. x \in Int /\ x >= n
      OBVIOUS
    <3> QED BY <3>1
  <2> QED BY <2>1
<1>2. PICK t \in T : \A y \in T : t <= y
  BY <1>1, LeastNat
<1>3. PICK x \in S : t = x - n
  OBVIOUS
<1>4. \A y \in S : x <= y
  <2> TAKE y \in S
  <2>1. y - n \in T
    OBVIOUS
  <2>2. x - n <= y - n
    BY <1>2, <1>3, <2>1
  <2> QED BY <2>2
<1> QED BY <1>4 DEF LeastOf

-----------------------------------------------------------------------------
(* The timeline. *)

LEMMA ZoneType ==
  ASSUME NEW c, IsContext(c), NEW t \in Int
  PROVE  resolveZone(c, t) \in Int
<1>1. CASE \E iv \in c.tz : Covers(iv, t)
  <2>1. (CHOOSE iv \in c.tz : Covers(iv, t)) \in c.tz
    BY <1>1
  <2> QED BY <1>1, <2>1 DEF resolveZone, IsContext
<1>2. CASE ~ \E iv \in c.tz : Covers(iv, t)
  BY <1>2 DEF resolveZone, IsContext
<1> QED BY <1>1, <1>2

LEMMA LocalDateType ==
  ASSUME NEW c, IsContext(c), NEW t \in Int
  PROVE  LocalDate(c, t) \in Int
BY ZoneType, TimeAssumption DEF LocalDate

LEMMA ZoneOfDateType ==
  ASSUME NEW c, IsContext(c), NEW d \in Int
  PROVE  ZoneOfDate(c, d) \in Int
<1>1. d * Day + Day \div 2 \in Int
  BY TimeAssumption
<1> QED BY <1>1, ZoneType DEF ZoneOfDate

LEMMA WallClockType ==
  ASSUME NEW d \in Int, NEW wall \in Int, NEW shift \in Int
  PROVE  resolveWallClock(d, wall, shift) \in Int
BY TimeAssumption DEF resolveWallClock

LEMMA PartInstantType ==
  ASSUME NEW c, IsContext(c), NEW kind, NEW d \in Int, dayPartsFor(c, kind, d) # {}
  PROVE  PartInstant(c, kind, d) \in Int
<1> DEFINE p == CHOOSE q \in dayPartsFor(c, kind, d) : TRUE
<1>1. p \in c.parts
  BY DEF dayPartsFor
<1>2. p.wall \in Int
  BY <1>1 DEF IsContext
<1> QED BY <1>2, ZoneOfDateType, WallClockType DEF PartInstant

-----------------------------------------------------------------------------
(* Policies. *)

\* The record of a decision made at `now'.
Sound(res, asOf) ==
  /\ res.ok \in BOOLEAN
  /\ res.at \in Int
  /\ res.ok => res.at >= asOf - Grace

LEMMA SkipSound ==
  ASSUME NEW reason, NEW asOf \in Int
  PROVE  Sound(Skip(reason), asOf) /\ ~Skip(reason).ok
BY DEF Sound, Skip

LEMMA OkSound ==
  ASSUME NEW t \in Int, NEW zone, NEW asOf \in Int, t >= asOf - Grace
  PROVE  Sound(Ok(t, zone), asOf)
BY DEF Sound, Ok

LEMMA AtInstantSound ==
  ASSUME NEW c, NEW t \in Int, NEW asOf \in Int
  PROVE  Sound(AtInstant(c, t, asOf), asOf)
<1>1. CASE t < asOf - Grace
  BY <1>1, SkipSound DEF AtInstant
<1>2. CASE ~(t < asOf - Grace)
  <2>1. t >= asOf - Grace
    BY <1>2, TimeAssumption
  <2> QED BY <1>2, <2>1, OkSound DEF AtInstant
<1> QED BY <1>1, <1>2

LEMMA AtDaypartSound ==
  ASSUME NEW c, IsContext(c), NEW kind, NEW date \in Int \cup {NoDate}, NEW asOf \in Int
  PROVE  Sound(AtDaypart(c, kind, date, asOf), asOf)
<1> DEFINE first  == FirstDate(c, date, asOf)
           probed == {d \in first..(first + Horizon - 1) : dayPartsFor(c, kind, d) # {}}
           usable == {d \in probed : PartInstant(c, kind, d) >= asOf - Grace}
           past   == date # NoDate /\ LeastOf(probed) \notin usable
           pick   == LeastOf(usable)
<1>1. first \in Int
  BY LocalDateType DEF FirstDate
<1>2. CASE probed # {} /\ past
  BY <1>2, SkipSound DEF AtDaypart
<1>3. CASE ~(probed # {} /\ past) /\ usable = {}
  BY <1>3, SkipSound DEF AtDaypart
<1>4. CASE ~(probed # {} /\ past) /\ usable # {}
  <2>1. usable \in SUBSET Int /\ \A d \in usable : d >= first
    BY <1>1, TimeAssumption
  <2>2. pick \in usable
    <3> HIDE DEF usable, first
    <3> QED BY <1>1, <1>4, <2>1, LeastOfIsLeast
  <2>3. /\ pick \in Int
        /\ dayPartsFor(c, kind, pick) # {}
        /\ PartInstant(c, kind, pick) >= asOf - Grace
    BY <2>1, <2>2
  <2>4. PartInstant(c, kind, pick) \in Int
    <3> HIDE DEF pick
    <3> QED BY <2>3, PartInstantType
  <2>5. Sound(Ok(PartInstant(c, kind, pick), ZoneOfDate(c, pick)), asOf)
    <3> HIDE DEF pick
    <3> QED BY <2>3, <2>4, OkSound
  <2> QED BY <1>4, <2>5 DEF AtDaypart
<1> QED BY <1>2, <1>3, <1>4

\* Where a named night lies, whenever it is asked.
NightOf(c, kind, date) ==
  IF dayPartsFor(c, kind, date) # {} THEN PartInstant(c, kind, date)
  ELSE resolveWallClock(date, DefaultWall, ZoneOfDate(c, date))

LEMMA NightType ==
  ASSUME NEW c, IsContext(c), NEW kind, NEW date \in Int
  PROVE  NightOf(c, kind, date) \in Int
<1>1. resolveWallClock(date, DefaultWall, ZoneOfDate(c, date)) \in Int
  <2>1. DefaultWall \in Int
    BY TimeAssumption
  <2> QED BY <2>1, ZoneOfDateType, WallClockType
<1> QED BY <1>1, PartInstantType DEF NightOf

LEMMA OnLocalDateCases ==
  ASSUME NEW c, NEW kind, NEW date, NEW asOf
  PROVE  OnLocalDate(c, kind, date, asOf) =
           IF NightOf(c, kind, date) < asOf - Grace THEN Skip("target_in_past")
           ELSE Ok(NightOf(c, kind, date), ZoneOfDate(c, date))
BY DEF OnLocalDate, NightOf

LEMMA OnLocalDateSound ==
  ASSUME NEW c, IsContext(c), NEW kind, NEW date \in Int, NEW asOf \in Int
  PROVE  /\ Sound(OnLocalDate(c, kind, date, asOf), asOf)
         /\ OnLocalDate(c, kind, date, asOf).ok =>
              OnLocalDate(c, kind, date, asOf).at = NightOf(c, kind, date)
<1> DEFINE t == NightOf(c, kind, date)
<1>1. t \in Int
  BY NightType
<1> HIDE DEF t
<1>2. CASE t < asOf - Grace
  BY <1>2, OnLocalDateCases, SkipSound DEF t
<1>3. CASE ~(t < asOf - Grace)
  <2>1. t >= asOf - Grace
    BY <1>1, <1>3, TimeAssumption
  <2>2. OnLocalDate(c, kind, date, asOf) = Ok(t, ZoneOfDate(c, date))
    BY <1>3, OnLocalDateCases DEF t
  <2>3. Sound(Ok(t, ZoneOfDate(c, date)), asOf)
    BY <1>1, <2>1, OkSound
  <2> QED BY <2>2, <2>3 DEF Ok, t
<1> QED BY <1>2, <1>3

\* A night asked about at its own instant is not past and is that instant.
LEMMA NightIsStable ==
  ASSUME NEW c, IsContext(c), NEW kind, NEW date \in Int
  PROVE  OnLocalDate(c, kind, date, NightOf(c, kind, date)).at = NightOf(c, kind, date)
<1> DEFINE t == NightOf(c, kind, date)
<1>1. t \in Int
  BY NightType
<1> HIDE DEF t
<1>2. ~(t < t - Grace)
  BY <1>1, TimeAssumption
<1> QED BY <1>2, OnLocalDateCases DEF Ok, t

LEMMA ReachableStartsType ==
  ASSUME NEW c, IsContext(c), NEW d \in Int, NEW t \in Int
  PROVE  /\ ReachableStarts(c, d, t) \in SUBSET Int
         /\ \A s \in ReachableStarts(c, d, t) : s >= t
<1>1. ZoneOfDate(c, d) \in Int
  BY ZoneOfDateType
<1>2. \A p \in c.parts : resolveWallClock(d, p.wall, ZoneOfDate(c, d)) \in Int
  BY <1>1, WallClockType DEF IsContext
<1> QED BY <1>2 DEF ReachableStarts

LEMMA NextReachableWindowSound ==
  ASSUME NEW c, IsContext(c), NEW from \in Int
  PROVE  /\ Sound(nextReachableWindow(c, from), from)
         /\ nextReachableWindow(c, from).ok => nextReachableWindow(c, from).at >= from
<1> DEFINE utc  == from \div Day
           hits == {d \in utc..(utc + Horizon - 1) : ReachableStarts(c, d, from) # {}}
           day  == LeastOf(hits)
           at   == LeastOf(ReachableStarts(c, day, from))
<1>1. utc \in Int
  BY TimeAssumption
<1>2. CASE hits = {}
  BY <1>2, SkipSound DEF nextReachableWindow
<1>3. CASE hits # {}
  <2>1. hits \in SUBSET Int /\ \A d \in hits : d >= utc
    BY <1>1, TimeAssumption
  <2>2. day \in hits
    <3> HIDE DEF hits, utc
    <3> QED BY <1>1, <1>3, <2>1, LeastOfIsLeast
  <2>3. day \in Int /\ ReachableStarts(c, day, from) # {}
    BY <2>1, <2>2
  <2>4. at \in ReachableStarts(c, day, from)
    <3> HIDE DEF day
    <3> QED BY <2>3, ReachableStartsType, LeastOfIsLeast
  <2>5. at \in Int /\ at >= from
    <3> HIDE DEF day, at
    <3> QED BY <2>3, <2>4, ReachableStartsType
  <2>6. nextReachableWindow(c, from) = Ok(at, ZoneOfDate(c, day))
    BY <1>3 DEF nextReachableWindow
  <2>7. at >= from - Grace
    <3> HIDE DEF at
    <3> QED BY <2>5, TimeAssumption
  <2> HIDE DEF at
  <2> QED BY <2>5, <2>6, <2>7, OkSound DEF Ok
<1> QED BY <1>2, <1>3
-----------------------------------------------------------------------------
(* materialize() as a whole. *)

IsIntent(i) ==
  /\ i.expires \in Int
  /\ i.policy \in {"immediate", "at_instant", "at_daypart", "on_local_date",
                   "when_reachable", "on_event"}
  /\ {i.date, i.instant} \subseteq Int \cup {NoDate}
  /\ i.policy = "on_local_date" => i.date # NoDate
  /\ i.policy = "at_instant" => i.instant # NoDate

\* materialize.ts, PAST_GRACE_MINUTES: whatever the intent, the timeline, the
\* schedule and the instant, materialize() decides, on an integer instant, and
\* schedules nothing more than Grace late, nothing for an intent that has
\* expired and nothing for one in a terminal state.
THEOREM NothingDumpedLate ==
  ASSUME NEW i, IsIntent(i), NEW c, IsContext(c), NEW asOf \in Int
  PROVE  /\ Sound(materialize(i, c, asOf), asOf)
         /\ materialize(i, c, asOf).ok => asOf < i.expires /\ i.state \notin Terminal
<1> DEFINE res == materialize(i, c, asOf)
<1>1. CASE i.state \in Terminal
  BY <1>1, SkipSound DEF materialize
<1>2. CASE i.state \notin Terminal /\ i.expires <= asOf
  BY <1>2, SkipSound DEF materialize
<1>3. CASE i.state \notin Terminal /\ ~(i.expires <= asOf)
  <2>1. asOf < i.expires
    BY <1>3 DEF IsIntent
  <2>2. CASE i.policy = "immediate"
    <3>1. asOf >= asOf - Grace
      BY TimeAssumption
    <3> QED BY <1>3, <2>1, <2>2, <3>1, OkSound DEF materialize
  <2>3. CASE i.policy = "at_instant"
    BY <1>3, <2>1, <2>3, AtInstantSound DEF materialize, IsIntent
  <2>4. CASE i.policy = "at_daypart"
    BY <1>3, <2>1, <2>4, AtDaypartSound DEF materialize, IsIntent
  <2>5. CASE i.policy = "on_local_date"
    BY <1>3, <2>1, <2>5, OnLocalDateSound DEF materialize, IsIntent
  <2>6. CASE i.policy = "when_reachable"
    BY <1>3, <2>1, <2>6, NextReachableWindowSound DEF materialize
  <2>7. CASE i.policy = "on_event"
    BY <1>3, <2>1, <2>7, AtInstantSound, SkipSound DEF materialize, IsIntent
  <2>8. Sound(res, asOf)
    BY <2>2, <2>3, <2>4, <2>5, <2>6, <2>7 DEF IsIntent
  <2> QED BY <1>3, <2>1, <2>8
<1> QED BY <1>1, <1>2, <1>3

\* A named night that is scheduled at all is scheduled at its own instant.
LEMMA NamedNightAt ==
  ASSUME NEW i, IsIntent(i), i.policy = "on_local_date", NEW c, IsContext(c),
         NEW asOf \in Int, materialize(i, c, asOf).ok
  PROVE  materialize(i, c, asOf).at = NightOf(c, i.kind, i.date)
<1>1. i.state \notin Terminal /\ ~(i.expires <= asOf)
  BY SkipSound DEF materialize
<1>2. materialize(i, c, asOf) = OnLocalDate(c, i.kind, i.date, asOf)
  BY <1>1 DEF materialize
<1> QED BY <1>2, OnLocalDateSound DEF IsIntent

\* materialize.ts, on_local_date: a named night never moves.  Asked at any two
\* instants, materialize() schedules it at one and the same, or not at all.
THEOREM NamedNightFixed ==
  ASSUME NEW i, IsIntent(i), i.policy = "on_local_date", NEW c, IsContext(c),
         NEW t \in Int, NEW u \in Int,
         materialize(i, c, t).ok, materialize(i, c, u).ok
  PROVE  materialize(i, c, t).at = materialize(i, c, u).at
BY NamedNightAt

\* materialize.ts, on_local_date: once the night is past it stays past.
THEOREM NamedNightStaysPast ==
  ASSUME NEW i, IsIntent(i), i.policy = "on_local_date", NEW c, IsContext(c),
         NEW t \in Int, NEW u \in Int, t <= u, materialize(i, c, t).reason = "target_in_past"
  PROVE  ~materialize(i, c, u).ok
<1> DEFINE night == NightOf(c, i.kind, i.date)
<1>1. night \in Int
  BY NightType DEF IsIntent
<1>2. i.state \notin Terminal /\ ~(i.expires <= t)
  BY DEF materialize, Skip
<1>3. materialize(i, c, t) = OnLocalDate(c, i.kind, i.date, t)
  BY <1>2 DEF materialize
<1>4. night < t - Grace
  BY <1>3, OnLocalDateCases DEF Ok
<1> HIDE DEF night
<1>5. night < u - Grace
  BY <1>1, <1>4, TimeAssumption
<1>6. ~OnLocalDate(c, i.kind, i.date, u).ok
  BY <1>5, OnLocalDateCases DEF Skip, night
<1>7. CASE i.state \in Terminal \/ i.expires <= u
  BY <1>7, SkipSound DEF materialize
<1>8. CASE i.state \notin Terminal /\ ~(i.expires <= u)
  <2>1. materialize(i, c, u) = OnLocalDate(c, i.kind, i.date, u)
    BY <1>8 DEF materialize
  <2> QED BY <1>6, <2>1
<1> QED BY <1>7, <1>8

-----------------------------------------------------------------------------
(* A moment of her day. *)

\* Every day-part of the kind begins at one wall clock, and her zones lie no more
\* than a day apart: what a slot of a later date needs to be a later slot.
OneWallClock(c, kind) == \A p, q \in c.parts : p.kind = kind /\ q.kind = kind => p.wall = q.wall
ZonesWithinADay(c) == \A t, u \in Int : resolveZone(c, t) <= resolveZone(c, u) + Day

\* All the slots, on the dates she can still reach, that are not past.
SlotsAhead(c, kind, asOf) ==
  {t \in {PartInstant(c, kind, d) : d \in
            {e \in LocalDate(c, asOf)..(LocalDate(c, asOf) + 2 * Horizon) : dayPartsFor(c, kind, e) # {}}} :
     t >= asOf - Grace}

LEMMA LaterDateLaterSlot ==
  ASSUME NEW c, IsContext(c), NEW kind, OneWallClock(c, kind), ZonesWithinADay(c),
         NEW d \in Int, NEW e \in Int, d <= e,
         dayPartsFor(c, kind, d) # {}, dayPartsFor(c, kind, e) # {}
  PROVE  PartInstant(c, kind, d) <= PartInstant(c, kind, e)
<1> DEFINE p == CHOOSE x \in dayPartsFor(c, kind, d) : TRUE
           q == CHOOSE x \in dayPartsFor(c, kind, e) : TRUE
<1>1. p \in c.parts /\ p.kind = kind /\ q \in c.parts /\ q.kind = kind
  BY DEF dayPartsFor
<1>2. p.wall = q.wall /\ p.wall \in Int
  BY <1>1 DEF OneWallClock, IsContext
<1>3. /\ PartInstant(c, kind, d) = resolveWallClock(d, p.wall, ZoneOfDate(c, d))
      /\ PartInstant(c, kind, e) = resolveWallClock(e, q.wall, ZoneOfDate(c, e))
  BY DEF PartInstant
<1> HIDE DEF p, q
<1>4. CASE d = e
  <2>1. PartInstant(c, kind, d) \in Int
    BY PartInstantType
  <2> QED BY <1>4, <2>1
<1>5. CASE d # e
  <2> DEFINE w == p.wall
             y == ZoneOfDate(c, d)
             z == ZoneOfDate(c, e)
             n == Day
  <2>1. y \in Int /\ z \in Int /\ n \in Nat \ {0}
    BY ZoneOfDateType, TimeAssumption
  <2>2. y <= z + n
    <3>1. d * Day + Day \div 2 \in Int /\ e * Day + Day \div 2 \in Int
      BY TimeAssumption
    <3> QED BY <3>1 DEF ZonesWithinADay, ZoneOfDate
  <2>3. PartInstant(c, kind, d) = d * n + w + y /\ PartInstant(c, kind, e) = e * n + w + z
    BY <1>2, <1>3 DEF resolveWallClock
  <2>4. w \in Int
    BY <1>2
  <2> HIDE DEF w, y, z, n
  <2>5. \E k \in Nat : e = d + 1 + k
    <3>1. e - d - 1 \in Nat /\ e = d + 1 + (e - d - 1)
      BY <1>5
    <3> QED BY <3>1
  <2>6. PICK k \in Nat : e = d + 1 + k
    BY <2>5
  <2>7. e * n = d * n + n + k * n /\ k * n \in Nat /\ d * n \in Int
    BY <2>1, <2>6
  <2>8. PICK a \in Int, b \in Nat : a = d * n /\ b = k * n
    BY <2>7
  <2> QED BY <2>1, <2>2, <2>3, <2>4, <2>7, <2>8
<1> QED BY <1>4, <1>5

\* materialize.ts, at_daypart: an undated intent goes to the earliest slot that is
\* not past, of all dates she can reach and not only those it looked at.
THEOREM RollsToTheEarliest ==
  ASSUME NEW c, IsContext(c), NEW kind, OneWallClock(c, kind), ZonesWithinADay(c), NEW asOf \in Int,
         AtDaypart(c, kind, NoDate, asOf).ok
  PROVE  AtDaypart(c, kind, NoDate, asOf).at = LeastOf(SlotsAhead(c, kind, asOf))
<1> DEFINE first  == FirstDate(c, NoDate, asOf)
           probed == {d \in first..(first + Horizon - 1) : dayPartsFor(c, kind, d) # {}}
           usable == {d \in probed : PartInstant(c, kind, d) >= asOf - Grace}
           pick   == LeastOf(usable)
           slots  == SlotsAhead(c, kind, asOf)
<1>1. first \in Int /\ first = LocalDate(c, asOf)
  BY LocalDateType DEF FirstDate
<1>2. usable # {} /\ AtDaypart(c, kind, NoDate, asOf).at = PartInstant(c, kind, pick)
  <2>1. CASE usable = {}
    BY <2>1, SkipSound DEF AtDaypart
  <2>2. CASE usable # {}
    BY <2>2 DEF AtDaypart, Ok
  <2> QED BY <2>1, <2>2
<1>3. usable \in SUBSET Int /\ \A d \in usable : d >= first
  BY <1>1, TimeAssumption
<1>4. pick \in usable /\ \A d \in usable : pick <= d
  <2> HIDE DEF usable, first
  <2> QED BY <1>1, <1>2, <1>3, LeastOfIsLeast
<1>5. /\ pick \in first..(first + Horizon - 1) /\ dayPartsFor(c, kind, pick) # {}
      /\ PartInstant(c, kind, pick) >= asOf - Grace
  BY <1>4
<1> HIDE DEF pick, first
<1>6. \A d \in first..(first + Horizon - 1) : d \in first..(first + 2 * Horizon)
  BY <1>1, TimeAssumption
<1>7. PartInstant(c, kind, pick) \in slots
  <2> HIDE DEF usable
  <2> QED BY <1>1, <1>5, <1>6 DEF SlotsAhead
<1>8. ASSUME NEW t \in slots PROVE PartInstant(c, kind, pick) <= t
  <2>1. PICK e \in first..(first + 2 * Horizon) :
          dayPartsFor(c, kind, e) # {} /\ t = PartInstant(c, kind, e) /\ t >= asOf - Grace
    BY <1>1, <1>8 DEF SlotsAhead
  <2>2. e \in Int /\ pick \in Int
    BY <1>1, <1>5, TimeAssumption
  <2>3. CASE pick <= e
    BY <1>5, <2>1, <2>2, <2>3, LaterDateLaterSlot
  <2>4. CASE ~(pick <= e)
    <3>1. e \in first..(first + Horizon - 1)
      BY <1>1, <1>5, <2>1, <2>2, <2>4, TimeAssumption
    <3>2. e \in usable
      BY <2>1, <3>1
    <3> QED BY <1>4, <2>4, <3>2
  <2> QED BY <2>3, <2>4
<1>9. slots \in SUBSET Int
  <2>1. \A e \in Int : dayPartsFor(c, kind, e) # {} => PartInstant(c, kind, e) \in Int
    BY PartInstantType
  <2> QED BY <1>1, <2>1, TimeAssumption DEF SlotsAhead
<1>10. LeastOf(slots) = PartInstant(c, kind, pick)
  <2> DEFINE x == PartInstant(c, kind, pick)
             y == LeastOf(slots)
  <2>1. x \in slots /\ \A t \in slots : x <= t
    BY <1>7, <1>8
  <2> HIDE DEF x, slots
  <2>2. y \in slots /\ \A t \in slots : y <= t
    BY <2>1 DEF LeastOf
  <2>3. x \in Int /\ y \in Int /\ x <= y /\ y <= x
    BY <1>9, <2>1, <2>2
  <2> HIDE DEF y
  <2>4. x = y
    BY <2>3
  <2> QED BY <2>4 DEF x, y
<1> QED BY <1>2, <1>10

-----------------------------------------------------------------------------
(* The gate. *)

\* gate.ts: a postponement counts, is never beyond the last, and defers to an instant
\* that is not before this one, or to none.
LEMMA GatePostpones ==
  ASSUME NEW c, IsContext(c), NEW t \in Int, NEW defers \in Nat, NEW emergency \in BOOLEAN,
         ~gate(c, t, emergency, defers).allow
  PROVE  /\ defers < MaxDefers /\ gate(c, t, emergency, defers).defers = defers + 1
         /\ gate(c, t, emergency, defers).deferTo.ok => /\ gate(c, t, emergency, defers).deferTo.at \in Int
                                                   /\ gate(c, t, emergency, defers).deferTo.at >= t
<1>1. gate(c, t, emergency, defers) =
        [allow |-> FALSE, deferTo |-> nextReachableWindow(c, t), defers |-> defers + 1]
  BY DEF gate
<1>2. ~(defers >= MaxDefers)
  BY DEF gate, Exhausted
<1>3. defers < MaxDefers
  BY <1>2, TimeAssumption
<1>4. PICK w : w = nextReachableWindow(c, t)
  OBVIOUS
<1>5. w.ok => w.at \in Int /\ w.at >= t
  BY <1>4, NextReachableWindowSound DEF Sound
<1>6. gate(c, t, emergency, defers) = [allow |-> FALSE, deferTo |-> w, defers |-> defers + 1]
  BY <1>1, <1>4
<1>7. PICK g : g = gate(c, t, emergency, defers)
  OBVIOUS
<1>8. g.defers = defers + 1 /\ g.deferTo = w
  BY <1>6, <1>7
<1> QED BY <1>3, <1>5, <1>7, <1>8
=============================================================================
