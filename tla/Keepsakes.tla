------------------------------ MODULE Keepsakes ------------------------------
(***************************************************************************)
(* What is kept of her growing up: letters sealed for a later age, the     *)
(* archive and the gallery she arranges, the things she shows and the      *)
(* interests they keep alive, the lessons she asks for again (packages     *)
(* maturation and showcase, and the state play.ts hands them).  Times are  *)
(* days; the words of a prompt or a caption are left out.                  *)
(***************************************************************************)
EXTENDS Integers, Sequences, FiniteSets
LOCAL INSTANCE SequencesExt

CONSTANTS
  WrittenAtAge, MIN_SEAL_YEARS, MAX_SEAL_TO_AGE,
  MaxLetters,
  Item,                   \* the archive
  Era, Caption, NoCaption,
  MadeAt,                 \* the works of the gallery, each by the day it was made
  GalleryYear,            \* days of a year, for the rooms
  MIN_WORKS_FOR_EXHIBITION,
  RECEDE_AFTER_DAYS, LastShowDay, MaxShows, MaxInterests,
  TemplatesPerKind, GenericPerKind, PromptLimit,
  MaxLessons

ASSUME KeepsakesAssumption ==
  /\ MIN_SEAL_YEARS \in Nat \ {0} /\ WrittenAtAge \in Nat /\ MAX_SEAL_TO_AGE \in Nat
  /\ GalleryYear \in Nat \ {0} /\ RECEDE_AFTER_DAYS \in Nat \ {0} /\ MadeAt \subseteq Nat
  /\ MIN_WORKS_FOR_EXHIBITION \in Nat \ {0} /\ PromptLimit \in Nat /\ GenericPerKind \in Nat
  /\ Item \cap MadeAt = {}

VARIABLES
  sealedLetters, lettersWritten,  \* the letters, and how many she has ever sealed
  archive,                \* ArchiveItem: [hidden, era, byGuardian, byChild]
  hungAway,               \* Work.hiddenByChild, as the set of works
  putAway, wrote,         \* history: her last word on each item and her captions
  showDay,
  interests,              \* Seq of the day an interest was added or last shown
  shows,                  \* Seq of [day, interest, reply]
  entries,                \* the names in her collection, in lower case
  lessons                 \* Seq of [askedAgain]

letterVars == <<sealedLetters, lettersWritten>>
archiveVars == <<archive, hungAway, putAway, wrote>>
showVars == <<showDay, interests, shows, entries>>
keepVars == <<letterVars, archiveVars, showVars, lessons>>

NotYet == 0               \* openedAt, reply: null
NoEra == "no era"
Names == {"stegosaurus", "diplodocus"}

KeepsakesInit ==
  /\ sealedLetters = <<>> /\ lettersWritten = 0
  /\ archive \in [Item -> [hidden : {FALSE}, era : {NoEra}, byGuardian : Caption \cup {NoCaption},
                            byChild : {NoCaption}]]
  /\ hungAway \in {{}} \cup {{w} : w \in MadeAt}
  /\ putAway = hungAway /\ wrote = [k \in Item |-> NoCaption]
  /\ showDay = RECEDE_AFTER_DAYS /\ interests = <<RECEDE_AFTER_DAYS, 0>> /\ shows = <<>>
  /\ entries = {} /\ lessons = <<>>

-----------------------------------------------------------------------------
(* Letters to her future self. *)

sealLetter(openAt) ==
  /\ openAt - WrittenAtAge >= MIN_SEAL_YEARS /\ openAt <= MAX_SEAL_TO_AGE
  /\ lettersWritten < MaxLetters /\ lettersWritten' = lettersWritten + 1
  /\ sealedLetters' = Append(sealedLetters, [id |-> lettersWritten + 1, openAtAge |-> openAt, openedAt |-> NotYet])

MayOpenEarly(l, atAge) == l.openedAt = NotYet /\ atAge >= l.openAtAge - 1
MayOpen(l, atAge) == l.openedAt = NotYet /\ atAge >= l.openAtAge

\* The first letter is the one tried, at the age she has then.
letterTryOpen(atAge) ==
  /\ sealedLetters # <<>> /\ MayOpen(Head(sealedLetters), atAge)
  /\ sealedLetters' = <<[Head(sealedLetters) EXCEPT !.openedAt = atAge]>> \o Tail(sealedLetters)
  /\ UNCHANGED lettersWritten

\* Hers alone to delete, sealed or not.
deleteLetter(id, actor) ==
  /\ actor = "child" /\ \E k \in DOMAIN sealedLetters : sealedLetters[k].id = id
  /\ sealedLetters' = SelectSeq(sealedLetters, LAMBDA l : l.id # id)
  /\ UNCHANGED lettersWritten

lettersDue(atAge) == {sealedLetters[k].id : k \in {j \in DOMAIN sealedLetters : MayOpen(sealedLetters[j], atAge)}}

LettersKept ==
  \/ \E openAt \in WrittenAtAge..MAX_SEAL_TO_AGE + 1 : sealLetter(openAt)
  \/ \E atAge \in WrittenAtAge..MAX_SEAL_TO_AGE : letterTryOpen(atAge)
  \/ \E id \in 1..MaxLetters, actor \in {"child", "guardian"} : deleteLetter(id, actor)

-----------------------------------------------------------------------------
(* The archive and the gallery: hers to arrange, nobody else's.            *)

MayCurateAny(actor) == TRUE
MayCurate(actor) == actor # "guardian"
Same == [hidden |-> {}, era |-> {}, caption |-> {}]      \* a change that gives none of the three
Given(field, old) == IF field = {} THEN old ELSE CHOOSE v \in field : TRUE

\* A change carries at most one value for each field; an era may be given as none.
curate(id, actor, change) ==
  /\ MayCurate(actor)
  /\ archive' = [archive EXCEPT ![id].hidden = Given(change.hidden, @), ![id].era = Given(change.era, @),
                                ![id].byChild = Given(change.caption, @)]
  /\ putAway' = IF change.hidden = {} \/ actor # "child" THEN putAway
                ELSE IF TRUE \in change.hidden THEN putAway \cup {id} ELSE putAway \ {id}
  /\ wrote' = IF actor = "child" THEN [wrote EXCEPT ![id] = Given(change.caption, @)] ELSE wrote
  /\ UNCHANGED hungAway

displayCaption(id) == IF archive[id].byChild # NoCaption THEN archive[id].byChild ELSE archive[id].byGuardian
archiveView(viewer) == {id \in Item : viewer = "child" \/ ~archive[id].hidden}

hideWork(w, actor, hidden) ==
  /\ MayCurate(actor)
  /\ hungAway' = IF hidden THEN hungAway \cup {w} ELSE hungAway \ {w}
  /\ putAway' = IF actor # "child" THEN putAway ELSE IF hidden THEN putAway \cup {w} ELSE putAway \ {w}
  /\ UNCHANGED <<archive, wrote>>

YearOf(w) == w \div GalleryYear
NewestFirst(ws) == SetToSortSeq(ws, >)

HangsAnyway(w, viewer) == TRUE
HangsFor(w, viewer) == viewer = "child" \/ w \notin hungAway

\* A room for each year, the newest year first, in each the newest work first.
gallery(viewer) ==
  LET visible == {w \in MadeAt : HangsFor(w, viewer)}
      years == NewestFirst({YearOf(w) : w \in visible})
  IN  [k \in DOMAIN years |-> [year |-> years[k], works |-> NewestFirst({w \in visible : YearOf(w) = years[k]})]]

\* The plates of the bound volume, oldest first; too few make none.
compileExhibition ==
  LET shown == MadeAt \ hungAway IN
  IF Cardinality(shown) < MIN_WORKS_FOR_EXHIBITION THEN <<>> ELSE SetToSortSeq(shown, <)

Change ==
  {[Same EXCEPT !.hidden = {h}] : h \in BOOLEAN} \cup {[Same EXCEPT !.era = {e}] : e \in Era \cup {NoEra}}
  \cup {[Same EXCEPT !.caption = {n}] : n \in Caption}

ArchiveKept ==
  \E actor \in {"child", "guardian"} :
    \/ \E id \in Item, change \in Change : curate(id, actor, change)
    \/ \E w \in MadeAt, hidden \in BOOLEAN : hideWork(w, actor, hidden)

-----------------------------------------------------------------------------
(* Show me: a show keeps the first interest alive, and is answered once.   *)

DayGoesBy == showDay < LastShowDay /\ showDay' = showDay + 1 /\ UNCHANGED <<interests, shows, entries>>

activeInterests == {k \in DOMAIN interests : showDay - interests[k] < RECEDE_AFTER_DAYS}
recededInterests == {k \in DOMAIN interests : showDay - interests[k] >= RECEDE_AFTER_DAYS}

\* How many prompts are offered: those of the active interests, then the generic.
promptsFor ==
  LET all == Cardinality(activeInterests) * TemplatesPerKind + GenericPerKind IN
  IF all < PromptLimit THEN all ELSE PromptLimit

scAddInterest ==
  /\ Len(interests) < MaxInterests /\ interests' = Append(interests, showDay)
  /\ UNCHANGED <<showDay, shows, entries>>

markShownOnce(k) == [interests EXCEPT ![k] = IF showDay - @ < RECEDE_AFTER_DAYS THEN showDay ELSE @]
markShown(k) == [interests EXCEPT ![k] = showDay]

\* The driver's shows are all about the first interest.
scShow ==
  /\ Len(shows) < MaxShows
  /\ shows' = Append(shows, [day |-> showDay, interest |-> 1, reply |-> NotYet])
  /\ interests' = markShown(1)
  /\ UNCHANGED <<showDay, entries>>

MayReplyAgain(s) == TRUE
MayReply(s) == s.reply = NotYet

\* The newest show is the one answered, with a thing and never with nothing.
scReply ==
  /\ shows # <<>> /\ MayReply(Last(shows))
  /\ shows' = [shows EXCEPT ![Len(shows)].reply = showDay]
  /\ UNCHANGED <<showDay, interests, entries>>

addToCollection(name) ==
  /\ name \notin entries /\ entries' = entries \cup {name}
  /\ UNCHANGED <<showDay, interests, shows>>

ShowsKept == DayGoesBy \/ scAddInterest \/ scShow \/ scReply \/ \E name \in Names : addToCollection(name)

-----------------------------------------------------------------------------
(* Lessons: one she asks to be taught again is kept. *)

teach == Len(lessons) < MaxLessons /\ lessons' = Append(lessons, 0)
askAgain(k) == k \in DOMAIN lessons /\ lessons[k] < 2 /\ lessons' = [lessons EXCEPT ![k] = @ + 1]
lessonArtifact(k) == lessons[k] >= 1
LessonsKept == teach \/ \E k \in 1..MaxLessons : askAgain(k)

-----------------------------------------------------------------------------
(* Properties. *)

\* maturation.ts, openLetter: nobody reads a letter before the age it was sealed
\* for, whatever she deleted or opened meanwhile, and one that is due stays due
\* with every year until it is opened.
SealedUntilHerAge ==
  /\ \A k \in DOMAIN sealedLetters :
       LET l == sealedLetters[k] IN
       /\ l.openAtAge \in WrittenAtAge + MIN_SEAL_YEARS..MAX_SEAL_TO_AGE
       /\ l.openedAt # NotYet => l.openedAt >= l.openAtAge /\ l.id \notin lettersDue(MAX_SEAL_TO_AGE)
  /\ \A a \in WrittenAtAge..MAX_SEAL_TO_AGE - 1 : lettersDue(a) \subseteq lettersDue(a + 1)

\* rungs.ts, curate, and exchange.ts, hideWork: what a guardian sees is exactly what
\* she last left showing, nothing she put away is gone for herself, and her words
\* stand under it where she has written any.
HersToArrange ==
  /\ archiveView("guardian") = Item \ putAway /\ archiveView("child") = Item
  /\ \A id \in Item : wrote[id] # NoCaption => displayCaption(id) = wrote[id]
  /\ hungAway = putAway \cap MadeAt

\* exchange.ts, gallery and compileExhibition: the volume holds what a guardian sees
\* in the rooms, each work once, and reads the other way round.
ExhibitionIsTheGallery ==
  LET rooms == gallery("guardian")
      hung == FlattenSeq([k \in DOMAIN rooms |-> rooms[k].works])
  IN  /\ ToSet(hung) = MadeAt \ putAway
      /\ compileExhibition \in {<<>>, Reverse(hung)}
      /\ compileExhibition = <<>> => Len(hung) < MIN_WORKS_FOR_EXHIBITION

\* showcase.ts, markShown: an interest goes on prompting until so many days after
\* it was last shown, also one that had receded; she is never left without a
\* prompt; each day finds an interest either active or receded.
ShownIsAlive ==
  /\ \A k \in DOMAIN shows : showDay - shows[k].day < RECEDE_AFTER_DAYS => shows[k].interest \in activeInterests
  /\ activeInterests \cup recededInterests = DOMAIN interests
  /\ activeInterests \cap recededInterests = {}
  /\ PromptLimit > 0 /\ GenericPerKind > 0 => promptsFor > 0

\* showcase.ts, replyToShow, and family.ts, lessonArtifact: what was kept is not
\* taken away by what follows: a show and the reply to it, an opened letter she has
\* not deleted, a lesson she asked for, a thing in her collection.
KeptStaysKept ==
  [/\ \A k \in DOMAIN shows :
        /\ k \in DOMAIN shows' /\ shows'[k].day = shows[k].day
        /\ shows[k].reply # NotYet => shows'[k].reply = shows[k].reply
   /\ \A j \in DOMAIN sealedLetters, k \in DOMAIN sealedLetters' :
        sealedLetters'[k].id = sealedLetters[j].id =>
          \/ sealedLetters'[k] = sealedLetters[j]
          \/ sealedLetters[j].openedAt = NotYet
   /\ \A k \in DOMAIN lessons : lessonArtifact(k) => k \in DOMAIN lessons' /\ lessons'[k] >= lessons[k]
   /\ entries \subseteq entries']_keepVars

=============================================================================
