----------------------------- MODULE MCHousehold -----------------------------
(***************************************************************************)
(* What the two homes of a child do through the API: invitations, calls,   *)
(* the handover log and its exports, coming of age, lists replaced as a    *)
(* whole, doses and letters, and the rows both homes may write.  The       *)
(* components share no state; a behaviour is focused on one of them and    *)
(* the others keep still in their initial state.                           *)
(***************************************************************************)
EXTENDS Invites, Calls, Records, ChildRecords, SharedRows,
  HouseDay, TLC

CONSTANTS Jacket, Camp, Ada, Ben, Mum, Dad

VARIABLE focus

Component == {"invites", "calls", "records", "windows", "favorites", "doses", "shared",
  "theme", "arrival", "note", "hours"}

\* Which of two siblings each addressed row belongs to.
Siblings == (Jacket :> Ada) @@ (Camp :> Ben)

\* One guardian of each of the two.
EdgesOfDay == {<<Mum, Ada>>, <<Dad, Ben>>}

HouseholdInit ==
  /\ focus \in Component
  /\ InviteInit /\ CallsInit /\ RecordsInit /\ ReplaceInit /\ ChildRecordsInit /\ SharedInit
  /\ HouseDayInit
  /\ focus # "invites" => app_user = {}
  /\ focus # "calls" => edge = [g \in Caller |-> OwnScope]

HouseholdNext ==
  /\ UNCHANGED focus
  /\ \/ focus = "invites" /\ InviteNext
     \/ focus # "invites" /\ UNCHANGED inviteVars
  /\ \/ focus = "calls" /\ CallsNext
     \/ focus # "calls" /\ UNCHANGED callVars
  /\ \/ focus = "records" /\ RecordsNext
     \/ focus # "records" /\ UNCHANGED recordVars
  /\ \/ focus = "windows" /\ AvailabilityNext
     \/ focus = "favorites" /\ FavoritesNext
     \/ focus \notin {"windows", "favorites"} /\ UNCHANGED replaceVars
  /\ \/ focus = "doses" /\ ChildRecordsNext
     \/ focus # "doses" /\ UNCHANGED childRecordVars
  /\ \/ focus = "shared" /\ SharedNext
     \/ focus # "shared" /\ UNCHANGED sharedVars
  /\ \/ HouseNext({focus} \cap HouseOps) /\ focus \in HouseOps
     \/ focus \notin HouseOps /\ UNCHANGED houseVars

HouseholdVars ==
  <<focus, inviteVars, callVars, recordVars, replaceVars, childRecordVars, sharedVars,
    houseVars>>

HouseholdSpec == HouseholdInit /\ [][HouseholdNext]_HouseholdVars /\ RecordsFairness

\* pool.ts, setGameFavoriteKinds: the key of guardian_game_favorite holds of her
\* favourites; her windows have no such key.
FavoritesStarredOnce == focus = "favorites" => KindStarredOnce

-----------------------------------------------------------------------------
\* Every component keeps the types of its state.
HouseholdTypeOK ==
  InviteTypeOK /\ CallsTypeOK /\ RecordsTypeOK /\ ReplaceTypeOK /\ ChildRecordsTypeOK

\* pool.ts: rows two people write at once are rows one of them wrote: a dose is
\* given once and refused because of a real one, a letter opens once, a kind is
\* starred once, the last word stands, and a card is one save of her own child; and
\* of a day between two homes: her theme and the hours are her own guardians', a delay
\* is the one there was, and a note of care is read until it fades.
RowsAreWhole ==
  /\ GivenOnce /\ RefusedByARealDose /\ LetterOpensOnce
  /\ FavoritesStarredOnce /\ LastWordStands /\ OwnChildOnly /\ CardIsOneSave
  /\ ThemeByHerGuardians /\ HoursAreOfHers /\ DelayIsTrue /\ NotesFade

\* pool.ts: what is over stays over and as it was written: the instants of an
\* invite, the end of a call, the parents' access; a list sent alone is stored as sent.
OverIsOver == [][InviteInstantsFinal /\ EndedOnce /\ SentAloneIsWhole /\ NoAccessAfterHandover]_HouseholdVars
=============================================================================
