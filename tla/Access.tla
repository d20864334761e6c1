------------------------------- MODULE Access -------------------------------
(***************************************************************************)
(* Api.handle(): one request on its way through authentication,            *)
(* authorization, the route's handler and the sweep, while the caller's    *)
(* guardianship may end and her device may be revoked between two awaits.  *)
(*                                                                         *)
(* A route is what it declares to the Api and the steps of its handler in  *)
(* their order: whom it turns away, what it reads, what it writes.  What   *)
(* a step writes is modelled in the module of its component; here a step   *)
(* only leaves an effect behind, or does not.                              *)
(***************************************************************************)
EXTENDS FamilyGraph, FiniteSets

CONSTANTS
  Children,    \* the children whose paths are asked for
  Sessions,    \* who may ask: records with roleName, child and device
  FirstEdges   \* the guardianships a grown-up may start with: sets of edges

VARIABLES
  edges,      \* the caller's guardianships
  revoked,    \* her device has been revoked
  today,
  request,    \* the request, and how far it has come
  effects,    \* what it has committed: in its "own" session, the "outer" one, an "attempt" used up
  stood       \* what of her standing has held at some moment since it arrived

accessVars == <<edges, revoked, today, request, effects, stood>>

LastAccessDay == 1

-----------------------------------------------------------------------------
(* What a route declares. *)

Declared(kind, action, steps) == [kind |-> kind, action |-> action, steps |-> steps, swept |-> TRUE]

\* A child's path with an action to authorize.
For(action, steps) == Declared("child", action, steps)
\* A child's path whose handler promises to check for itself.
Scoped(steps) == Declared("child", "none", steps)
\* The caller's own affairs; no child in the path.
Mine(steps) == Declared("me", "none", steps)
\* noSessionRequired.
Unsigned(steps) == Declared("open", "none", steps)

-----------------------------------------------------------------------------
(* The routes.  "grown", "named", "guardian", "either", "child" and        *)
(* "herself" look at the session; "live", "parent", "canRaw", "rowLive",   *)
(* "canCertified", "mint" and "capture" await a fresh look at the family;  *)
(* "body" and "gate" may turn the request down, and "gate" awaits what it  *)
(* looks at; "pin" counts the attempt it refuses and resets the count when *)
(* it does not, "spend" uses up a challenge or a token of the rate bucket  *)
(* when it lets the request by; "read" and "write" use a session of their  *)
(* own (a table's write is to memory), "find" and "try" may answer that    *)
(* there is nothing to do it to, and "redeem" may besides count the        *)
(* attempt on the code; "outer" writes in the session Api.handle() holds;  *)
(* "after" may still throw.                                                *)

GetMe           == Mine(<<"read">>)
DeleteMe        == Mine(<<"named", "try">>)
PostInvite      == Scoped(<<"grown", "named", "live", "body", "try">>)
GetInvite       == Unsigned(<<"find">>)
AcceptInvite    == Unsigned(<<"try">>)
RevokeInvite    == Mine(<<"named", "try">>)
BootstrapInvite == Unsigned(<<"body", "try">>)

PostChildCode   == Scoped(<<"grown", "named", "live", "pin", "write">>)
PostMyCode      == Mine(<<"grown", "pin", "write">>)
CancelCode      == Mine(<<"grown", "named", "try">>)
RedeemCode      == Unsigned(<<"body", "redeem">>)
GetDevices      == Scoped(<<"grown", "named", "live", "read">>)
RevokeDevice    == Scoped(<<"grown", "named", "live", "try">>)
VerifyControls  == Mine(<<"grown", "pin">>)

GetOverrides    == For("settings", <<"read">>)
PutOverride     == For("settings", <<"guardian", "body", "write">>)
DeleteOverride  == For("settings", <<"guardian", "write">>)
GetTheme        == For("settings", <<"read">>)
\* Mutant: a handler that writes before it looks at who is asking.
PutThemeFirst   == For("settings", <<"write", "guardian", "body">>)
PutTheme        == For("settings", <<"guardian", "body", "write">>)
GetFavorites    == For("settings", <<"read">>)
PutFavorites    == For("settings", <<"either", "body", "write">>)
PutProfile      == For("settings", <<"child", "body", "write">>)
PutAvailability == Mine(<<"guardian", "body", "write">>)

PostCall        == For("call", <<"grown", "named", "mint", "write", "after">>)
EndCall         == For("call", <<"write">>)
JoinCall        == For("call", <<"find", "mint", "after">>)
PostToken       == Mine(<<"body", "gate", "write", "after">>)
DeleteToken     == Mine(<<"body", "write">>)

GetNow          == For("calendar.view", <<"find">>)
GetCustody      == For("calendar.view", <<"find">>)
GetPresence     == For("calendar.view", <<"parent", "find">>)
GetRibbon       == For("calendar.view", <<"parent", "grown", "find">>)
GetAvailability == For("calendar.view", <<"read">>)

GetInbox        == For("message", <<"read">>)
PostOpened      == For("message", <<"herself", "outer", "write">>)
PostMessage     == For("message", <<"body", "capture", "write">>)
PostMedia       == For("message", <<"body", "write">>)
GetMedia        == For("message", <<"find">>)
GetNotes        == For("message", <<"grown", "read">>)
PostNote        == For("message", <<"grown", "named", "body", "write">>)

PostKioskPin    == Scoped(<<"herself", "body", "write">>)
PostPin         == Mine(<<"grown", "body", "try">>)
PostChallenge   == Mine(<<"grown", "write">>)
PostPasskey     == Mine(<<"grown", "body", "spend", "gate", "try">>)

PostHomework    == For("homework.annotate", <<"body", "gate", "read">>)
GetExport       == Scoped(<<"grown", "canRaw", "rowLive", "read", "write">>)
GetCertified    == Scoped(<<"grown", "canCertified", "try">>)
PostHandover    == [Scoped(<<"herself", "read", "try">>) EXCEPT !.swept = FALSE]

GetExpenses     == For("expense.view", <<"grown", "read">>)
PostExpense     == For("expense.create", <<"grown", "named", "body", "write">>)
ResolveExpense  == For("expense.resolve", <<"grown", "named", "try">>)
GetMedications  == For("medication.view", <<"grown", "read">>)
PostDose        == For("medication.log", <<"grown", "named", "body", "try">>)
GetCard         == For("emergency_card.view", <<"grown", "read">>)
PutCard         == For("emergency_card.edit", <<"grown", "named", "body", "write", "read">>)
GetBag          == For("calendar.view", <<"grown", "read">>)
PostBag         == For("calendar.edit", <<"grown", "named", "body", "try">>)
GetLate         == For("calendar.view", <<"grown", "read">>)
PostLate        == For("calendar.edit", <<"grown", "named", "body", "write">>)
GetArrival      == For("calendar.view", <<"grown", "read">>)
PostArrival     == For("calendar.edit", <<"grown", "named", "try">>)
GetCareNotes    == For("care_note.view", <<"grown", "read">>)
PostCareNote    == For("care_note.write", <<"grown", "named", "body", "try">>)

GetLetters      == For("letter", <<"child", "read">>)
PostLetter      == For("letter", <<"child", "body", "try">>)
OpenLetter      == For("letter", <<"child", "try">>)
DeleteLetter    == For("letter", <<"child", "try">>)

PostTable       == Mine(<<"body", "spend", "gate", "write">>)
JoinTable       == Mine(<<"find", "spend", "gate">>)

Endpoints ==
  {GetMe, DeleteMe, PostInvite, GetInvite, AcceptInvite, RevokeInvite, BootstrapInvite,
   PostChildCode, PostMyCode, CancelCode, RedeemCode, GetDevices, RevokeDevice, VerifyControls,
   GetOverrides, PutOverride, DeleteOverride, GetTheme, PutTheme, GetFavorites,
   PutFavorites, PutProfile, PutAvailability, PostCall, EndCall, JoinCall, PostToken, DeleteToken,
   GetNow, GetCustody, GetPresence, GetRibbon, GetAvailability, GetInbox, PostOpened, PostMessage,
   PostMedia, GetMedia, GetNotes, PostNote, PostKioskPin, PostPin, PostChallenge, PostPasskey,
   PostHomework, GetExport, GetCertified, PostHandover, GetExpenses, PostExpense, ResolveExpense,
   GetMedications, PostDose, GetCard, PutCard, GetBag, PostBag, GetLate, PostLate, GetArrival,
   PostArrival, GetCareNotes, PostCareNote, GetLetters, PostLetter, OpenLetter, DeleteLetter,
   PostTable, JoinTable}

-----------------------------------------------------------------------------
(* The request. *)

NoRequest == [at |-> "idle"]

AccessInit ==
  /\ edges \in FirstEdges
  /\ revoked \in BOOLEAN /\ today = 0 /\ request = NoRequest /\ effects = {} /\ stood = {}

IsChild == request.who.roleName = "child"

\* A guardianship of the child that is in force and not restricted.
InForce(child) ==
  \E e \in edges : e.child = child /\ ~e.restricted /\ ~Past(e.closedAt, today) /\ ~Past(e.expiresAt, today)

\* What any request for a child's path takes, whichever route it asks for: a device
\* that is not revoked, and to be this child or have a guardianship of her.
Belongs(who, child) == IF who.roleName = "child" THEN who.child = child ELSE InForce(child)
Standing(who, child) ==
  (IF who.device /\ revoked THEN {} ELSE {"device"})
    \cup (IF Belongs(who, child) THEN {"family"} ELSE {})

Here == UNCHANGED <<edges, revoked, today, stood>>

\* 400, 401 and 403 stand for what the Api answers, and for the 403 of a step that asks
\* for standing (TurnedAway); 409 for every other refusal, whatever its number: a table's
\* 403, after its token of the rate bucket, is one of those.
Replies(status) == request' = [request EXCEPT !.at = "answered", !.status = status] /\ Here
Answer(status) == Replies(status) /\ UNCHANGED effects
GoTo(at) == request' = [request EXCEPT !.at = at] /\ UNCHANGED effects /\ Here

\* A child has no guardianships, and who came without a device has none to lose.
Hers(who) == (who.roleName = "child" => edges = {}) /\ (revoked => who.device)

Arrive(who, child, route) ==
  /\ request = NoRequest /\ Hers(who)
  /\ request' = [at |-> IF route.kind = "open" THEN "body" ELSE "authenticate", who |-> who,
                 child |-> child, route |-> route, left |-> route.steps, status |-> 0, leaks |-> FALSE]
  /\ stood' = Standing(who, child)
  /\ UNCHANGED <<edges, revoked, today, effects>>

\* The token, which may be missing or expired, and the device it is bound to.
Authenticate ==
  /\ request.at = "authenticate"
  /\ \/ Answer(401)
     \/ ~(request.who.device /\ revoked) /\ GoTo("authorize")

Allowed(action) == can(action, edges, request.child, today, IsChild, TRUE) = "allow"

\* A child within her own scope, or a grown-up an edge allows the action.
Authorized ==
  IF IsChild
  THEN /\ request.who.child = request.child
       /\ can(request.route.action, {}, request.child, today, TRUE, FALSE)
            \notin {"P7_journal_never", "P6_child_financial"}
  ELSE Allowed(request.route.action)

Authorize ==
  /\ request.at = "authorize"
  /\ IF request.route.action = "none" \/ Authorized THEN GoTo("body") ELSE Answer(403)

ParseBody == request.at = "body" /\ (Answer(400) \/ GoTo("handler"))

-----------------------------------------------------------------------------
(* The handler, step by step. *)

LiveGuardian(unlapsed(_)) ==
  \E e \in edges : e.child = request.child /\ e.role = "guardian" /\ unlapsed(e)

NotEnded(e) == e.closedAt = Never /\ ~Past(e.expiresAt, today)

\* What a step that may turn the caller away asks of her.
Passes(step) ==
  CASE step = "grown"    -> ~IsChild
    [] step = "named"    -> ~IsChild
    [] step = "guardian" -> request.who.roleName = "guardian"
    [] step = "either"   -> IsChild \/ request.who.roleName = "guardian"
    [] step = "child"    -> IsChild
    [] step = "herself"  -> IsChild /\ request.who.child = request.child
    [] step = "live"     -> LiveGuardian(LAMBDA e : NotEnded(e) /\ ~e.restricted)
    [] step = "parent"   -> IsChild \/ LiveGuardian(LAMBDA e : Lapsed(e, today) = "live")
    [] step = "canRaw"   -> Allowed("export.raw")
    [] step = "rowLive"  -> LiveGuardian(LAMBDA e : Lapsed(e, today) = "live" /\ ~e.restricted)
    [] step = "canCertified" -> Allowed("export.certified")
    [] step = "mint"     -> IsChild \/ Allowed("call")
    [] step = "capture"  -> IF IsChild THEN request.who.child = request.child ELSE Allowed("message")
    [] OTHER -> TRUE

\* Steps that may refuse for what they find: the body, the PIN, the rows.
MayRefuse == {"body", "gate", "pin", "spend", "capture", "try", "redeem", "outer", "find"}

\* A session that counts an attempt commits it, whatever is answered then: a wrong PIN
\* (not a locked one, nor none at all), the wrong role for a live pairing code.
RefusalLeaves(step) ==
  {effects} \cup (IF step \in {"pin", "redeem"} THEN {effects \cup {"attempt"}} ELSE {})

StepLeaves(step) ==
  effects \cup (IF step \in {"write", "try", "redeem"} THEN {"own"} ELSE {})
          \cup (IF step \in {"pin", "spend"} THEN {"attempt"} ELSE {})

NextStep == Head(request.left)

InHandler == request.at = "handler" /\ request.left # <<>>

StepDone == [request EXCEPT !.left = Tail(@)]

TurnedAway == InHandler /\ ~Passes(NextStep) /\ Answer(403)

\* 409 stands for every refusal of what was asked, the 403 of a wrong PIN among them;
\* 403 for that of who asks.
Refuses ==
  /\ InHandler /\ Passes(NextStep) /\ NextStep \in MayRefuse
  /\ Replies(409) /\ effects' \in RefusalLeaves(NextStep)

\* A query or a service fails.
Throws == InHandler /\ NextStep \notin {"grown", "named", "guardian", "either", "child", "herself", "body"} /\ Answer(500)

\* A handler may read what no child's page may show.
TakesStep ==
  /\ InHandler /\ Passes(NextStep)
  /\ \E leaks \in IF NextStep \in {"read", "find"} THEN BOOLEAN ELSE {request.leaks} :
       request' = [StepDone EXCEPT !.leaks = leaks \/ @]
  /\ effects' = StepLeaves(NextStep)
  /\ Here

\* Who is swept: every child's answer but the handover.
Sweeps == IsChild /\ request.route.swept /\ request.route.kind # "open"

\* Mutant: the handler is not awaited.
FinishUnawaited ==
  /\ request.at = "handler"
  /\ request' = [request EXCEPT !.at = "answered", !.status = 200]
  /\ UNCHANGED effects /\ Here

\* The handler is through: COMMIT of the outer session, then the sweep, which
\* refuses the answer and leaves what was written.
Finish ==
  /\ request.at = "handler" /\ request.left = <<>>
  /\ request' = [request EXCEPT !.at = "answered",
                                !.status = IF Sweeps /\ request.leaks THEN 500 ELSE 200]
  /\ effects' = effects \cup {k \in {"outer"} : \E n \in DOMAIN request.route.steps : request.route.steps[n] = k}
  /\ Here

Handler == TurnedAway \/ Refuses \/ Throws \/ TakesStep \/ Finish

-----------------------------------------------------------------------------
(* Meanwhile. *)

Meanwhile(e2) ==
  /\ request # NoRequest /\ request.at # "answered"
  /\ UNCHANGED <<request, effects>>
  /\ stood' = stood \cup Standing(request.who, request.child)'

EdgeCloses ==
  \E e \in edges :
    /\ e.closedAt = Never
    /\ edges' = (edges \ {e}) \cup {[e EXCEPT !.closedAt = today]}
    /\ UNCHANGED <<revoked, today>>
    /\ Meanwhile(e)

EdgeRestricted ==
  \E e \in edges :
    /\ edges' = (edges \ {e}) \cup {[e EXCEPT !.restricted = ~@]}
    /\ UNCHANGED <<revoked, today>>
    /\ Meanwhile(e)

DeviceRevoked ==
  /\ ~revoked /\ revoked' = TRUE /\ UNCHANGED <<edges, today>> /\ Meanwhile({})
  /\ request.who.device

DayPasses ==
  today < LastAccessDay /\ today' = today + 1 /\ UNCHANGED <<edges, revoked>> /\ Meanwhile({})

AccessNext ==
  \/ \E who \in Sessions, child \in Children, route \in Endpoints : Arrive(who, child, route)
  \/ Authenticate \/ Authorize \/ ParseBody \/ Handler
  \/ EdgeCloses \/ EdgeRestricted \/ DeviceRevoked \/ DayPasses

-----------------------------------------------------------------------------
(* Properties. *)

Served == request.at = "answered" /\ request.status = 200
ServedForAChild == Served /\ request.route.kind = "child"

\* Values of the variables; an answer of 200 comes after every step.
AccessTypeOK ==
  /\ revoked \in BOOLEAN /\ today \in 0 .. LastAccessDay /\ effects \subseteq {"own", "outer", "attempt"}
  /\ stood \subseteq {"device", "family"}
  /\ request.at \in {"idle", "authenticate", "authorize", "body", "handler", "answered"}
  /\ request.at = "answered" => request.status \in {200, 400, 401, 403, 409, 500}
  /\ Served => request.left = <<>>

\* api.ts and routes.mjs: on a child's path, whatever the route and whichever
\* of the Api and the handler looked, a grown-up is served only with a guardianship
\* of this child that was in force at some moment since the request arrived, a child
\* only on her own path and no sibling's; and whoever signs in, with a device that was
\* not revoked by then.
ServedWithStanding ==
  /\ ServedForAChild => "family" \in stood
  /\ Served /\ request.route.kind # "open" => "device" \in stood

\* routes.mjs, "not_a_child_surface": can() turns a child away from money and the
\* journal alone; no handler forgets the rest.  Her letters are hers, and nothing
\* a child may not see leaves the server except in the bundle she takes along.
AdultsOnly ==
  /\ ServedForAChild /\ IsChild =>
       request.route.action \notin
         {"expense.view", "expense.create", "expense.resolve", "medication.view", "medication.log",
          "emergency_card.view", "emergency_card.edit", "care_note.view", "care_note.write",
          "calendar.edit"}
  /\ ServedForAChild /\ request.route.action = "letter" => IsChild
  /\ Served /\ request.route.kind # "open" /\ IsChild /\ request.leaks => request.route = PostHandover

\* routes.mjs: who asks without the standing for it uses up nothing, not even an attempt
\* at a PIN or a challenge; and a request refused for what it asks has at most used up an
\* attempt.  What it came to do is left undone: only a failure, or the sweep, may come
\* after that.
RefusedLeavesOnlyTheAttempt ==
  request.at = "answered" =>
    /\ request.status \in {400, 401, 403} => effects = {}
    /\ request.status = 409 => effects \subseteq {"attempt"}

\* api.ts and routes.mjs: a request is served to one who had standing for it, shows a
\* child nothing kept from her, and when it is refused has left at most an attempt.
ServedInOrder == ServedWithStanding /\ AdultsOnly /\ RefusedLeavesOnlyTheAttempt
=============================================================================
