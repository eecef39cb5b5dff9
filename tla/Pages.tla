-------------------------------- MODULE Pages --------------------------------
(***************************************************************************)
(* What the pages show of the catalogue, and to whom.                      *)
(*                                                                         *)
(* A request reads who is asking and the services they may see (its scope) *)
(* first, then runs the statements of its page one after the other, while  *)
(* the team changes the catalogue in between.  Reading changes nothing, so *)
(* a page is an operator: what its statements return if they run now, with *)
(* the scope read when the request began.  The invariants quantify over    *)
(* every such moment, hence over every order of the statements.            *)
(*                                                                         *)
(* A page is the set of services it names and of events it tells of.       *)
(* Which kinds, states and dates a list wants, and how many rows it keeps, *)
(* are left out: every list is taken whole, the most it can show.          *)
(***************************************************************************)
EXTENDS Catalogue

VARIABLE seen  \* the services the people the answer may reach could see at
               \* some moment since the request began (history variable)

vars == <<catalogue, seen>>

Visitor == "visitor"
Member == "any member"

(* Neither is an account.                                                  *)
ASSUME NotAccounts == {Visitor, Member} \cap Users = {}

-----------------------------------------------------------------------------
(* Scopes                                                                  *)

All == [all |-> TRUE, ids |-> {}]

(* The ids this reader may see.                                            *)
VisibleIds(u) ==
  {s \in known :
     \/ setting[s].mode = "everyone"
     \/ /\ u # Visitor
        /\ \/ setting[s].mode = "members"
           \/ \E g \in setting[s].groups : u \in belongs[g]
           \/ u \in setting[s].members}

MemberVisibleIds == {s \in known : setting[s].mode \in {"everyone", "members"}}

(* When nothing is hidden from the viewer, the queries run unfiltered.     *)
Narrowed(ids) == IF ids = known THEN All ELSE [all |-> FALSE, ids |-> ids]

CanPublish(u) == u \in Users /\ standing[u] = "staff"

ScopeOf(u) == IF CanPublish(u) THEN All ELSE Narrowed(VisibleIds(u))

MemberScope == Narrowed(MemberVisibleIds)

SeesService(scope, s) == scope.all \/ s \in scope.ids

(* An event naming no service is seen by everyone.                         *)
SeesEvent(scope, ss) == scope.all \/ ss = {} \/ \E s \in ss : SeesService(scope, s)

-----------------------------------------------------------------------------
(* Queries                                                                 *)

ListVisible(scope) == {s \in known : SeesService(scope, s)}

(* The condition added to every list of events.                            *)
PushScope(scope) ==
  {e \in posted : scope.all \/ named[e] = {} \/ named[e] \cap scope.ids # {}}

RestrictNothing(scope, ss) == ss
RestrictTo(scope, ss) == {s \in ss : SeesService(scope, s)}

(* Rows of a list of events, each with the services the viewer may see.    *)
FetchScoped(scope, es) == {[event |-> e, services |-> RestrictTo(scope, named[e])] : e \in es}

ListRecentActivity(scope) == FetchScoped(scope, PushScope(scope))
ListForFeed(scope) == FetchScoped(scope, PushScope(scope))
ListOpenForBanner(scope) == FetchScoped(scope, PushScope(scope))
ListOpenMaintenance(scope) == FetchScoped(scope, PushScope(scope))
ListFinishedMaintenance(scope) == FetchScoped(scope, PushScope(scope))

(* Asking for a hidden service matches nothing: an event naming both would *)
(* reveal that it concerns the hidden one.                                 *)
PushServiceFilter(scope, s) ==
  IF SeesService(scope, s) THEN {e \in Events : s \in named[e]} ELSE {}

ListPage(scope) == FetchScoped(scope, PushScope(scope))
ListPageOf(scope, s) == FetchScoped(scope, PushScope(scope) \cap PushServiceFilter(scope, s))
CountFiltered(scope, s) == Cardinality(PushScope(scope) \cap PushServiceFilter(scope, s))

FindWithServices(scope, e) ==
  {[event |-> e, services |-> {s \in named[e] : SeesService(scope, s)}] :
     x \in {y \in posted : y = e /\ SeesEvent(scope, named[e])}}

(* The event that holds a service in its state: takes no scope.            *)
StateDrivers(ss) == {e \in posted : named[e] \cap ss # {}}

-----------------------------------------------------------------------------
(* Pages                                                                   *)

Page(ss, found) == [services |-> ss \cup UNION {r.services : r \in found},
                   events |-> {r.event : r \in found}]
Both(p, q) == [services |-> p.services \cup q.services, events |-> p.events \cup q.events]

StatusBanner(scope) ==
  Page(ListVisible(scope), ListOpenForBanner(scope) \cup ListOpenMaintenance(scope))

ServicesModule(scope) == Page({s \in known : SeesService(scope, s)}, {})

RecentActivity(scope) == Page({}, ListRecentActivity(scope))

ScheduledMaintenances(scope) ==
  Page({}, ListOpenMaintenance(scope) \cup ListFinishedMaintenance(scope))

(* The modules of the dashboard, the administrator's choice of them aside. *)
Dashboard(scope) ==
  Both(Both(StatusBanner(scope), ServicesModule(scope)),
       Both(RecentActivity(scope), ScheduledMaintenances(scope)))

(* The list of events and its filters.  A service the reader filters by is *)
(* revealed when the filter finds or counts an event.                      *)
EventList(scope) ==
  Page(ListVisible(scope) \cup
         {s \in Services : ListPageOf(scope, s) # {} \/ CountFiltered(scope, s) > 0},
       ListPage(scope))

(* An event's page: the event, and the maintenance it follows, which may   *)
(* be any other.                                                           *)
EventPage(scope) == Page({}, UNION {FindWithServices(scope, e) : e \in Events})

(* Its side panel, with the way back to the service it was opened from.    *)
EventDrawer(scope) == Both(EventPage(scope), Page({s \in known : SeesService(scope, s)}, {}))

(* The services that fell together with the one shown, as far as the       *)
(* viewer sees them.                                                       *)
FallenTogether(scope) == {s \in known : SeesService(scope, s)}

(* The side panel of a service: refused when it is hidden.                 *)
ServicePanel(scope) ==
  LET open == {s \in known : SeesService(scope, s)} IN
  Both(Page(open \cup FallenTogether(scope), UNION {ListPageOf(scope, s) : s \in open}),
       [services |-> {}, events |-> StateDrivers(open)])

Calendar(scope) == Page({}, UNION {FindWithServices(scope, e) : e \in Events})

Feed(scope) == Page({}, ListForFeed(scope))

(* The embed repeats the first row of the banner.                          *)
Embed(scope) == StatusBanner(scope)

(* The list of services, the forms, the folders, the groups and the API    *)
(* are for the team and its keys, and filter nothing.                      *)
TeamPages == [services |-> known, events |-> StateDrivers(known)]

-----------------------------------------------------------------------------
(* Requests                                                                *)

(* Nobody signed in reads on an instance closed to the public.             *)
MembersOnly(u, public) == u # Visitor \/ public

(* The feed is cached for everyone, so it is a visitor's whoever asks; the *)
(* private link of the embed reads as any member.                          *)
ScopeFor(what, u) ==
  IF what = "feed" THEN ScopeOf(Visitor)
  ELSE IF what = "private embed" THEN MemberScope ELSE ScopeOf(u)

(* Whom the answer may reach.                                              *)
Audience(what, u) ==
  IF what = "feed" THEN Visitor ELSE IF what = "private embed" THEN Member ELSE u

OpenNow(a, s) == IF a = Member THEN setting[s].mode \in {"everyone", "members"} ELSE MaySee(a, s)
NowOpenTo(a) == {s \in known : OpenNow(a, s)}

(* A request begins: the account its session names, then its scope.        *)
Begin(what, u, public) ==
  /\ held = Idle
  /\ u \in Users => standing[u] # "disabled"
  /\ CASE what \in {"pages", "feed"} -> MembersOnly(u, public)
       [] what = "embed" -> u = Visitor /\ public
       [] what = "private embed" -> u = Visitor
       [] what = "team" -> CanPublish(u)
  /\ LET scope == ScopeFor(what, u) IN
     held' = [does |-> "read", what |-> what, for |-> Audience(what, u), scope |-> scope,
              had |-> IF scope.all THEN born ELSE {}]
  /\ seen' = NowOpenTo(Audience(what, u))
  /\ UNCHANGED <<rows, team, standing, news>>

(* The answer leaves.                                                      *)
End ==
  /\ held.does = "read" /\ held' = Idle /\ seen' = {}
  /\ UNCHANGED <<rows, team, standing, news>>

(* The catalogue changes, during the request or not.                       *)
Meanwhile ==
  /\ Change
  /\ seen' = IF held.does = "read" THEN seen \cup NowOpenTo(held.for)' ELSE {}

PagesInit == Init /\ seen = {}

Next ==
  \/ \E what \in {"pages", "feed", "embed", "private embed", "team"},
        u \in Users \cup {Visitor}, public \in BOOLEAN : Begin(what, u, public)
  \/ End
  \/ Meanwhile

Spec == PagesInit /\ [][Next]_vars

-----------------------------------------------------------------------------
(* Properties                                                              *)

(* What the request in flight would show if its statements ran now.        *)
Reveals(r) ==
  CASE r.what = "pages" ->
         Both(Both(Both(Dashboard(r.scope), EventList(r.scope)), ServicePanel(r.scope)),
              Both(Both(EventPage(r.scope), EventDrawer(r.scope)), Calendar(r.scope)))
    [] r.what = "feed" -> Feed(r.scope)
    [] r.what \in {"embed", "private embed"} -> Embed(r.scope)
    [] r.what = "team" -> TeamPages

Within(shown, open) ==
  /\ shown.services \subseteq open
  /\ \A e \in shown.events : named[e] = {} \/ named[e] \cap open # {}

(* Whatever the team changes while a page is being read, the page names no *)
(* service, and tells of no event, that the people it may reach could not  *)
(* see at some moment of the request.  A request from which nothing was    *)
(* hidden reads without a filter, so it may also show a service created    *)
(* since it began.                                                         *)
PagesHideTheHidden ==
  held.does = "read" =>
    Within(Reveals(held), seen \cup IF held.scope.all THEN born \ held.had ELSE {})

=============================================================================
