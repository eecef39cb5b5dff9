------------------------------ MODULE FollowUp ------------------------------
(***************************************************************************)
(* What follows an incident once it is declared: the updates the team      *)
(* posts and the time it announces for the next one, the reminder of the   *)
(* member who let it pass, the notices under the bell of the members who   *)
(* publish, and the review once it is resolved (event_service.rs,          *)
(* event_repo.rs, event_review_repo.rs, notification/reminders.rs,         *)
(* member_notices.rs, member_notice_repo.rs, routes/notices.rs).           *)
(*                                                                         *)
(* One incident.  A request reads it, checks what it read, and writes      *)
(* statement by statement; the minute's round of reminders runs beside the *)
(* requests.  EventLifecycle has the other sides of an event, its messages *)
(* and the maintenance schedule, and Strip the days it colours.  The words *)
(* of updates, notices and emails are left out, as is the delay an         *)
(* announced time was given as: a time is only announced before it comes,  *)
(* so announcing the same one again never finds it reminded.               *)
(***************************************************************************)
EXTENDS StatusRules, Integers, FiniteSets, Sequences, SequencesExt

CONSTANTS
  Members,    \* the accounts
  Admin,      \* the one that is an administrator at the start
  Margin,     \* MARGIN, in units
  KeepNotices,\* KEEP_HISTORY, in units
  Steps,      \* the states an incident may be moved to in this instance
  Delays,     \* how far ahead the next update may be announced
  MaxTime,    \* bound on the clock
  MaxActs     \* bound: what members, checks and restarts do

ASSUME FollowUpAssumption ==
  /\ Admin \in Members /\ Margin \in Nat /\ KeepNotices \in Nat
  /\ Delays \subseteq Nat \ {0} /\ Steps \subseteq Lifecycle
  /\ MaxTime \in Nat /\ MaxActs \in Nat

VARIABLES
  now,
  role,      \* the role of each account, "disabled" once it is
  incident,  \* its row
  review,    \* the row of event_reviews
  posts,     \* the update each member is posting
  reviewing, \* the review each member is publishing
  round,     \* the round of reminders
  notices,   \* member_notices, by the call that wrote them and their member
  written,   \* how many calls wrote notices
  acts,
  announced, \* history: every time announced, and by whom
  noted,     \* history: the announcements a round noted
  reminders, \* history: the reminders told
  published, \* history: how many times a review was published
  heard      \* history: the publications the channels were told of

followVars == <<now, role, incident, review, posts, reviewing, round, notices,
                written, acts, announced, noted, reminders, published, heard>>

NoOne == "no one"
Never == -1   \* no time announced
AtRest == [pc |-> "idle"]

\* Role::can_publish and Role::can_admin
CanPublish(r) == r \in {"publisher", "admin"}
CanAdmin(r)   == r = "admin"

Exists == incident.lifecycle # None
Closed(lifecycle) == IsTerminal(lifecycle)

\* is_modifiable, can_modify, can_review
CanModify(m, lifecycle) ==
  CanPublish(role[m]) /\ (~Closed(lifecycle) \/ CanAdmin(role[m]))
CanReview(m, lifecycle) == CanPublish(role[m]) /\ lifecycle = "resolved"

NoIncident ==
  [lifecycle |-> None, previous |-> None, at |-> Never, by |-> NoOne,
   reminded |-> FALSE, ann |-> 0]

\* A new row: EventRepository::insert once creation_error let it through.
\* The author of the incident is the one who announces its next update.
Declared(m, step, at) ==
  [NoIncident EXCEPT !.lifecycle = step,
                     !.at = at, !.by = IF at = Never THEN NoOne ELSE m,
                     !.ann = IF at = Never THEN 0 ELSE Len(announced) + 1]

\* NextUpdate::parse: what the team wrote reads as a time to come, a delay
\* or the next time the clock shows it, or is left blank.
NextUpdates == {Never} \cup {now + d : d \in Delays}

Announces(m, at) ==
  announced' = IF at = Never THEN announced ELSE Append(announced, [by |-> m, at |-> at])

FollowInit ==
  /\ now = 0
  /\ role = [m \in Members |-> IF m = Admin THEN "admin" ELSE "publisher"]
  /\ announced = <<>>
  /\ incident = NoIncident
  /\ review = NoOne
  /\ posts = [m \in Members |-> AtRest] /\ reviewing = [m \in Members |-> AtRest]
  /\ round = AtRest
  /\ notices = <<>> /\ written = 0
  /\ acts = 0
  /\ noted = {} /\ reminders = <<>> /\ published = 0 /\ heard = <<>>

Acts == acts < MaxActs /\ acts' = acts + 1

others == <<role, review, reviewing, round, notices, written>>
past == <<noted, reminders, published, heard>>

----------------------------------------------------------------------------
(* The incident: event_service.rs and event_repo.rs *)

\* EventService::announce, of an incident
Announce(m, step, at) ==
  /\ ~Exists /\ CanPublish(role[m]) /\ OpensIncident(step)
  /\ incident' = Declared(m, step, at)
  /\ Announces(m, at)
  /\ Acts /\ UNCHANGED <<now, posts, others, past>>

\* transition and revert_transition; Strip has the dates they set.
Moved(row, next) == [row EXCEPT !.previous = row.lifecycle, !.lifecycle = next]
Reverted(row) == [row EXCEPT !.lifecycle = row.previous, !.previous = None]

\* set_next_update: the row is left alone when nothing changes.
WithNextKeepingMark(row, m, at) ==
  LET by == IF at = Never THEN NoOne ELSE m
  IN  [row EXCEPT !.at = at, !.by = by,
         !.ann = IF at = Never THEN 0
                 ELSE IF row.at = at /\ row.by = by THEN row.ann ELSE Len(announced) + 1]
WithNext(row, m, at) ==
  LET by == IF at = Never THEN NoOne ELSE m
  IN  IF row.at = at /\ row.by = by THEN row
      ELSE [row EXCEPT !.at = at, !.by = by, !.reminded = FALSE,
              !.ann = IF at = Never THEN 0 ELSE Len(announced) + 1]

\* post_update, as far as its checks: the incident is read, and the time of
\* the next update was read from the form before it.  update_error: a move
\* the incident allows, or a message.
PostUpdate(m, next, at) ==
  /\ posts[m] = AtRest /\ Exists /\ CanModify(m, incident.lifecycle)
  /\ next = None \/ CanTransition("incident", incident.lifecycle, next)
  /\ posts' = [posts EXCEPT ![m] =
       [pc |-> IF next = None THEN "announce" ELSE "move",
        from |-> incident.lifecycle, next |-> next, at |-> at]]
  /\ Acts /\ UNCHANGED <<now, incident, announced, others, past>>

\* The state change, unless the incident is elsewhere by now: the request is
\* then refused.
PostMove(m) ==
  /\ posts[m].pc = "move"
  /\ IF incident.lifecycle = posts[m].from
     THEN /\ incident' = Moved(incident, posts[m].next)
          /\ posts' = [posts EXCEPT ![m].pc = "announce"]
     ELSE posts' = [posts EXCEPT ![m] = AtRest] /\ UNCHANGED incident
  /\ UNCHANGED <<now, acts, announced, others, past>>

\* The next update, none once the incident is over.  Nothing checks the
\* state here: a colleague may have closed it since it was read.
PostAnnounce(m) ==
  LET over == posts[m].next # None /\ IsTerminal(posts[m].next)
      at   == IF over THEN Never ELSE posts[m].at
  IN  /\ posts[m].pc = "announce"
      /\ posts' = [posts EXCEPT ![m] = AtRest]
      /\ IF Exists
         THEN /\ incident' = WithNext(incident, m, at)
              /\ IF incident'.ann = incident.ann THEN UNCHANGED announced
                 ELSE Announces(m, at)
         ELSE UNCHANGED <<incident, announced>>
      /\ UNCHANGED <<now, acts, others, past>>

\* EventService::revert
Revert(m) ==
  /\ Exists /\ CanModify(m, incident.lifecycle) /\ incident.previous # None
  /\ incident' = Reverted(incident)
  /\ Acts /\ UNCHANGED <<now, posts, announced, others, past>>

\* EventService::delete: the review and the notices of the incident go too.
Delete(m) ==
  /\ Exists /\ CanModify(m, incident.lifecycle)
  /\ incident' = NoIncident /\ review' = NoOne
  /\ notices' = Restrict(notices, {key \in DOMAIN notices :
                                     notices[key].kind # "update_overdue"})
  /\ Acts
  /\ UNCHANGED <<now, written, role, posts, reviewing, round, announced,
                 past>>

----------------------------------------------------------------------------
(* The review: publish_review, remove_review and event_review_repo.rs *)

PublishReview(m) ==
  /\ reviewing[m] = AtRest /\ Exists /\ CanReview(m, incident.lifecycle)
  /\ reviewing' = [reviewing EXCEPT ![m] = [pc |-> "save"]]
  /\ Acts
  /\ UNCHANGED <<now, role, incident, review, posts, round, notices, written,
                 announced, past>>

\* EventReviewRepository::save: published, or corrected when there is one
IsFirst(row) == row = NoOne

SaveReview(m) ==
  /\ reviewing[m].pc = "save"
  /\ IF ~Exists
     THEN UNCHANGED <<review, published>>
          /\ reviewing' = [reviewing EXCEPT ![m] = AtRest]
     ELSE /\ review' = IF review = NoOne THEN m ELSE review
          /\ published' = IF review = NoOne THEN published + 1 ELSE published
          /\ reviewing' = [reviewing EXCEPT ![m] =
               IF IsFirst(review) THEN [pc |-> "tell", n |-> published']
               ELSE AtRest]
  /\ UNCHANGED <<now, role, incident, posts, round, notices, written, acts,
                 announced, noted, reminders, heard>>

TellReview(m) ==
  /\ reviewing[m].pc = "tell"
  /\ heard' = Append(heard, reviewing[m].n)
  /\ reviewing' = [reviewing EXCEPT ![m] = AtRest]
  /\ UNCHANGED <<now, role, incident, review, posts, round, notices, written,
                 acts, announced, noted, reminders, published>>

RemoveReview(m) ==
  /\ Exists /\ CanReview(m, incident.lifecycle) /\ review # NoOne
  /\ review' = NoOne
  /\ Acts
  /\ UNCHANGED <<now, role, incident, posts, reviewing, round, notices,
                 written, announced, past>>

----------------------------------------------------------------------------
(* Notices: member_notices.rs, member_notice_repo.rs, routes/notices.rs *)

Notice(user, kind, due) ==
  [user |-> user, kind |-> kind, at |-> now, due |-> due, read |-> FALSE]

\* The table with the rows of one call, one for each of `users`.
Insert(table, users, kind, due) ==
  /\ notices' = [key \in DOMAIN table \cup ({written + 1} \X users) |->
       IF key \in DOMAIN table THEN table[key] ELSE Notice(key[2], kind, due)]
  /\ written' = written + 1

\* add_for_member
AddForMember(user, kind, due) == Insert(notices, {user}, kind, due)

Same(n, user, kind) == n.user = user /\ n.kind = kind /\ ~n.read

\* Those add_for_roles writes a row for: no same one waits unread.
NewFor(users, kind) ==
  {u \in users : ~\E key \in DOMAIN notices : Same(notices[key], u, kind)}

\* add_for_roles, one transaction: what waits unread is dated now, the
\* others get a row.
AddForRoles(roles, kind) ==
  LET users == {u \in Members : role[u] \in roles}
      dated == [key \in DOMAIN notices |->
                  IF /\ notices[key].user \in users
                     /\ Same(notices[key], notices[key].user, kind)
                  THEN [notices[key] EXCEPT !.at = now] ELSE notices[key]]
  IN  Insert(dated, NewFor(users, kind), kind, Never)

\* seen: the bell was opened.  mark_all_read also reads what came since the
\* page was drawn.
Seen(m) ==
  /\ CanPublish(role[m])
  /\ \E key \in DOMAIN notices : notices[key].user = m /\ ~notices[key].read
  /\ notices' = [key \in DOMAIN notices |->
       IF notices[key].user = m THEN [notices[key] EXCEPT !.read = TRUE]
       ELSE notices[key]]
  /\ Acts
  /\ UNCHANGED <<now, role, incident, review, posts, reviewing, round,
                 written, announced, past>>

\* tell_delivery_failed: a destination refused its messages.
DeliveryFailed ==
  /\ AddForRoles({"admin"}, "delivery_failed")
  /\ Acts
  /\ UNCHANGED <<now, role, incident, review, posts, reviewing, round,
                 announced, past>>

\* tell_outage_detected: the checks found services down.
OutageDetected ==
  /\ AddForRoles({"publisher", "admin"}, "outage_detected")
  /\ Acts
  /\ UNCHANGED <<now, role, incident, review, posts, reviewing, round,
                 announced, past>>

\* purge, between two rounds
StillKept(n) == n.at >= now - KeepNotices

Purge ==
  /\ round = AtRest
  /\ \E key \in DOMAIN notices : ~StillKept(notices[key])
  /\ notices' = Restrict(notices, {key \in DOMAIN notices : StillKept(notices[key])})
  /\ UNCHANGED <<now, written, role, incident, review, posts, reviewing,
                 round, acts, announced, past>>

----------------------------------------------------------------------------
(* The round of reminders: notification/reminders.rs *)

\* due_reminders
IsDue ==
  /\ Exists /\ ~IsTerminal(incident.lifecycle)
  /\ incident.at # Never /\ incident.at <= now - Margin /\ ~incident.reminded
  /\ incident.by # NoOne /\ CanPublish(role[incident.by])

RemindOverdue ==
  /\ round = AtRest /\ IsDue
  /\ round' = [pc |-> "note", user |-> incident.by, due |-> incident.at]
  /\ UNCHANGED <<now, role, incident, review, posts, reviewing, notices,
                 written, acts, announced, past>>

\* mark_reminded: nothing is noted when a new time was announced meanwhile.
StillDueAnyTime(due) == Exists /\ incident.at # Never /\ ~incident.reminded
StillDue(due) == Exists /\ incident.at = due /\ ~incident.reminded

\* Noted first: a reminder is better missed than sent twice.
MarkReminded ==
  /\ round.pc = "note"
  /\ IF StillDue(round.due)
     THEN /\ incident' = [incident EXCEPT !.reminded = TRUE]
          /\ noted' = noted \cup {incident.ann}
          /\ round' = [pc |-> "tell", user |-> round.user, due |-> round.due,
                       ann |-> incident.ann]
     ELSE round' = AtRest /\ UNCHANGED <<incident, noted>>
  /\ UNCHANGED <<now, role, review, posts, reviewing, notices, written, acts,
                 announced, reminders, published, heard>>

\* tell_update_overdue and the email; no notice once the incident is gone
TellOverdue ==
  /\ round.pc = "tell"
  /\ IF Exists THEN AddForMember(round.user, "update_overdue", round.due)
     ELSE UNCHANGED <<notices, written>>
  /\ reminders' = Append(reminders,
       [ann |-> round.ann, user |-> round.user, due |-> round.due, at |-> now])
  /\ round' = AtRest
  /\ UNCHANGED <<now, role, incident, review, posts, reviewing, acts,
                 announced, noted, published, heard>>

RoundStep == RemindOverdue \/ MarkReminded \/ TellOverdue

----------------------------------------------------------------------------
(* What happens around *)

\* An administrator gives an account another role, or disables it.
SetRole(m, r) ==
  /\ m # Admin /\ role[m] # r
  /\ role' = [role EXCEPT ![m] = r]
  /\ Acts
  /\ UNCHANGED <<now, incident, review, posts, reviewing, round, notices,
                 written, announced, past>>

\* The server stops and starts again: what was under way is lost.
Restart ==
  /\ posts' = [m \in Members |-> AtRest] /\ reviewing' = [m \in Members |-> AtRest]
  /\ round' = AtRest
  /\ <<posts, reviewing, round>> # <<posts', reviewing', round'>>
  /\ Acts
  /\ UNCHANGED <<now, role, incident, review, notices, written, announced,
                 past>>

\* A unit is longer than a request: none is under way when one ends.
Tick ==
  /\ now < MaxTime
  /\ \A m \in Members : posts[m] = AtRest
  /\ now' = now + 1
  /\ UNCHANGED <<role, incident, review, posts, reviewing, round, notices,
                 written, acts, announced, past>>

FollowNext ==
  \/ \E m \in Members :
       \/ \E step \in Steps, at \in NextUpdates :
            Announce(m, step, at)
       \/ \E next \in Steps \cup {None}, at \in NextUpdates :
            PostUpdate(m, next, at)
       \/ PostMove(m) \/ PostAnnounce(m) \/ Revert(m) \/ Delete(m)
       \/ PublishReview(m) \/ SaveReview(m) \/ TellReview(m) \/ RemoveReview(m)
       \/ Seen(m)
       \/ \E r \in {"reader", "publisher", "disabled"} : SetRole(m, r)
  \/ OutageDetected \/ DeliveryFailed
  \/ Purge \/ RoundStep \/ Restart \/ Tick

\* The round comes back every minute for the life of the server.
FollowSpec == FollowInit /\ [][FollowNext]_followVars /\ WF_followVars(RoundStep)

----------------------------------------------------------------------------
(* Properties *)

\* A reminder goes to the member who announced the time that passed, once
\* for each time announced and not before its margin is over, whatever was
\* announced between the moments the round reads, notes and tells
\* (due_reminders, mark_reminded, remind_overdue).
RemindersFitTheirAnnouncement ==
  /\ \A i \in DOMAIN reminders :
       LET r == reminders[i]
       IN  /\ announced[r.ann] = [by |-> r.user, at |-> r.due]
           /\ r.at >= r.due + Margin
  /\ \A i, j \in DOMAIN reminders : reminders[i].ann = reminders[j].ann => i = j

\* A service that keeps falling, or a destination that keeps refusing, tells
\* each member once until they open their bell (add_for_roles).
OneUnreadOfEach ==
  \A i, j \in DOMAIN notices :
    /\ ~notices[i].read /\ ~notices[j].read /\ notices[i].kind # "update_overdue"
    /\ notices[i].user = notices[j].user /\ notices[i].kind = notices[j].kind
    => i = j

\* Only the publication of a review is sent, once: of two members saving at
\* once, one publishes and the other corrects (publish_review, save).
ReviewToldOnce ==
  /\ \A i \in DOMAIN heard : heard[i] \in 1..published
  /\ \A i, j \in DOMAIN heard : heard[i] = heard[j] => i = j

\* An announced update is overdue until it is noted for its reminder, announced
\* anew, closed, or its announcer may no longer publish.
Overdue ==
  /\ Exists /\ ~IsTerminal(incident.lifecycle)
  /\ incident.at # Never /\ incident.at <= now - Margin
  /\ CanPublish(role[incident.by]) /\ incident.ann \notin noted

\* Every overdue update is reminded or stops being due (remind_overdue, every
\* minute).
OverdueIsReminded == Overdue ~> ~Overdue

\* Nobody is told twice: one reminder for each time announced, one unread
\* notice of each thing, one message for each review.
NothingIsToldTwice == RemindersFitTheirAnnouncement /\ OneUnreadOfEach /\ ReviewToldOnce
=============================================================================
