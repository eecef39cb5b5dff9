---------------------------- MODULE UpkeepProofs ----------------------------
(***************************************************************************)
(* Proofs about FollowUp, for any members and any number of announcements, *)
(* notices and reviews, and about Journal, for any number of lines, sizes  *)
(* of its queue and batches, and any retentions.                           *)
(***************************************************************************)
EXTENDS Journal, FollowUp, FiniteSetTheorems, NaturalsInduction,
        WellFoundedInduction, TLAPS

-----------------------------------------------------------------------------
(* FollowUp: the inductive invariant                                       *)

Times == Nat \cup {Never}
State == Lifecycle \cup {None}
People == Members \cup {NoOne}
Row ==
  [lifecycle : State, previous : State, at : Times, by : People,
   reminded : BOOLEAN, ann : Nat]
Post == [pc : {"move", "announce"}, from : State, next : State, at : Times]
Announcement == [by : Members, at : Nat]
Reminder == [ann : Nat, user : Members, due : Nat, at : Nat]

IncidentTyped ==
  /\ now \in Nat /\ incident \in Row
  /\ posts \in [Members -> Post \cup {AtRest}]
  /\ announced \in Seq(Announcement)
  /\ noted \subseteq 1..Len(announced)
  /\ reminders \in Seq(Reminder)
  /\ \/ round = AtRest
     \/ round \in [pc : {"note"}, user : Members, due : Nat]
     \/ round \in [pc : {"tell"}, user : Members, due : Nat, ann : Nat]

(* The incident carries the announcement it was given last, and is marked  *)
(* as reminded while that one is noted.                                    *)
AnnouncementOK ==
  /\ incident.at = Never <=> incident.ann = 0
  /\ incident.ann # 0 =>
       /\ incident.ann \in 1..Len(announced)
       /\ announced[incident.ann] = [by |-> incident.by, at |-> incident.at]
  /\ incident.ann \in noted => incident.reminded

(* What a request is about to announce is still to come.                   *)
PostsAhead ==
  \A m \in Members : posts[m] # AtRest => posts[m].at = Never \/ posts[m].at > now

(* Whoever announced the time a round read is the one it reminds: nobody   *)
(* else can announce a time that passed.                                   *)
RoundOK ==
  /\ round.pc = "note" =>
       /\ round.due + Margin <= now
       /\ incident.at = round.due => incident.by = round.user
  /\ round.pc = "tell" =>
       /\ round.ann \in noted
       /\ announced[round.ann] = [by |-> round.user, at |-> round.due]
       /\ round.due + Margin <= now
       /\ \A i \in DOMAIN reminders : reminders[i].ann # round.ann

(* Only what was noted is told.                                            *)
ToldIsNoted == \A i \in DOMAIN reminders : reminders[i].ann \in noted

RemindersInv ==
  /\ IncidentTyped /\ AnnouncementOK /\ PostsAhead /\ RoundOK /\ ToldIsNoted
  /\ RemindersFitTheirAnnouncement

(* Each publication is told by the one request that made it.               *)
ReviewsInv ==
  /\ published \in Nat /\ heard \in Seq(Nat)
  /\ reviewing \in [Members -> {AtRest} \cup [pc : {"save"}] \cup [pc : {"tell"}, n : Nat]]
  /\ \A m \in Members : reviewing[m].pc = "tell" =>
       /\ reviewing[m].n \in 1..published
       /\ \A i \in DOMAIN heard : heard[i] # reviewing[m].n
       /\ \A other \in Members \ {m} :
            reviewing[other].pc = "tell" => reviewing[other].n # reviewing[m].n
  /\ ReviewToldOnce

NoticeKind == {"update_overdue", "delivery_failed", "outage_detected"}

(* A notice is found by the call that wrote it, and no call is to come     *)
(* that writes under the same number.                                      *)
BellsInv ==
  /\ written \in Nat
  /\ \A key \in DOMAIN notices :
       /\ key \in (1..written) \X Members
       /\ notices[key] \in [user : Members, kind : NoticeKind, at : Nat, due : Times,
                            read : BOOLEAN]
  /\ OneUnreadOfEach

FollowInv == RemindersInv /\ ReviewsInv /\ BellsInv

-----------------------------------------------------------------------------
(* FollowUp: the reminders                                                 *)

USE FollowUpAssumption DEF Never, AtRest

LEMMA FollowInitInv == FollowInit => FollowInv
<1> SUFFICES ASSUME FollowInit PROVE FollowInv
  OBVIOUS
<1>1. RemindersInv
  <2>0. /\ now = 0 /\ announced = << >> /\ reminders = << >> /\ noted = {}
        /\ incident = NoIncident /\ posts = [m \in Members |-> AtRest]
        /\ round = AtRest
    BY DEF FollowInit
  <2>1. IncidentTyped
    <3>1. NoIncident \in Row
      BY DEF NoIncident, Row, State, Times, People
    <3> QED
      BY <2>0, <3>1 DEF IncidentTyped
  <2>2. AnnouncementOK /\ PostsAhead
    BY <2>0 DEF AnnouncementOK, PostsAhead, NoIncident
  <2>3. RoundOK /\ ToldIsNoted /\ RemindersFitTheirAnnouncement
    BY <2>0 DEF RoundOK, ToldIsNoted, RemindersFitTheirAnnouncement
  <2> QED
    BY <2>1, <2>2, <2>3 DEF RemindersInv
<1>2. ReviewsInv
  <2>1. heard = << >> /\ published = 0 /\ reviewing = [m \in Members |-> AtRest]
    BY DEF FollowInit
  <2>2. ReviewToldOnce
    BY <2>1 DEF ReviewToldOnce
  <2> QED
    BY <2>1, <2>2 DEF ReviewsInv
<1>3. BellsInv
  <2>0. notices = << >> /\ written = 0
    BY DEF FollowInit
  <2>1. DOMAIN notices = {}
    BY <2>0
  <2> QED
    BY <2>0, <2>1 DEF BellsInv, OneUnreadOfEach
<1> QED
  BY <1>1, <1>2, <1>3 DEF FollowInv

(* A step that leaves the incident, the announcements and the reminders    *)
(* alone and lets neither a post begin nor a round.                        *)
ReminderVars == <<now, incident, posts, round, announced, noted, reminders>>

LEMMA RemindersStutter ==
  ASSUME RemindersInv, UNCHANGED ReminderVars
  PROVE  RemindersInv'
  BY DEF RemindersInv, ReminderVars, IncidentTyped, AnnouncementOK, PostsAhead,
    RoundOK, ToldIsNoted, RemindersFitTheirAnnouncement

(* Times that are announced are still to come.                             *)
LEMMA ToCome ==
  ASSUME now \in Nat, NEW at \in NextUpdates
  PROVE  at \in Times /\ (at = Never \/ at > now)
  BY DEF NextUpdates, Times

(* The announcements grow, the incident carries the last of them or none,  *)
(* and no reminder is noted or told.                                       *)
LEMMA AnnouncedAgain ==
  ASSUME RemindersInv, NEW m \in Members, NEW at \in Times,
         at = Never \/ at > now,
         incident' \in Row, incident'.at = at,
         at = Never => incident'.ann = 0 /\ announced' = announced,
         at # Never => /\ incident'.by = m /\ incident'.ann = Len(announced) + 1
                       /\ announced' = Append(announced, [by |-> m, at |-> at]),
         posts' \in [Members -> Post \cup {AtRest}],
         \A other \in Members : posts'[other] # AtRest => posts'[other] = posts[other],
         UNCHANGED <<now, round, noted, reminders>>
  PROVE  RemindersInv'
<1> USE DEF RemindersInv
<1>0. /\ announced \in Seq(Announcement) /\ Len(announced) \in Nat
      /\ announced' \in Seq(Announcement)
      /\ Len(announced') >= Len(announced)
      /\ \A i \in 1..Len(announced) : announced'[i] = announced[i]
  <2>1. announced \in Seq(Announcement)
    BY DEF IncidentTyped
  <2>2. CASE at = Never
    BY <2>1, <2>2
  <2>3. CASE at # Never
    <3>1. [by |-> m, at |-> at] \in Announcement
      BY <2>3 DEF Times, Announcement
    <3> QED
      BY <2>1, <2>3, <3>1
  <2> QED
    BY <2>2, <2>3
<1>1. IncidentTyped'
  <2>1. noted' \subseteq 1..Len(announced')
    BY <1>0 DEF IncidentTyped
  <2> QED
    BY <1>0, <2>1 DEF IncidentTyped
<1>2. AnnouncementOK'
  <2>0. noted \subseteq 1..Len(announced) /\ noted' = noted
    BY DEF IncidentTyped
  <2>1. at = Never => incident'.ann \notin noted'
    BY <1>0, <2>0
  <2>2. at # Never => incident'.ann \notin noted'
    BY <1>0, <2>0
  <2>3. at # Never => announced'[Len(announced) + 1] = [by |-> m, at |-> at]
    BY <1>0
  <2> QED
    BY <1>0, <2>1, <2>2, <2>3 DEF AnnouncementOK
<1>3. PostsAhead'
  BY DEF PostsAhead
<1>4. RoundOK'
  <2>0. round.pc = "note" => round.due \in Nat
    BY DEF IncidentTyped
  <2>1. round.pc = "note" => round.due <= now
    BY <2>0 DEF IncidentTyped, RoundOK
  <2>2. round.pc = "note" => at # round.due
    BY <2>0, <2>1 DEF IncidentTyped, Times
  <2>3. round.pc = "tell" => announced'[round.ann] = announced[round.ann]
    BY <1>0 DEF RoundOK, IncidentTyped
  <2> QED
    BY <2>2, <2>3 DEF RoundOK
<1>5. ToldIsNoted'
  BY DEF ToldIsNoted
<1>6. RemindersFitTheirAnnouncement'
  <2>1. \A i \in DOMAIN reminders :
          announced'[reminders[i].ann] = announced[reminders[i].ann]
    BY <1>0 DEF ToldIsNoted, IncidentTyped
  <2> QED
    BY <2>1 DEF RemindersFitTheirAnnouncement
<1> QED
  BY <1>1, <1>2, <1>3, <1>4, <1>5, <1>6

(* A move of the incident, and the posts that go on or end beside it.      *)
LEMMA MovedAlong ==
  ASSUME RemindersInv, incident' \in Row,
         incident'.at = incident.at, incident'.by = incident.by,
         incident'.ann = incident.ann, incident'.reminded = incident.reminded,
         posts' \in [Members -> Post \cup {AtRest}],
         \A m \in Members : posts'[m] # AtRest =>
           posts'[m].at = Never \/ posts'[m].at > now,
         UNCHANGED <<now, round, announced, noted, reminders>>
  PROVE  RemindersInv'
<1> USE DEF RemindersInv
<1>1. IncidentTyped' /\ PostsAhead'
  BY DEF IncidentTyped, PostsAhead
<1>2. AnnouncementOK' /\ RoundOK' /\ ToldIsNoted'
  BY DEF AnnouncementOK, RoundOK, ToldIsNoted
<1>3. RemindersFitTheirAnnouncement'
  BY DEF RemindersFitTheirAnnouncement
<1> QED
  BY <1>1, <1>2, <1>3

LEMMA Announcers == \A m \in Members : m \in People /\ NoOne \in People
  BY DEF People

LEMMA NewRow ==
  ASSUME NEW row \in Row, NEW step \in State, NEW at \in Times, NEW by \in People,
         NEW ann \in Nat
  PROVE  /\ [row EXCEPT !.lifecycle = step, !.at = at, !.by = by, !.ann = ann] \in Row
         /\ [row EXCEPT !.at = at, !.by = by, !.reminded = FALSE, !.ann = ann] \in Row
  BY DEF Row

LEMMA StepsAreStates == Steps \subseteq State /\ None \in State
  BY DEF State

LEMMA AnnounceKeeps ==
  ASSUME RemindersInv, NEW m \in Members, NEW step \in Steps,
         NEW at \in NextUpdates, Announce(m, step, at)
  PROVE  RemindersInv'
<1>1. now \in Nat /\ posts \in [Members -> Post \cup {AtRest}] /\ Len(announced) \in Nat
  BY DEF RemindersInv, IncidentTyped
<1>2. at \in Times /\ (at = Never \/ at > now)
  BY <1>1, ToCome
<1>3. Declared(m, step, at) \in Row
  <2>1. /\ step \in State /\ None \in State /\ m \in People /\ NoOne \in People
        /\ Len(announced) + 1 \in Nat
    BY <1>1, StepsAreStates, Announcers
  <2>2. NoIncident \in Row
    BY <2>1 DEF NoIncident, Row, Times
  <2> QED
    BY <1>2, <2>1, <2>2, NewRow DEF Declared
<1>4. /\ incident'.at = at
      /\ at = Never => incident'.ann = 0
      /\ at # Never => incident'.by = m /\ incident'.ann = Len(announced) + 1
  BY DEF Announce, Declared, NoIncident
<1>5. /\ announced' = IF at = Never THEN announced
                      ELSE Append(announced, [by |-> m, at |-> at])
      /\ incident' = Declared(m, step, at)
      /\ UNCHANGED <<now, posts, round, noted, reminders>>
  BY DEF Announce, Announces, others, past
<1> QED
  BY <1>1, <1>2, <1>3, <1>4, <1>5, AnnouncedAgain

LEMMA DeleteKeeps ==
  ASSUME RemindersInv, NEW m \in Members, Delete(m)
  PROVE  RemindersInv'
<1>1. NoIncident \in Row
  BY DEF NoIncident, Row, State, People, Times
<1>2. incident' = NoIncident /\ UNCHANGED <<now, posts, round, announced, noted, reminders>>
  BY DEF Delete, past
<1>3. Never \in Times /\ incident'.at = Never /\ incident'.ann = 0
  BY <1>2 DEF NoIncident, Times
<1>4. posts' \in [Members -> Post \cup {AtRest}]
  BY <1>2 DEF RemindersInv, IncidentTyped
<1> QED
  BY <1>1, <1>2, <1>3, <1>4, AnnouncedAgain

LEMMA PostUpdateKeeps ==
  ASSUME RemindersInv, NEW m \in Members, NEW next \in Steps \cup {None},
         NEW at \in NextUpdates, PostUpdate(m, next, at)
  PROVE  RemindersInv'
<1> DEFINE post == [pc |-> IF next = None THEN "announce" ELSE "move",
                    from |-> incident.lifecycle, next |-> next, at |-> at]
<1>1. /\ now \in Nat /\ incident \in Row /\ posts \in [Members -> Post \cup {AtRest}]
  BY DEF RemindersInv, IncidentTyped
<1>2. at \in Times /\ (at = Never \/ at > now)
  BY <1>1, ToCome
<1>3. post \in Post /\ post.at = at
  BY <1>1, <1>2, StepsAreStates DEF Post, Row
<1>4. posts' = [posts EXCEPT ![m] = post] /\ incident' = incident
      /\ UNCHANGED <<now, round, announced, noted, reminders>>
  BY DEF PostUpdate, others, past
<1> HIDE DEF post
<1>5. posts' \in [Members -> Post \cup {AtRest}]
  BY <1>1, <1>3, <1>4
<1>6. \A other \in Members : posts'[other] # AtRest =>
        posts'[other].at = Never \/ posts'[other].at > now
  BY <1>1, <1>2, <1>3, <1>4 DEF RemindersInv, PostsAhead
<1> QED
  BY <1>1, <1>4, <1>5, <1>6, MovedAlong

LEMMA PostMoveKeeps ==
  ASSUME RemindersInv, NEW m \in Members, PostMove(m)
  PROVE  RemindersInv'
<1>1. /\ incident \in Row /\ posts \in [Members -> Post \cup {AtRest}]
      /\ posts[m].pc = "move" /\ UNCHANGED <<now, round, announced, noted, reminders>>
  BY DEF RemindersInv, IncidentTyped, PostMove, others, past
<1>2. posts[m] \in Post /\ posts[m] # AtRest
  BY <1>1
<1>3. CASE incident.lifecycle = posts[m].from
  <2>1. incident' = Moved(incident, posts[m].next)
        /\ posts' = [posts EXCEPT ![m].pc = "announce"]
    BY <1>3 DEF PostMove
  <2>2. /\ Moved(incident, posts[m].next) \in Row
        /\ incident'.at = incident.at /\ incident'.by = incident.by
        /\ incident'.ann = incident.ann /\ incident'.reminded = incident.reminded
    BY <1>1, <1>2, <2>1 DEF Moved, Row, Post
  <2>3. posts' = [posts EXCEPT ![m] = [posts[m] EXCEPT !.pc = "announce"]]
    BY <2>1
  <2>4. /\ [posts[m] EXCEPT !.pc = "announce"] \in Post
        /\ [posts[m] EXCEPT !.pc = "announce"].at = posts[m].at
    BY <1>2 DEF Post
  <2>5. posts' \in [Members -> Post \cup {AtRest}]
    BY <1>1, <2>3, <2>4
  <2>6. \A other \in Members : posts'[other] # AtRest =>
          posts'[other].at = Never \/ posts'[other].at > now
    BY <1>1, <1>2, <2>3, <2>4 DEF RemindersInv, PostsAhead
  <2> QED
    BY <1>1, <2>1, <2>2, <2>5, <2>6, MovedAlong
<1>4. CASE incident.lifecycle # posts[m].from
  <2>1. incident' = incident /\ posts' = [posts EXCEPT ![m] = AtRest]
    BY <1>4 DEF PostMove
  <2>2. posts' \in [Members -> Post \cup {AtRest}]
    BY <1>1, <2>1
  <2>3. \A other \in Members : posts'[other] # AtRest =>
          posts'[other].at = Never \/ posts'[other].at > now
    BY <1>1, <2>1 DEF RemindersInv, PostsAhead
  <2> QED
    BY <1>1, <2>1, <2>2, <2>3, MovedAlong
<1> QED
  BY <1>3, <1>4

LEMMA PostAnnounceKeeps ==
  ASSUME RemindersInv, NEW m \in Members, PostAnnounce(m)
  PROVE  RemindersInv'
<1> DEFINE at == IF posts[m].next # None /\ IsTerminal(posts[m].next)
                 THEN Never ELSE posts[m].at
<1>1. /\ incident \in Row /\ posts \in [Members -> Post \cup {AtRest}]
      /\ posts[m].pc = "announce" /\ Len(announced) \in Nat /\ now \in Nat
      /\ UNCHANGED <<now, round, noted, reminders>>
      /\ posts' = [posts EXCEPT ![m] = AtRest]
  BY DEF RemindersInv, IncidentTyped, PostAnnounce, others, past
<1>2. posts[m] \in Post /\ posts[m] # AtRest
  BY <1>1
<1>3. at \in Times /\ (at = Never \/ at > now)
  BY <1>2 DEF RemindersInv, PostsAhead, Post, Times
<1>4. posts' \in [Members -> Post \cup {AtRest}]
  BY <1>1
<1>5. \A other \in Members : posts'[other] # AtRest => posts'[other] = posts[other]
  BY <1>1
<1>6. \A other \in Members : posts'[other] # AtRest =>
          posts'[other].at = Never \/ posts'[other].at > now
  BY <1>5 DEF RemindersInv, PostsAhead
<1>7. CASE incident' = incident /\ announced' = announced
  BY <1>1, <1>4, <1>6, <1>7, MovedAlong
<1>8. CASE ~(incident' = incident /\ announced' = announced)
  <2>1. /\ Exists /\ incident' = WithNext(incident, m, at)
        /\ IF incident'.ann = incident.ann THEN announced' = announced
           ELSE announced' = IF at = Never THEN announced
                             ELSE Append(announced, [by |-> m, at |-> at])
    BY <1>8 DEF PostAnnounce, Announces
  <2> HIDE DEF at
  <2>2. incident' = [incident EXCEPT !.at = at, !.by = IF at = Never THEN NoOne ELSE m,
                       !.reminded = FALSE,
                       !.ann = IF at = Never THEN 0 ELSE Len(announced) + 1]
    BY <1>8, <2>1 DEF WithNext
  <2>3. /\ incident' \in Row /\ incident'.at = at
        /\ at = Never => incident'.ann = 0
        /\ at # Never => incident'.by = m /\ incident'.ann = Len(announced) + 1
    <3> DEFINE by  == IF at = Never THEN NoOne ELSE m
               ann == IF at = Never THEN 0 ELSE Len(announced) + 1
    <3>1. by \in People /\ ann \in Nat
      BY <1>1, Announcers
    <3>2. incident' = [incident EXCEPT !.at = at, !.by = by, !.reminded = FALSE,
                         !.ann = ann]
      BY <2>2
    <3>3. at # Never => by = m /\ ann = Len(announced) + 1
      OBVIOUS
    <3>4. at = Never => ann = 0
      OBVIOUS
    <3> HIDE DEF by, ann
    <3>5. incident' \in Row
      BY <1>1, <1>3, <3>1, <3>2, NewRow, StepsAreStates
    <3>6. incident'.at = at /\ incident'.by = by /\ incident'.ann = ann
      BY <1>1, <3>2 DEF Row
    <3> QED
      BY <3>3, <3>4, <3>5, <3>6
  <2>4. incident.ann <= Len(announced)
    BY <1>1 DEF RemindersInv, AnnouncementOK
  <2>5. incident.ann # Len(announced) + 1
    BY <1>1, <2>4 DEF Row
  <2>6. at = Never => announced' = announced
    BY <2>1
  <2>7. at # Never => announced' = Append(announced, [by |-> m, at |-> at])
    BY <2>1, <2>3, <2>5
  <2> QED
    BY <1>1, <1>3, <1>4, <1>5, <2>3, <2>6, <2>7, AnnouncedAgain
<1> QED
  BY <1>7, <1>8

LEMMA RevertKeeps ==
  ASSUME RemindersInv, NEW m \in Members, Revert(m)
  PROVE  RemindersInv'
<1>1. /\ incident \in Row /\ incident' = Reverted(incident)
      /\ posts' \in [Members -> Post \cup {AtRest}]
      /\ UNCHANGED <<now, posts, round, announced, noted, reminders>>
  BY DEF RemindersInv, IncidentTyped, Revert, others, past
<1>2. /\ Reverted(incident) \in Row
      /\ incident'.at = incident.at /\ incident'.by = incident.by
      /\ incident'.ann = incident.ann /\ incident'.reminded = incident.reminded
  BY <1>1 DEF Reverted, Row, State
<1>3. \A other \in Members : posts'[other] # AtRest =>
          posts'[other].at = Never \/ posts'[other].at > now
  BY <1>1 DEF RemindersInv, PostsAhead
<1> QED
  BY <1>1, <1>2, <1>3, MovedAlong

LEMMA RemindOverdueKeeps ==
  ASSUME RemindersInv, RemindOverdue
  PROVE  RemindersInv'
<1>1. /\ incident \in Row /\ now \in Nat
      /\ incident.at # Never /\ incident.at <= now - Margin
      /\ round' = [pc |-> "note", user |-> incident.by, due |-> incident.at]
      /\ UNCHANGED <<now, incident, posts, announced, noted, reminders>>
  BY DEF RemindersInv, IncidentTyped, RemindOverdue, IsDue, past
<1>2. incident.at \in Nat /\ incident.by \in Members
  <2>1. incident.by # NoOne
    BY DEF RemindOverdue, IsDue
  <2> QED
    BY <1>1, <2>1 DEF Row, Times, People
<1>3. IncidentTyped'
  <2>1. round' \in [pc : {"note"}, user : Members, due : Nat]
    BY <1>1, <1>2
  <2> QED
    BY <1>1, <2>1 DEF RemindersInv, IncidentTyped
<1>4. RoundOK'
  BY <1>1, <1>2 DEF RoundOK
<1>5. AnnouncementOK' /\ PostsAhead' /\ ToldIsNoted'
  BY <1>1 DEF RemindersInv, AnnouncementOK, PostsAhead, ToldIsNoted
<1>6. RemindersFitTheirAnnouncement'
  BY <1>1 DEF RemindersInv, RemindersFitTheirAnnouncement
<1> QED
  BY <1>3, <1>4, <1>5, <1>6 DEF RemindersInv

LEMMA MarkRemindedKeeps ==
  ASSUME RemindersInv, MarkReminded
  PROVE  RemindersInv'
<1>1. /\ incident \in Row /\ now \in Nat /\ Len(announced) \in Nat
      /\ noted \subseteq 1..Len(announced)
      /\ round \in [pc : {"note"}, user : Members, due : Nat]
      /\ UNCHANGED <<now, posts, announced, reminders>>
  BY DEF RemindersInv, IncidentTyped, MarkReminded
<1>2. CASE ~StillDue(round.due)
  <2>1. round' = AtRest /\ UNCHANGED <<incident, noted>>
    BY <1>2 DEF MarkReminded
  <2>2. IncidentTyped' /\ RoundOK'
    BY <1>1, <2>1 DEF RemindersInv, IncidentTyped, RoundOK
  <2>3. AnnouncementOK' /\ PostsAhead' /\ ToldIsNoted'
    BY <1>1, <2>1 DEF RemindersInv, AnnouncementOK, PostsAhead, ToldIsNoted
  <2>4. RemindersFitTheirAnnouncement'
    BY <1>1, <2>1 DEF RemindersInv, RemindersFitTheirAnnouncement
  <2> QED
    BY <2>2, <2>3, <2>4 DEF RemindersInv
<1>3. CASE StillDue(round.due)
  <2>1. /\ incident' = [incident EXCEPT !.reminded = TRUE]
        /\ noted' = noted \cup {incident.ann}
        /\ round' = [pc |-> "tell", user |-> round.user, due |-> round.due,
                     ann |-> incident.ann]
        /\ incident.at = round.due /\ ~incident.reminded
    BY <1>3 DEF MarkReminded, StillDue
  <2>2. /\ incident' \in Row /\ incident'.at = incident.at /\ incident'.by = incident.by
        /\ incident'.ann = incident.ann /\ incident'.reminded
    BY <1>1, <2>1 DEF Row
  <2>3. /\ incident.ann \in 1..Len(announced) /\ incident.ann \notin noted
        /\ announced[incident.ann] = [by |-> round.user, at |-> round.due]
        /\ round.due + Margin <= now
    <3>1. /\ round.due # Never /\ round.pc = "note"
      BY <1>1
    <3>2. incident.by = round.user /\ round.due + Margin <= now
      BY <2>1, <3>1 DEF RemindersInv, RoundOK
    <3>3. incident.ann # 0
      BY <2>1, <3>1 DEF RemindersInv, AnnouncementOK
    <3> QED
      BY <2>1, <3>2, <3>3 DEF RemindersInv, AnnouncementOK
  <2>4. round' \in [pc : {"tell"}, user : Members, due : Nat, ann : Nat]
    BY <1>1, <2>1, <2>3
  <2>5. IncidentTyped'
    BY <1>1, <2>1, <2>2, <2>3, <2>4 DEF RemindersInv, IncidentTyped
  <2>6. AnnouncementOK'
    BY <1>1, <2>2, <2>3 DEF RemindersInv, AnnouncementOK
  <2>7. \A i \in DOMAIN reminders : reminders[i].ann # incident.ann
    BY <2>3 DEF RemindersInv, ToldIsNoted
  <2>8. RoundOK'
    BY <1>1, <2>1, <2>3, <2>7 DEF RoundOK
  <2>9. PostsAhead' /\ ToldIsNoted'
    BY <1>1, <2>1 DEF RemindersInv, PostsAhead, ToldIsNoted
  <2>10. RemindersFitTheirAnnouncement'
    BY <1>1 DEF RemindersInv, RemindersFitTheirAnnouncement
  <2> QED
    BY <2>5, <2>6, <2>8, <2>9, <2>10 DEF RemindersInv
<1> QED
  BY <1>2, <1>3

LEMMA TellOverdueKeeps ==
  ASSUME RemindersInv, TellOverdue
  PROVE  RemindersInv'
<1> DEFINE told == [ann |-> round.ann, user |-> round.user, due |-> round.due, at |-> now]
<1>1. /\ now \in Nat /\ round.pc = "tell" /\ reminders \in Seq(Reminder)
      /\ round \in [pc : {"tell"}, user : Members, due : Nat, ann : Nat]
      /\ round' = AtRest
      /\ reminders' = Append(reminders, told)
      /\ UNCHANGED <<now, incident, posts, announced, noted>>
  BY DEF RemindersInv, IncidentTyped, TellOverdue
<1>2. told \in Reminder
  BY <1>1 DEF Reminder
<1>3. /\ round.ann \in noted
      /\ announced[told.ann] = [by |-> told.user, at |-> told.due]
      /\ told.at >= told.due + Margin
      /\ \A i \in DOMAIN reminders : reminders[i].ann # told.ann
  BY <1>1 DEF RemindersInv, RoundOK
<1>4. told.ann \in noted
  BY <1>3
<1> HIDE DEF told
<1>5. /\ reminders' \in Seq(Reminder)
      /\ DOMAIN reminders' = 1..(Len(reminders) + 1) /\ DOMAIN reminders = 1..Len(reminders)
      /\ Len(reminders) \in Nat /\ reminders'[Len(reminders) + 1] = told
      /\ \A i \in 1..Len(reminders) : reminders'[i] = reminders[i]
  BY <1>1, <1>2
<1>6. IncidentTyped' /\ RoundOK'
  BY <1>1, <1>5 DEF RemindersInv, IncidentTyped, RoundOK
<1>7. AnnouncementOK' /\ PostsAhead'
  BY <1>1 DEF RemindersInv, AnnouncementOK, PostsAhead
<1>8. ToldIsNoted'
  BY <1>1, <1>4, <1>5 DEF RemindersInv, ToldIsNoted
<1>9. RemindersFitTheirAnnouncement'
  <2>1. \A i \in DOMAIN reminders :
          /\ announced[reminders[i].ann] = [by |-> reminders[i].user, at |-> reminders[i].due]
          /\ reminders[i].at >= reminders[i].due + Margin
    BY DEF RemindersInv, RemindersFitTheirAnnouncement
  <2>2. \A i, j \in DOMAIN reminders : reminders[i].ann = reminders[j].ann => i = j
    BY DEF RemindersInv, RemindersFitTheirAnnouncement
  <2>3. \A i \in DOMAIN reminders' :
          /\ announced[reminders'[i].ann] = [by |-> reminders'[i].user, at |-> reminders'[i].due]
          /\ reminders'[i].at >= reminders'[i].due + Margin
    BY <1>3, <1>5, <2>1
  <2>4. \A i, j \in DOMAIN reminders' : reminders'[i].ann = reminders'[j].ann => i = j
    BY <1>3, <1>5, <2>2
  <2> QED
    BY <1>1, <2>3, <2>4 DEF RemindersFitTheirAnnouncement
<1> QED
  BY <1>6, <1>7, <1>8, <1>9 DEF RemindersInv

LEMMA RestartKeepsReminders ==
  ASSUME RemindersInv, Restart
  PROVE  RemindersInv'
<1>1. /\ posts' = [m \in Members |-> AtRest] /\ round' = AtRest
      /\ UNCHANGED <<now, incident, announced, noted, reminders>>
  BY DEF Restart, past
<1>2. IncidentTyped' /\ RoundOK' /\ PostsAhead'
  BY <1>1 DEF RemindersInv, IncidentTyped, RoundOK, PostsAhead
<1>3. AnnouncementOK' /\ ToldIsNoted'
  BY <1>1 DEF RemindersInv, AnnouncementOK, ToldIsNoted
<1>4. RemindersFitTheirAnnouncement'
  BY <1>1 DEF RemindersInv, RemindersFitTheirAnnouncement
<1> QED
  BY <1>2, <1>3, <1>4 DEF RemindersInv

LEMMA TickKeepsReminders ==
  ASSUME RemindersInv, Tick
  PROVE  RemindersInv'
<1>1. /\ \A m \in Members : posts[m] = AtRest
      /\ now' = now + 1 /\ now \in Nat
      /\ UNCHANGED <<incident, posts, round, announced, noted, reminders>>
  BY DEF RemindersInv, IncidentTyped, Tick, past
<1>2. IncidentTyped' /\ PostsAhead'
  BY <1>1 DEF RemindersInv, IncidentTyped, PostsAhead
<1>3. RoundOK'
  <2>1. round.pc \in {"note", "tell"} => round.due \in Nat
    BY DEF RemindersInv, IncidentTyped
  <2> QED
    BY <1>1, <2>1 DEF RemindersInv, RoundOK
<1>4. AnnouncementOK' /\ ToldIsNoted'
  BY <1>1 DEF RemindersInv, AnnouncementOK, ToldIsNoted
<1>5. RemindersFitTheirAnnouncement'
  BY <1>1 DEF RemindersInv, RemindersFitTheirAnnouncement
<1> QED
  BY <1>2, <1>3, <1>4, <1>5 DEF RemindersInv

-----------------------------------------------------------------------------
(* FollowUp: the reviews and the bells                                     *)

ReviewVars == <<reviewing, published, heard>>

LEMMA ReviewsStutter ==
  ASSUME ReviewsInv, UNCHANGED ReviewVars
  PROVE  ReviewsInv'
  BY DEF ReviewsInv, ReviewVars, ReviewToldOnce

Reviewing == {AtRest} \cup [pc : {"save"}] \cup [pc : {"tell"}, n : Nat]

(* A request that begins, corrects, is refused or is cut tells nothing.    *)
LEMMA FewerTell ==
  ASSUME ReviewsInv, reviewing' \in [Members -> Reviewing],
         \A m \in Members : reviewing'[m].pc = "tell" => reviewing'[m] = reviewing[m],
         UNCHANGED <<published, heard>>
  PROVE  ReviewsInv'
<1>1. ReviewToldOnce'
  BY DEF ReviewsInv, ReviewToldOnce
<1>2. published' \in Nat /\ heard' \in Seq(Nat)
  BY DEF ReviewsInv
<1>3. ASSUME NEW m \in Members, reviewing'[m].pc = "tell"
      PROVE  /\ reviewing'[m].n \in 1..published'
             /\ \A i \in DOMAIN heard' : heard'[i] # reviewing'[m].n
             /\ \A other \in Members \ {m} :
                  reviewing'[other].pc = "tell" => reviewing'[other].n # reviewing'[m].n
  BY <1>3 DEF ReviewsInv
<1> QED
  BY <1>1, <1>2, <1>3 DEF ReviewsInv, Reviewing

LEMMA PublishReviewKeeps ==
  ASSUME ReviewsInv, NEW m \in Members, PublishReview(m)
  PROVE  ReviewsInv'
<1>1. /\ reviewing \in [Members -> Reviewing]
      /\ reviewing' = [reviewing EXCEPT ![m] = [pc |-> "save"]]
      /\ UNCHANGED <<published, heard>>
  BY DEF ReviewsInv, PublishReview, past, Reviewing
<1>2. [pc |-> "save"] \in Reviewing
  BY DEF Reviewing
<1>3. reviewing' \in [Members -> Reviewing]
  BY <1>1, <1>2
<1>4. \A other \in Members : reviewing'[other].pc = "tell" =>
        reviewing'[other] = reviewing[other]
  BY <1>1
<1> QED
  BY <1>1, <1>3, <1>4, FewerTell

LEMMA SaveReviewKeeps ==
  ASSUME ReviewsInv, NEW m \in Members, SaveReview(m)
  PROVE  ReviewsInv'
<1>1. /\ reviewing \in [Members -> Reviewing] /\ published \in Nat
      /\ heard' = heard /\ reviewing[m].pc = "save"
  BY DEF ReviewsInv, SaveReview, Reviewing
<1>2. AtRest \in Reviewing
  BY DEF Reviewing
<1>3. CASE Exists /\ review = NoOne
  <2>1. /\ published' = published + 1
        /\ reviewing' = [reviewing EXCEPT ![m] = [pc |-> "tell", n |-> published + 1]]
    BY <1>3 DEF SaveReview, IsFirst
  <2>2. [pc |-> "tell", n |-> published + 1] \in Reviewing
    BY <1>1 DEF Reviewing
  <2>3. reviewing' \in [Members -> Reviewing]
    BY <1>1, <2>1, <2>2
  <2>4. /\ reviewing'[m].pc = "tell" /\ reviewing'[m].n = published + 1
        /\ \A other \in Members \ {m} : reviewing'[other] = reviewing[other]
    BY <1>1, <2>1
  <2>5. /\ \A i \in DOMAIN heard : heard[i] \in 1..published
        /\ \A other \in Members : reviewing[other].pc = "tell" =>
             /\ reviewing[other].n \in 1..published
             /\ \A i \in DOMAIN heard : heard[i] # reviewing[other].n
    BY DEF ReviewsInv, ReviewToldOnce
  <2>6. ReviewToldOnce'
    BY <1>1, <2>1, <2>5 DEF ReviewsInv, ReviewToldOnce
  <2>7. ASSUME NEW k \in Members, reviewing'[k].pc = "tell"
        PROVE  /\ reviewing'[k].n \in 1..published'
               /\ \A i \in DOMAIN heard' : heard'[i] # reviewing'[k].n
               /\ \A other \in Members \ {k} :
                    reviewing'[other].pc = "tell" => reviewing'[other].n # reviewing'[k].n
    <3>1. CASE k = m
      BY <1>1, <2>1, <2>4, <2>5, <3>1
    <3>2. CASE k # m
      <4>1. /\ reviewing[k].pc = "tell" /\ reviewing'[k] = reviewing[k]
            /\ reviewing[k].n \in 1..published
        BY <2>4, <2>5, <2>7, <3>2
      <4>2. \A other \in Members \ {k} :
              reviewing'[other].pc = "tell" => reviewing'[other].n # reviewing[k].n
        <5> TAKE other \in Members \ {k}
        <5>1. CASE other = m
          BY <1>1, <2>4, <4>1, <5>1
        <5>2. CASE other # m
          BY <2>4, <4>1, <5>2 DEF ReviewsInv
        <5> QED
          BY <5>1, <5>2
      <4> QED
        BY <1>1, <2>1, <2>5, <4>1, <4>2
    <3> QED
      BY <3>1, <3>2
  <2> QED
    BY <1>1, <2>1, <2>3, <2>6, <2>7 DEF ReviewsInv, Reviewing
<1>4. CASE ~(Exists /\ review = NoOne)
  <2>1. reviewing' = [reviewing EXCEPT ![m] = AtRest] /\ published' = published
    BY <1>4 DEF SaveReview, IsFirst
  <2>2. reviewing' \in [Members -> Reviewing]
    BY <1>1, <1>2, <2>1
  <2>3. \A other \in Members : reviewing'[other].pc = "tell" =>
          reviewing'[other] = reviewing[other]
    BY <1>1, <2>1
  <2> QED
    BY <1>1, <2>1, <2>2, <2>3, FewerTell
<1> QED
  BY <1>3, <1>4

LEMMA TellReviewKeeps ==
  ASSUME ReviewsInv, NEW m \in Members, TellReview(m)
  PROVE  ReviewsInv'
<1>1. /\ reviewing \in [Members -> Reviewing] /\ published' = published
      /\ published \in Nat /\ heard \in Seq(Nat)
      /\ reviewing[m].pc = "tell"
      /\ heard' = Append(heard, reviewing[m].n)
      /\ reviewing' = [reviewing EXCEPT ![m] = AtRest]
  BY DEF ReviewsInv, TellReview, Reviewing
<1>2. /\ reviewing[m].n \in 1..published
      /\ \A i \in DOMAIN heard : heard[i] # reviewing[m].n
      /\ \A other \in Members \ {m} :
           reviewing[other].pc = "tell" => reviewing[other].n # reviewing[m].n
  BY <1>1 DEF ReviewsInv
<1>3. /\ heard' \in Seq(Nat) /\ Len(heard) \in Nat
      /\ DOMAIN heard' = 1..(Len(heard) + 1) /\ DOMAIN heard = 1..Len(heard)
      /\ heard'[Len(heard) + 1] = reviewing[m].n
      /\ \A i \in 1..Len(heard) : heard'[i] = heard[i]
  BY <1>1, <1>2
<1>4. ReviewToldOnce'
  <2>1. \A i \in DOMAIN heard' : heard'[i] \in 1..published
    BY <1>2, <1>3 DEF ReviewsInv, ReviewToldOnce
  <2>2. \A i, j \in DOMAIN heard' : heard'[i] = heard'[j] => i = j
    <3>1. \A i, j \in 1..Len(heard) : heard[i] = heard[j] => i = j
      BY <1>3 DEF ReviewsInv, ReviewToldOnce
    <3>2. \A i \in 1..Len(heard) : heard'[i] # heard'[Len(heard) + 1]
      BY <1>2, <1>3
    <3> QED
      BY <1>3, <3>1, <3>2
  <2> QED
    BY <1>1, <2>1, <2>2 DEF ReviewToldOnce
<1>5. reviewing' \in [Members -> Reviewing]
  BY <1>1 DEF Reviewing
<1>6. \A other \in Members : reviewing'[other].pc = "tell" =>
        other # m /\ reviewing'[other] = reviewing[other]
  BY <1>1
<1>7. ASSUME NEW k \in Members, reviewing'[k].pc = "tell"
      PROVE  /\ reviewing'[k].n \in 1..published'
             /\ \A i \in DOMAIN heard' : heard'[i] # reviewing'[k].n
             /\ \A other \in Members \ {k} :
                  reviewing'[other].pc = "tell" => reviewing'[other].n # reviewing'[k].n
  <2>1. k # m /\ reviewing'[k] = reviewing[k] /\ reviewing[k].pc = "tell"
    BY <1>6, <1>7
  <2>2. /\ reviewing[k].n \in 1..published
        /\ \A i \in DOMAIN heard : heard[i] # reviewing[k].n
        /\ \A other \in Members \ {k} :
             reviewing[other].pc = "tell" => reviewing[other].n # reviewing[k].n
    BY <2>1 DEF ReviewsInv
  <2>3. \A i \in DOMAIN heard' : heard'[i] # reviewing[k].n
    BY <1>2, <1>3, <2>1, <2>2
  <2>4. \A other \in Members \ {k} :
          reviewing'[other].pc = "tell" => reviewing'[other].n # reviewing[k].n
    BY <1>6, <2>2
  <2> QED
    BY <1>1, <2>1, <2>2, <2>3, <2>4
<1> QED
  BY <1>1, <1>3, <1>4, <1>5, <1>7 DEF ReviewsInv, Reviewing

LEMMA RestartKeepsReviews ==
  ASSUME ReviewsInv, Restart
  PROVE  ReviewsInv'
<1>1. reviewing' = [m \in Members |-> AtRest] /\ UNCHANGED <<published, heard>>
  BY DEF Restart, past
<1>2. reviewing' \in [Members -> Reviewing]
  BY <1>1 DEF Reviewing
<1>3. \A m \in Members : reviewing'[m].pc = "tell" => reviewing'[m] = reviewing[m]
  BY <1>1
<1> QED
  BY <1>1, <1>2, <1>3, FewerTell

LEMMA BellsStutter ==
  ASSUME BellsInv, UNCHANGED <<notices, written>>
  PROVE  BellsInv'
  BY DEF BellsInv, OneUnreadOfEach

NoticeRow == [user : Members, kind : NoticeKind, at : Nat, due : Times, read : BOOLEAN]

(* Rows that are left out or read leave no more unread ones than there     *)
(* were.                                                                   *)
LEMMA FewerUnread ==
  ASSUME BellsInv, written' = written, DOMAIN notices' \subseteq DOMAIN notices,
         \A key \in DOMAIN notices' :
           /\ notices'[key] \in NoticeRow
           /\ notices'[key].user = notices[key].user
           /\ notices'[key].kind = notices[key].kind
           /\ ~notices'[key].read => ~notices[key].read
  PROVE  BellsInv'
<1>1. OneUnreadOfEach'
  BY DEF BellsInv, OneUnreadOfEach
<1> QED
  BY <1>1 DEF BellsInv, NoticeRow

LEMMA DeleteKeepsBells ==
  ASSUME BellsInv, NEW m \in Members, Delete(m)
  PROVE  BellsInv'
<1>1. notices' = [key \in {key \in DOMAIN notices : notices[key].kind # "update_overdue"}
                    |-> notices[key]]
  BY DEF Delete, Restrict
<1>2. written' = written
  BY DEF Delete
<1>3. DOMAIN notices' \subseteq DOMAIN notices
      /\ \A key \in DOMAIN notices' : notices'[key] = notices[key]
  BY <1>1
<1> QED
  BY <1>2, <1>3, FewerUnread DEF BellsInv, NoticeRow

LEMMA PurgeKeepsBells ==
  ASSUME BellsInv, Purge
  PROVE  BellsInv'
<1>1. notices' = [key \in {key \in DOMAIN notices : StillKept(notices[key])}
                    |-> notices[key]]
  BY DEF Purge, Restrict
<1>2. written' = written
  BY DEF Purge
<1>3. DOMAIN notices' \subseteq DOMAIN notices
      /\ \A key \in DOMAIN notices' : notices'[key] = notices[key]
  BY <1>1
<1> QED
  BY <1>2, <1>3, FewerUnread DEF BellsInv, NoticeRow

LEMMA SeenKeepsBells ==
  ASSUME BellsInv, NEW m \in Members, Seen(m)
  PROVE  BellsInv'
<1>1. /\ written' = written
      /\ notices' = [key \in DOMAIN notices |->
           IF notices[key].user = m THEN [notices[key] EXCEPT !.read = TRUE]
           ELSE notices[key]]
  BY DEF Seen
<1>2. DOMAIN notices' = DOMAIN notices
  BY <1>1
<1>3. ASSUME NEW key \in DOMAIN notices'
      PROVE  /\ notices'[key] \in NoticeRow
             /\ notices'[key].user = notices[key].user
             /\ notices'[key].kind = notices[key].kind
             /\ ~notices'[key].read => ~notices[key].read
  <2>1. notices[key] \in NoticeRow
    BY <1>2 DEF BellsInv, NoticeRow
  <2>2. notices'[key] = notices[key] \/ notices'[key] = [notices[key] EXCEPT !.read = TRUE]
    BY <1>1
  <2> QED
    BY <2>1, <2>2 DEF NoticeRow
<1> QED
  BY <1>1, <1>2, <1>3, FewerUnread

(* The rows of one call, of a kind no member has unread, or of the kind    *)
(* each time announced has its own of.                                     *)
LEMMA MoreUnread ==
  ASSUME BellsInv, now \in Nat, NEW users \in SUBSET Members, NEW kind \in NoticeKind,
         NEW due \in Times, NEW dated, DOMAIN dated = DOMAIN notices,
         \A key \in DOMAIN notices :
           /\ dated[key] \in NoticeRow
           /\ dated[key].user = notices[key].user /\ dated[key].kind = notices[key].kind
           /\ dated[key].read = notices[key].read,
         kind # "update_overdue" =>
           \A u \in users : \A key \in DOMAIN notices : ~Same(notices[key], u, kind),
         Insert(dated, users, kind, due)
  PROVE  BellsInv'
<1> DEFINE fresh == {written + 1} \X users
<1>0. written \in Nat /\ written' = written + 1
  BY DEF BellsInv, Insert
<1>1. \A key \in fresh : /\ key[1] = written + 1 /\ key[2] \in users
                         /\ key = <<written + 1, key[2]>>
  OBVIOUS
<1>2. \A key \in DOMAIN notices : key[1] \in 1..written /\ key \notin fresh
  BY <1>0, <1>1 DEF BellsInv
<1>3. /\ DOMAIN notices' = fresh \cup DOMAIN notices
      /\ \A key \in fresh : notices'[key] = Notice(key[2], kind, due)
      /\ \A key \in DOMAIN notices : notices'[key] = dated[key]
  BY <1>2 DEF Insert
<1>6. \A key \in fresh :
        /\ notices'[key].user = key[2] /\ notices'[key].kind = kind
        /\ ~notices'[key].read /\ notices'[key] \in NoticeRow
  <2> TAKE key \in fresh
  <2>1. key[2] \in Members
    BY <1>1
  <2> HIDE DEF fresh
  <2>2. notices'[key] = [user |-> key[2], kind |-> kind, at |-> now, due |-> due,
                         read |-> FALSE]
    BY <1>3 DEF Notice
  <2> QED
    BY <2>1, <2>2 DEF NoticeRow
<1> HIDE DEF fresh
<1>4. \A key \in DOMAIN notices' :
        key \in (1..written') \X Members /\ notices'[key] \in NoticeRow
  BY <1>0, <1>1, <1>3, <1>6 DEF BellsInv, fresh
<1>5. ASSUME NEW i \in DOMAIN notices', NEW j \in DOMAIN notices',
             ~notices'[i].read, ~notices'[j].read, notices'[i].kind # "update_overdue",
             notices'[i].user = notices'[j].user, notices'[i].kind = notices'[j].kind
      PROVE  i = j
  <2>1. CASE i \in fresh /\ j \in fresh
    BY <1>1, <1>3, <1>5, <1>6, <2>1
  <2>2. CASE i \in DOMAIN notices /\ j \in DOMAIN notices
    BY <1>3, <1>5, <2>2 DEF BellsInv, OneUnreadOfEach
  <2>3. CASE i \in fresh /\ j \in DOMAIN notices
    BY <1>1, <1>3, <1>5, <1>6, <2>3 DEF Same
  <2>4. CASE i \in DOMAIN notices /\ j \in fresh
    BY <1>1, <1>3, <1>5, <1>6, <2>4 DEF Same
  <2> QED
    BY <1>3, <2>1, <2>2, <2>3, <2>4
<1> QED
  BY <1>0, <1>4, <1>5 DEF BellsInv, OneUnreadOfEach, NoticeRow

LEMMA AddForRolesKeeps ==
  ASSUME BellsInv, now \in Nat, NEW roles, NEW kind \in NoticeKind, AddForRoles(roles, kind)
  PROVE  BellsInv'
<1> DEFINE users == {u \in Members : role[u] \in roles}
           dated == [key \in DOMAIN notices |->
                  IF /\ notices[key].user \in users
                     /\ Same(notices[key], notices[key].user, kind)
                  THEN [notices[key] EXCEPT !.at = now] ELSE notices[key]]
           new == NewFor(users, kind)
<1>1. Insert(dated, new, kind, Never)
  BY DEF AddForRoles
<1>2. /\ new \in SUBSET Members
      /\ \A u \in new : \A key \in DOMAIN notices : ~Same(notices[key], u, kind)
  BY DEF NewFor
<1>3. ASSUME NEW key \in DOMAIN notices
      PROVE  /\ dated[key] \in NoticeRow
             /\ dated[key].user = notices[key].user /\ dated[key].kind = notices[key].kind
             /\ dated[key].read = notices[key].read
  <2>1. notices[key] \in NoticeRow
    BY DEF BellsInv, NoticeRow
  <2>2. dated[key] = notices[key] \/ dated[key] = [notices[key] EXCEPT !.at = now]
    OBVIOUS
  <2> QED
    BY <2>1, <2>2 DEF NoticeRow
<1>4. DOMAIN dated = DOMAIN notices /\ Never \in Times
  BY DEF Times
<1> HIDE DEF dated, new, users
<1> QED
  BY <1>1, <1>2, <1>3, <1>4, MoreUnread

LEMMA TellOverdueKeepsBells ==
  ASSUME BellsInv, RemindersInv, TellOverdue
  PROVE  BellsInv'
<1>1. CASE ~Exists
  BY <1>1, BellsStutter DEF TellOverdue
<1>2. CASE Exists
  <2>1. /\ now \in Nat /\ round.user \in Members /\ round.due \in Nat
    BY DEF RemindersInv, IncidentTyped, TellOverdue
  <2>2. Insert(notices, {round.user}, "update_overdue", round.due)
    BY <1>2 DEF TellOverdue, AddForMember
  <2>3. \A key \in DOMAIN notices : notices[key] \in NoticeRow
    BY DEF BellsInv, NoticeRow
  <2>4. round.due \in Times /\ {round.user} \in SUBSET Members
    BY <2>1 DEF Times
  <2> QED
    <3> DEFINE users == {round.user}
               kind == "update_overdue"
               due == round.due
    <3>0. kind \in NoticeKind
      BY DEF NoticeKind
    <3>1. users \in SUBSET Members /\ due \in Times
      BY <2>4
    <3>2. Insert(notices, users, kind, due)
      BY <2>2
    <3>3. kind = "update_overdue"
      OBVIOUS
    <3> HIDE DEF users, kind, due
    <3> QED
      BY <2>1, <2>3, <3>0, <3>1, <3>2, <3>3, MoreUnread
<1> QED
  BY <1>1, <1>2

-----------------------------------------------------------------------------
(* FollowUp: every step                                                    *)

LEMMA MemberStepKeeps ==
  ASSUME FollowInv, NEW m \in Members,
         \/ \E step \in Steps, at \in NextUpdates : Announce(m, step, at)
         \/ \E next \in Steps \cup {None}, at \in NextUpdates : PostUpdate(m, next, at)
         \/ PostMove(m) \/ PostAnnounce(m) \/ Revert(m)
  PROVE  FollowInv'
<1> USE DEF FollowInv
<1>1. RemindersInv'
  BY AnnounceKeeps, PostUpdateKeeps, PostMoveKeeps, PostAnnounceKeeps, RevertKeeps
<1>2. UNCHANGED <<notices, written, reviewing, published, heard>>
  BY DEF Announce, PostUpdate, PostMove, PostAnnounce, Revert, others, past
<1>3. ReviewsInv' /\ BellsInv'
  BY <1>2, ReviewsStutter, BellsStutter DEF ReviewVars
<1> QED
  BY <1>1, <1>3

LEMMA DeletionKeeps ==
  ASSUME FollowInv, NEW m \in Members, Delete(m)
  PROVE  FollowInv'
<1>1. UNCHANGED ReviewVars
  BY DEF Delete, ReviewVars, past
<1> QED
  BY <1>1, DeleteKeeps, DeleteKeepsBells, ReviewsStutter DEF FollowInv

LEMMA ReviewStepKeeps ==
  ASSUME FollowInv, NEW m \in Members,
         PublishReview(m) \/ SaveReview(m) \/ TellReview(m) \/ RemoveReview(m)
  PROVE  FollowInv'
<1> USE DEF FollowInv
<1>1. UNCHANGED ReminderVars /\ UNCHANGED <<notices, written>>
  BY DEF PublishReview, SaveReview, TellReview, RemoveReview, ReminderVars, past
<1>2. RemindersInv' /\ BellsInv'
  BY <1>1, RemindersStutter, BellsStutter
<1>3. RemoveReview(m) => UNCHANGED ReviewVars
  BY DEF RemoveReview, ReviewVars, past
<1>4. ReviewsInv'
  BY <1>3, PublishReviewKeeps, SaveReviewKeeps, TellReviewKeeps, ReviewsStutter
<1> QED
  BY <1>2, <1>4

LEMMA BellStepKeeps ==
  ASSUME FollowInv,
         \/ \E m \in Members : Seen(m)
         \/ \E m \in Members, r \in {"reader", "publisher", "disabled"} : SetRole(m, r)
         \/ OutageDetected \/ DeliveryFailed \/ Purge
  PROVE  FollowInv'
<1> USE DEF FollowInv
<1>1. UNCHANGED ReminderVars /\ UNCHANGED ReviewVars
  BY DEF Seen, SetRole, OutageDetected, DeliveryFailed, Purge, ReminderVars, ReviewVars,
    past
<1>2. RemindersInv' /\ ReviewsInv'
  BY <1>1, RemindersStutter, ReviewsStutter
<1>3. now \in Nat
  BY DEF RemindersInv, IncidentTyped
<1>4. OutageDetected \/ DeliveryFailed => BellsInv'
  <2>1. "outage_detected" \in NoticeKind /\ "delivery_failed" \in NoticeKind
    BY DEF NoticeKind
  <2> QED
    BY <1>3, <2>1, AddForRolesKeeps DEF OutageDetected, DeliveryFailed
<1>5. ASSUME NEW m \in Members, NEW r, SetRole(m, r) PROVE BellsInv'
  BY <1>5, BellsStutter DEF SetRole
<1>6. BellsInv'
  BY <1>4, <1>5, SeenKeepsBells, PurgeKeepsBells
<1> QED
  BY <1>2, <1>6

LEMMA RoundStepKeeps ==
  ASSUME FollowInv, RoundStep
  PROVE  FollowInv'
<1> USE DEF FollowInv
<1>1. RemindersInv'
  BY RemindOverdueKeeps, MarkRemindedKeeps, TellOverdueKeeps DEF RoundStep
<1>2. UNCHANGED ReviewVars
  BY DEF RoundStep, RemindOverdue, MarkReminded, TellOverdue, ReviewVars, past
<1>3. RemindOverdue \/ MarkReminded => UNCHANGED <<notices, written>>
  BY DEF RemindOverdue, MarkReminded
<1>4. BellsInv' /\ ReviewsInv'
  BY <1>2, <1>3, TellOverdueKeepsBells, BellsStutter, ReviewsStutter DEF RoundStep
<1> QED
  BY <1>1, <1>4

LEMMA AroundKeeps ==
  ASSUME FollowInv, Restart \/ Tick \/ UNCHANGED followVars
  PROVE  FollowInv'
<1> USE DEF FollowInv
<1>1. UNCHANGED <<notices, written>>
  BY DEF Restart, Tick, followVars
<1>2. BellsInv'
  BY <1>1, BellsStutter
<1>3. Tick \/ UNCHANGED followVars => UNCHANGED ReviewVars
  BY DEF Tick, followVars, ReviewVars, past
<1>4. ReviewsInv'
  BY <1>3, RestartKeepsReviews, ReviewsStutter
<1>5. UNCHANGED followVars => UNCHANGED ReminderVars
  BY DEF followVars, ReminderVars
<1>6. RemindersInv'
  BY <1>5, RestartKeepsReminders, TickKeepsReminders, RemindersStutter
<1> QED
  BY <1>2, <1>4, <1>6

LEMMA FollowStep ==
  ASSUME FollowInv, [FollowNext]_followVars
  PROVE  FollowInv'
  BY MemberStepKeeps, DeletionKeeps, ReviewStepKeeps, BellStepKeeps, RoundStepKeeps,
    AroundKeeps DEF FollowNext

(* Nobody is told twice, for any members, delays and interleavings: a      *)
(* reminder for each time announced, to the one who announced it and after *)
(* its margin, a notice until the bell is opened, a message for each       *)
(* publication of a review (mark_reminded, add_for_roles, save).           *)
THEOREM ToldOnce == FollowSpec => []NothingIsToldTwice
<1>1. FollowInv => NothingIsToldTwice
  BY DEF FollowInv, RemindersInv, ReviewsInv, BellsInv, NothingIsToldTwice
<1> QED
  BY FollowInitInv, FollowStep, <1>1, PTL DEF FollowSpec

HIDE FollowUpAssumption DEF Never, AtRest

-----------------------------------------------------------------------------
(* Journal: the inductive invariant                                        *)

JournalLine == [n : Nat, kind : JournalKind, detail : Words \cup Nat, day : Nat]

(* The lines in the writer's hands, and the one in a request's.            *)
Held == IF writer.pc \in {"received", "writing"} THEN writer.batch ELSE << >>
Hand == IF recording.pc = "kept" THEN {recording.line.n} ELSE {}

GoneSets ==
  [refused : SUBSET Nat, skipped : SUBSET Nat, unsaved : SUBSET Nat,
   forgotten : SUBSET Nat, cut : SUBSET Nat, told : Nat]

LinesTyped ==
  /\ born \in Seq(JournalKind) /\ queue \in Seq(JournalLine)
  /\ DOMAIN Held \subseteq 1..Batch /\ \A i \in DOMAIN Held : Held[i] \in JournalLine
  /\ lastId \in Nat /\ DOMAIN rows \subseteq 1..lastId
  /\ \A id \in DOMAIN rows : rows[id] \in JournalLine
  /\ recording.pc = "kept" => recording.line \in JournalLine
  /\ gone \in GoneSets /\ counting \in Nat /\ dropped \in Nat /\ today \in Nat

(* A line wherever it is has the kind it happened with.                    *)
Honest(line, kinds) == line.n \in 1..Len(kinds) /\ line.kind = kinds[line.n]

LinesHonest ==
  /\ \A i \in DOMAIN queue : Honest(queue[i], born)
  /\ \A i \in DOMAIN Held : Honest(Held[i], born)
  /\ \A id \in DOMAIN rows : Honest(rows[id], born)
  /\ recording.pc = "kept" => Honest(recording.line, born)
  /\ \A n \in gone.refused \cup gone.skipped \cup gone.unsaved \cup gone.forgotten
              \cup gone.cut : n \in 1..Len(born)

(* The caught lines are in order in the queue and in a batch; those stored *)
(* are before those in the writer's hands, and these before those waiting. *)
IsSystem(line) == CategoryOf(line.kind) = "System"

QueueInOrder ==
  /\ \A i \in DOMAIN queue : IsSystem(queue[i])
  /\ \A i, j \in DOMAIN queue : i < j => queue[i].n < queue[j].n
HeldInOrder ==
  /\ \A i \in DOMAIN Held : IsSystem(Held[i])
  /\ \A i, j \in DOMAIN Held : i < j => Held[i].n < Held[j].n
  /\ \A i \in DOMAIN Held, j \in DOMAIN queue : Held[i].n < queue[j].n
RowsInOrder ==
  /\ \A i, j \in DOMAIN rows :
       i < j /\ IsSystem(rows[i]) /\ IsSystem(rows[j]) => rows[i].n < rows[j].n
  /\ \A id \in DOMAIN rows : IsSystem(rows[id]) =>
       /\ \A i \in DOMAIN Held : rows[id].n < Held[i].n
       /\ \A j \in DOMAIN queue : rows[id].n < queue[j].n
  /\ recording.pc = "kept" => ~IsSystem(recording.line)

LinesInOrder == QueueInOrder /\ HeldInOrder /\ RowsInOrder

(* Each of `all` is in one of the places and in one alone.                 *)
Once(places, all) ==
  \A n \in all : \E one \in DOMAIN places :
    n \in places[one] /\ \A other \in DOMAIN places \ {one} : n \notin places[other]

RowsDistinct == \A i, j \in DOMAIN rows : rows[i].n = rows[j].n => i = j

EssentialKept == \A n \in gone.skipped : ~IsEssential(born[n])

LinesOnce == Once(Places, 1..Len(born)) /\ RowsDistinct /\ EssentialKept

JournalInv ==
  LinesTyped /\ LinesHonest /\ LinesInOrder /\ LinesOnce /\ DroppedAreCounted

-----------------------------------------------------------------------------
(* Journal: places                                                         *)

USE JournalAssumption DEF Idle

LEMMA Nine ==
  ASSUME NEW a, NEW b, NEW c, NEW d, NEW e, NEW f, NEW g, NEW h, NEW k,
         NEW places, places = <<a, b, c, d, e, f, g, h, k>>
  PROVE  /\ DOMAIN places = 1..9
         /\ places[1] = a /\ places[2] = b /\ places[3] = c /\ places[4] = d
         /\ places[5] = e /\ places[6] = f /\ places[7] = g /\ places[8] = h
         /\ places[9] = k
  OBVIOUS

LEMMA NoNumbers == Numbers(<< >>) = {}
  BY DEF Numbers

LEMMA PlacesNow ==
  /\ DOMAIN Places = 1..9
  /\ Places[1] = Numbers(queue) /\ Places[2] = Numbers(rows)
  /\ Places[3] = gone.refused /\ Places[4] = gone.skipped /\ Places[5] = gone.unsaved
  /\ Places[6] = gone.forgotten /\ Places[7] = gone.cut
  /\ Places[8] = Numbers(Held) /\ Places[9] = Hand
<1>1. Numbers(Held) = IF writer.pc \in {"received", "writing"}
                      THEN Numbers(writer.batch) ELSE {}
  BY NoNumbers DEF Held
<1>2. Places = <<Numbers(queue), Numbers(rows), gone.refused, gone.skipped,
                 gone.unsaved, gone.forgotten, gone.cut, Numbers(Held), Hand>>
  BY <1>1 DEF Places, Hand
<1> QED
  BY <1>2, Nine

LEMMA PlacesNext ==
  /\ DOMAIN Places' = 1..9
  /\ Places'[1] = Numbers(queue') /\ Places'[2] = Numbers(rows')
  /\ Places'[3] = gone'.refused /\ Places'[4] = gone'.skipped
  /\ Places'[5] = gone'.unsaved /\ Places'[6] = gone'.forgotten
  /\ Places'[7] = gone'.cut /\ Places'[8] = Numbers(Held') /\ Places'[9] = Hand'
<1>1. Numbers(Held') = IF writer'.pc \in {"received", "writing"}
                       THEN Numbers(writer'.batch) ELSE {}
  BY NoNumbers DEF Held
<1>2. Places' = <<Numbers(queue'), Numbers(rows'), gone'.refused, gone'.skipped,
                  gone'.unsaved, gone'.forgotten, gone'.cut, Numbers(Held'), Hand'>>
  BY <1>1 DEF Places, Hand, Numbers
<1> QED
  BY <1>2, Nine

(* A line that happens.                                                    *)
LEMMA BornOnce ==
  ASSUME NEW P, NEW Q, DOMAIN P = DOMAIN Q, NEW all, Once(P, all),
         \A place \in DOMAIN P : P[place] \subseteq all,
         NEW new, new \notin all, NEW to \in DOMAIN P,
         Q[to] = P[to] \cup {new},
         \A place \in DOMAIN P \ {to} : Q[place] = P[place]
  PROVE  Once(Q, all \cup {new})
<1> SUFFICES ASSUME NEW n \in all \cup {new}
             PROVE  \E one \in DOMAIN Q :
                      n \in Q[one] /\ \A other \in DOMAIN Q \ {one} : n \notin Q[other]
  BY DEF Once
<1>1. CASE n = new
  BY <1>1
<1>2. CASE n \in all
  <2>1. PICK one \in DOMAIN P :
          n \in P[one] /\ \A other \in DOMAIN P \ {one} : n \notin P[other]
    BY <1>2 DEF Once
  <2>2. \A place \in DOMAIN P : n \in Q[place] <=> n \in P[place]
    BY <1>2
  <2> QED
    BY <2>1, <2>2
<1> QED
  BY <1>1, <1>2

LEMMA PlacesBounded ==
  ASSUME LinesTyped, LinesHonest
  PROVE  \A place \in DOMAIN Places : Places[place] \subseteq 1..Len(born)
<1>1. /\ Numbers(queue) \subseteq 1..Len(born) /\ Numbers(rows) \subseteq 1..Len(born)
      /\ Numbers(Held) \subseteq 1..Len(born)
  BY DEF LinesHonest, Honest, Numbers
<1>2. Hand \subseteq 1..Len(born)
  BY DEF LinesHonest, Honest, Hand
<1>3. /\ gone.refused \subseteq 1..Len(born) /\ gone.skipped \subseteq 1..Len(born)
      /\ gone.unsaved \subseteq 1..Len(born) /\ gone.forgotten \subseteq 1..Len(born)
      /\ gone.cut \subseteq 1..Len(born)
  BY DEF LinesHonest
<1> SUFFICES ASSUME NEW place \in 1..9 PROVE Places[place] \subseteq 1..Len(born)
  BY PlacesNow
<1>4. place \in {1, 2, 3, 4, 5, 6, 7, 8, 9}
  OBVIOUS
<1> QED
  BY <1>1, <1>2, <1>3, <1>4, PlacesNow

LEMMA JournalInitInv == Init => JournalInv
<1> SUFFICES ASSUME Init PROVE JournalInv
  OBVIOUS
<1>1. /\ queue = << >> /\ counting = 0 /\ dropped = 0
      /\ writer = Idle /\ recording = Idle
      /\ rows = << >> /\ lastId = 0 /\ today = 0 /\ born = << >>
      /\ gone = [refused |-> {}, skipped |-> {}, unsaved |-> {}, forgotten |-> {},
                 cut |-> {}, told |-> 0]
  BY DEF Init
<1>2. Held = << >> /\ recording.pc # "kept"
  BY <1>1 DEF Held
<1>3. LinesTyped
  BY <1>1, <1>2 DEF LinesTyped, GoneSets
<1>4. LinesHonest
  BY <1>1, <1>2 DEF LinesHonest
<1>5. LinesInOrder
  BY <1>1, <1>2 DEF LinesInOrder, QueueInOrder, HeldInOrder, RowsInOrder
<1>6. LinesOnce
  <2>1. 1..Len(born) = {} /\ DOMAIN rows = {} /\ gone.skipped = {}
    BY <1>1
  <2> QED
    BY <2>1 DEF LinesOnce, Once, RowsDistinct, EssentialKept
<1>7. DroppedAreCounted
  BY <1>1, FS_EmptySet DEF DroppedAreCounted
<1> QED
  BY <1>3, <1>4, <1>5, <1>6, <1>7 DEF JournalInv

(* Only where lines are matters to the invariant.                          *)
LineVars == <<queue, Held, rows, lastId, recording, born, gone, counting, dropped>>

LEMMA LinesStutter ==
  ASSUME JournalInv, UNCHANGED LineVars, today' \in Nat
  PROVE  JournalInv'
<1> USE DEF JournalInv, LineVars
<1>1. LinesTyped'
  BY DEF LinesTyped
<1>2. LinesHonest'
  BY DEF LinesHonest, Honest
<1>3. LinesInOrder'
  BY DEF LinesInOrder, QueueInOrder, HeldInOrder, RowsInOrder, IsSystem
<1>4. LinesOnce'
  <2>1. Hand' = Hand
    BY DEF Hand
  <2>2. Once(Places', 1..Len(born'))
    <3> DEFINE P == Places
               Q == Places'
    <3>1. DOMAIN P = 1..9 /\ DOMAIN Q = 1..9 /\ \A place \in 1..9 : P[place] = Q[place]
      BY <2>1, PlacesNow, PlacesNext
    <3>2. Once(P, 1..Len(born))
      BY DEF LinesOnce
    <3> HIDE DEF P, Q
    <3>3. Once(Q, 1..Len(born))
      BY <3>1, <3>2 DEF Once
    <3> QED
      BY <3>3 DEF Q
  <2> QED
    BY <2>2 DEF LinesOnce, RowsDistinct, EssentialKept, Once
<1>5. DroppedAreCounted'
  BY DEF DroppedAreCounted
<1> QED
  BY <1>1, <1>2, <1>3, <1>4, <1>5

(* What happens to the lines when one more is born.                        *)
LEMMA Born ==
  ASSUME LinesTyped, LinesHonest, NEW kind \in JournalKind, born' = Append(born, kind)
  PROVE  /\ Len(born) \in Nat /\ Len(born') = Len(born) + 1
         /\ born' \in Seq(JournalKind) /\ born'[Len(born')] = kind
         /\ 1..Len(born') = 1..Len(born) \cup {Len(born')}
         /\ Len(born') \notin 1..Len(born)
         /\ \A n \in 1..Len(born) : born'[n] = born[n]
  BY DEF LinesTyped

LEMMA BornAt ==
  ASSUME JournalInv, NEW kind \in JournalKind, born' = Append(born, kind),
         NEW to \in 1..9, Places'[to] = Places[to] \cup {Len(born')},
         \A place \in 1..9 \ {to} : Places'[place] = Places[place]
  PROVE  Once(Places', 1..Len(born'))
<1> DEFINE P == Places
           Q == Places'
           all == 1..Len(born)
           new == Len(born')
<1>1. 1..Len(born') = all \cup {new} /\ new \notin all
  BY Born DEF JournalInv
<1>2. DOMAIN P = 1..9 /\ DOMAIN Q = 1..9
  BY PlacesNow, PlacesNext
<1>3. Once(P, all) /\ \A place \in DOMAIN P : P[place] \subseteq all
  BY PlacesBounded DEF JournalInv, LinesOnce
<1>4. Q[to] = P[to] \cup {new} /\ \A place \in 1..9 \ {to} : Q[place] = P[place]
  OBVIOUS
<1> HIDE DEF P, Q, all, new
<1>5. Once(Q, all \cup {new})
  BY <1>1, <1>2, <1>3, <1>4, BornOnce
<1> QED
  BY <1>1, <1>5 DEF Q

LEMMA MovedTo ==
  ASSUME JournalInv, born' = born, NEW to \in 1..9,
         \A place \in 1..9 \ {to} :
           /\ Places'[place] \subseteq Places[place]
           /\ Places[place] \subseteq Places'[place] \cup Places'[to],
         Places[to] \subseteq Places'[to],
         \A n \in Places'[to] \ Places[to] :
           \E from \in 1..9 \ {to} : n \in Places[from] /\ n \notin Places'[from]
  PROVE  Once(Places', 1..Len(born'))
<1> DEFINE P == Places
           Q == Places'
           all == 1..Len(born)
<1>1. DOMAIN P = 1..9 /\ DOMAIN Q = 1..9
  BY PlacesNow, PlacesNext
<1>2. Once(P, all)
  BY DEF JournalInv, LinesOnce
<1>3. /\ \A place \in 1..9 \ {to} : Q[place] \subseteq P[place]
      /\ \A place \in 1..9 \ {to} : P[place] \subseteq Q[place] \cup Q[to]
      /\ P[to] \subseteq Q[to]
      /\ \A n \in Q[to] \ P[to] :
           \E from \in 1..9 \ {to} : n \in P[from] /\ n \notin Q[from]
  OBVIOUS
<1>4. all = 1..Len(born')
  OBVIOUS
<1> HIDE DEF P, Q, all
<1>5. Once(Q, all)
  <2> SUFFICES ASSUME NEW n \in all
               PROVE  \E one \in 1..9 :
                        n \in Q[one] /\ \A other \in 1..9 \ {one} : n \notin Q[other]
    BY <1>1 DEF Once
  <2>1. PICK one \in 1..9 :
          n \in P[one] /\ \A other \in 1..9 \ {one} : n \notin P[other]
    BY <1>1, <1>2 DEF Once
  <2>2. CASE n \in P[to]
    BY <1>3, <2>1, <2>2
  <2>3. CASE n \in Q[to] /\ n \notin P[to]
    <3>1. n \notin Q[one] \/ one = to
      BY <1>3, <2>1, <2>3
    <3>2. \A other \in 1..9 \ {to} : n \notin Q[other]
      BY <1>3, <2>1, <3>1
    <3> QED
      BY <2>3, <3>2
  <2>4. CASE n \notin Q[to]
    BY <1>3, <2>1, <2>4
  <2> QED
    BY <2>2, <2>3, <2>4
<1> QED
  BY <1>4, <1>5 DEF Q

LEMMA StayedThere ==
  ASSUME JournalInv, born' = born, \A place \in 1..9 : Places'[place] = Places[place]
  PROVE  Once(Places', 1..Len(born'))
<1> DEFINE P == Places
           Q == Places'
<1>1. DOMAIN P = 1..9 /\ DOMAIN Q = 1..9 /\ \A place \in 1..9 : Q[place] = P[place]
  BY PlacesNow, PlacesNext
<1>2. Once(P, 1..Len(born))
  BY DEF JournalInv, LinesOnce
<1> HIDE DEF P, Q
<1>3. Once(Q, 1..Len(born))
  BY <1>1, <1>2 DEF Once
<1> QED
  BY <1>3 DEF Q

LEMMA LevelsCaught ==
  \A kind \in {"AppError", "AppWarning"} :
    /\ IsCaught("statup", Level(kind)) /\ CategoryOf(kind) = "System" /\ kind \in JournalKind
  BY DEF IsCaught, Level, CategoryOf, JournalKind

LEMMA LogQueued ==
  ASSUME JournalInv, NEW kind \in {"AppError", "AppWarning"}, NEW detail \in Words,
         Log(kind, detail), Len(queue) < Queue
  PROVE  JournalInv'
<1> USE DEF JournalInv
<1> DEFINE line == [n |-> Len(born'), kind |-> kind, detail |-> detail, day |-> 0]
<1>1. /\ born' = Append(born, kind) /\ queue' = Append(queue, line)
      /\ UNCHANGED <<counting, gone, dropped, writer, recording, rows, lastId, today>>
  BY LevelsCaught DEF Log, Caught
<1>2. /\ Len(born) \in Nat /\ Len(born') = Len(born) + 1
      /\ born' \in Seq(JournalKind) /\ born'[Len(born')] = kind
      /\ 1..Len(born') = 1..Len(born) \cup {Len(born')}
      /\ Len(born') \notin 1..Len(born)
      /\ \A n \in 1..Len(born) : born'[n] = born[n]
  BY <1>1, LevelsCaught, Born
<1>3. line \in JournalLine /\ line.n = Len(born') /\ line.kind = kind
  BY <1>2, LevelsCaught DEF JournalLine
<1>4. IsSystem(line)
  BY LevelsCaught DEF IsSystem
<1>5. Held' = Held /\ Hand' = Hand
  BY <1>1 DEF Held, Hand
<1> HIDE DEF line
<1>6. queue \in Seq(JournalLine) /\ Len(queue) \in Nat
  BY DEF LinesTyped
<1>7. /\ queue' \in Seq(JournalLine) /\ DOMAIN queue' = 1..(Len(queue) + 1)
      /\ DOMAIN queue = 1..Len(queue)
      /\ queue'[Len(queue) + 1] = line
      /\ \A i \in 1..Len(queue) : queue'[i] = queue[i]
  BY <1>1, <1>3, <1>6
<1>8. LinesTyped'
  BY <1>1, <1>2, <1>5, <1>7 DEF LinesTyped
<1>9. LinesHonest'
  <2>1. Honest(line, born')
    BY <1>2, <1>3 DEF Honest
  <2>2. \A other : Honest(other, born) => Honest(other, born')
    BY <1>2 DEF Honest
  <2>3. \A i \in DOMAIN queue' : Honest(queue'[i], born')
    BY <1>7, <2>1, <2>2 DEF LinesHonest
  <2> QED
    BY <1>1, <1>2, <1>5, <2>2, <2>3 DEF LinesHonest
<1>10. LinesInOrder'
  <2>1. \A i \in DOMAIN queue : queue[i].n < line.n
    BY <1>2, <1>3 DEF LinesHonest, Honest
  <2>2. QueueInOrder'
    BY <1>4, <1>7, <2>1 DEF LinesInOrder, QueueInOrder, IsSystem
  <2>3. HeldInOrder'
    <3>1. \A i \in DOMAIN Held : Held[i].n < line.n
      BY <1>2, <1>3 DEF LinesHonest, Honest
    <3> QED
      BY <1>5, <1>7, <3>1 DEF LinesInOrder, HeldInOrder, IsSystem
  <2>4. RowsInOrder'
    <3>1. \A id \in DOMAIN rows : rows[id].n < line.n
      BY <1>2, <1>3 DEF LinesHonest, Honest
    <3> QED
      BY <1>1, <1>5, <1>7, <3>1 DEF LinesInOrder, RowsInOrder, IsSystem
  <2> QED
    BY <2>2, <2>3, <2>4 DEF LinesInOrder
<1>11. LinesOnce'
  <2>1. Numbers(queue') = Numbers(queue) \cup {Len(born')}
    BY <1>3, <1>7 DEF Numbers
  <2>2. /\ Places'[1] = Places[1] \cup {Len(born')}
        /\ \A place \in 1..9 \ {1} : Places'[place] = Places[place]
    <3>1. \A place \in 1..9 \ {1} : place \in {2, 3, 4, 5, 6, 7, 8, 9}
      OBVIOUS
    <3> QED
      BY <1>1, <1>5, <2>1, <3>1, PlacesNow, PlacesNext
  <2>3. Once(Places', 1..Len(born'))
    BY <1>1, <2>2, LevelsCaught, BornAt
  <2>4. RowsDistinct' /\ EssentialKept'
    BY <1>1, <1>2 DEF LinesOnce, RowsDistinct, EssentialKept, LinesHonest
  <2> QED
    BY <2>3, <2>4 DEF LinesOnce, Once
<1>12. DroppedAreCounted'
  BY <1>1 DEF DroppedAreCounted
<1> QED
  BY <1>8, <1>9, <1>10, <1>11, <1>12

(* What every action that only adds a line or takes one away leaves.       *)
LEMMA HonestGrows ==
  ASSUME LinesTyped, LinesHonest, NEW kind \in JournalKind, born' = Append(born, kind)
  PROVE  \A line : Honest(line, born) => Honest(line, born')
  BY Born DEF Honest

LEMMA LogRefused ==
  ASSUME JournalInv, NEW kind \in {"AppError", "AppWarning"}, NEW detail \in Words,
         Log(kind, detail), ~(Len(queue) < Queue)
  PROVE  JournalInv'
<1> USE DEF JournalInv
<1>1. /\ born' = Append(born, kind) /\ counting' = counting + 1
      /\ gone' = [gone EXCEPT !.refused = @ \cup {Len(born')}]
      /\ UNCHANGED <<queue, dropped, writer, recording, rows, lastId, today>>
  BY LevelsCaught DEF Log, Caught
<1>2. /\ Len(born) \in Nat /\ Len(born') = Len(born) + 1
      /\ born' \in Seq(JournalKind)
      /\ 1..Len(born') = 1..Len(born) \cup {Len(born')}
      /\ Len(born') \notin 1..Len(born)
      /\ \A n \in 1..Len(born) : born'[n] = born[n]
  BY <1>1, LevelsCaught, Born
<1>3. Held' = Held /\ Hand' = Hand
  BY <1>1 DEF Held, Hand
<1>4. gone \in GoneSets /\ counting \in Nat /\ dropped \in Nat
  BY DEF LinesTyped
<1>5. /\ gone' \in GoneSets /\ gone'.refused = gone.refused \cup {Len(born')}
      /\ gone'.skipped = gone.skipped /\ gone'.unsaved = gone.unsaved
      /\ gone'.forgotten = gone.forgotten /\ gone'.cut = gone.cut
      /\ gone'.told = gone.told
  <2> DEFINE more == {Len(born')}
  <2>1. more \in SUBSET Nat
    BY <1>2
  <2>2. gone' = [gone EXCEPT !.refused = @ \cup more]
    BY <1>1
  <2> HIDE DEF more
  <2>3. /\ gone' \in GoneSets /\ gone'.refused = gone.refused \cup more
        /\ gone'.skipped = gone.skipped /\ gone'.unsaved = gone.unsaved
        /\ gone'.forgotten = gone.forgotten /\ gone'.cut = gone.cut
        /\ gone'.told = gone.told
    BY <1>4, <2>1, <2>2 DEF GoneSets
  <2> QED
    BY <2>3 DEF more
<1>6. LinesTyped'
  <2>1. /\ queue' \in Seq(JournalLine) /\ DOMAIN Held' \subseteq 1..Batch
        /\ \A n \in DOMAIN Held' : Held'[n] \in JournalLine
    BY <1>1, <1>3 DEF LinesTyped
  <2>2. /\ lastId' \in Nat /\ DOMAIN rows' \subseteq 1..lastId'
        /\ \A id \in DOMAIN rows' : rows'[id] \in JournalLine
    BY <1>1 DEF LinesTyped
  <2>3. /\ recording'.pc = "kept" => recording'.line \in JournalLine
        /\ counting' \in Nat /\ dropped' \in Nat /\ today' \in Nat
    BY <1>1, <1>4 DEF LinesTyped
  <2> QED BY <1>2, <1>5, <2>1, <2>2, <2>3 DEF LinesTyped
<1>7. LinesHonest'
  <2>1. \A line : Honest(line, born) => Honest(line, born')
    BY <1>1, LevelsCaught, HonestGrows
  <2> QED
    BY <1>1, <1>2, <1>3, <1>5, <2>1 DEF LinesHonest
<1>8. LinesInOrder'
  BY <1>1, <1>3 DEF LinesInOrder, QueueInOrder, HeldInOrder, RowsInOrder, IsSystem
<1>9. LinesOnce'
  <2>1. /\ Places'[3] = Places[3] \cup {Len(born')}
        /\ \A place \in 1..9 \ {3} : Places'[place] = Places[place]
    <3>1. \A place \in 1..9 \ {3} : place \in {1, 2, 4, 5, 6, 7, 8, 9}
      OBVIOUS
    <3> QED
      BY <1>1, <1>3, <1>5, <3>1, PlacesNow, PlacesNext
  <2>2. Once(Places', 1..Len(born'))
    BY <1>1, <2>1, LevelsCaught, BornAt
  <2>3. RowsDistinct' /\ EssentialKept'
    BY <1>1, <1>2, <1>5 DEF LinesOnce, RowsDistinct, EssentialKept, LinesHonest
  <2> QED
    BY <2>2, <2>3 DEF LinesOnce, Once
<1>10. DroppedAreCounted'
  <2>1. gone.refused \subseteq 1..Len(born)
    BY DEF LinesHonest
  <2>5. IsFiniteSet(1..Len(born))
    BY <1>2, FS_Interval
  <2>2. IsFiniteSet(gone.refused) /\ Len(born') \notin gone.refused
    BY <1>2, <2>1, <2>5, FS_Subset
  <2>3. Cardinality(gone.refused \cup {Len(born')}) = Cardinality(gone.refused) + 1
    BY <2>2, FS_AddElement
  <2>4. gone.told \in Nat
    BY <1>4 DEF GoneSets
  <2> QED
    BY <1>1, <1>4, <1>5, <2>3, <2>4 DEF DroppedAreCounted
<1> QED
  BY <1>6, <1>7, <1>8, <1>9, <1>10

LEMMA CountDroppedKeeps ==
  ASSUME JournalInv, CountDropped
  PROVE  JournalInv'
<1> USE DEF JournalInv
<1>1. /\ counting \in Nat /\ counting > 0 /\ counting' = counting - 1
      /\ dropped' = dropped + 1 /\ dropped \in Nat
      /\ UNCHANGED <<queue, writer, recording, rows, lastId, today, born, gone>>
  BY DEF LinesTyped, CountDropped
<1>2. Held' = Held /\ Hand' = Hand
  BY <1>1 DEF Held, Hand
<1>3. LinesTyped'
  BY <1>1, <1>2 DEF LinesTyped
<1>4. LinesHonest'
  BY <1>1, <1>2 DEF LinesHonest
<1>5. LinesInOrder'
  BY <1>1, <1>2 DEF LinesInOrder, QueueInOrder, HeldInOrder, RowsInOrder, IsSystem
<1>6. LinesOnce'
  <2>1. \A place \in 1..9 : Places'[place] = Places[place]
    <3>1. \A place \in 1..9 : place \in {1, 2, 3, 4, 5, 6, 7, 8, 9}
      OBVIOUS
    <3> QED
      BY <1>1, <1>2, <3>1, PlacesNow, PlacesNext
  <2>2. Once(Places', 1..Len(born'))
    BY <1>1, <2>1, StayedThere
  <2> QED
    BY <1>1, <2>2 DEF LinesOnce, RowsDistinct, EssentialKept, Once
<1>7. DroppedAreCounted'
  <2>1. gone.told \in Nat
    BY DEF LinesTyped, GoneSets
  <2> QED
    BY <1>1, <2>1 DEF DroppedAreCounted
<1> QED
  BY <1>3, <1>4, <1>5, <1>6, <1>7

LEMMA RecordKept ==
  ASSUME JournalInv, NEW kind \in {"OutageDetected", "CheckFailed"}, Record(kind),
         Kept(kind, ~IsEssential(kind) /\ settings.detailed)
  PROVE  JournalInv'
<1> USE DEF JournalInv
<1> DEFINE line == [n |-> Len(born'), kind |-> kind, day |-> 0,
                    detail |-> IF kind = "CheckFailed" THEN Len(born') ELSE 1]
<1>0. kind \in JournalKind /\ CategoryOf(kind) # "System"
  BY DEF JournalKind, CategoryOf
<1>1. /\ born' = Append(born, kind) /\ recording.pc = "idle"
      /\ recording' = [pc |-> "kept", line |-> line]
      /\ UNCHANGED <<queue, counting, gone, dropped, writer, rows, lastId, today>>
  BY DEF Record, Caught, IsCaught
<1>2. /\ Len(born) \in Nat /\ Len(born') = Len(born) + 1
      /\ born' \in Seq(JournalKind) /\ born'[Len(born')] = kind
      /\ 1..Len(born') = 1..Len(born) \cup {Len(born')}
      /\ Len(born') \notin 1..Len(born)
      /\ \A n \in 1..Len(born) : born'[n] = born[n]
  BY <1>0, <1>1, Born
<1>3. line \in JournalLine /\ line.n = Len(born') /\ line.kind = kind
  BY <1>0, <1>2 DEF JournalLine
<1>4. recording'.pc = "kept" /\ recording'.line = line
  BY <1>1
<1> HIDE DEF line
<1>5. Held' = Held /\ Hand = {} /\ Hand' = {Len(born')}
  BY <1>1, <1>3, <1>4 DEF Held, Hand
<1>6. LinesTyped'
  BY <1>1, <1>2, <1>3, <1>4, <1>5 DEF LinesTyped
<1>7. LinesHonest'
  <2>1. \A other : Honest(other, born) => Honest(other, born')
    BY <1>0, <1>1, HonestGrows
  <2>2. Honest(line, born')
    BY <1>2, <1>3 DEF Honest
  <2> QED
    BY <1>1, <1>2, <1>4, <1>5, <2>1, <2>2 DEF LinesHonest
<1>8. LinesInOrder'
  BY <1>0, <1>1, <1>3, <1>4, <1>5
    DEF LinesInOrder, QueueInOrder, HeldInOrder, RowsInOrder, IsSystem
<1>9. LinesOnce'
  <2>1. /\ Places'[9] = Places[9] \cup {Len(born')}
        /\ \A place \in 1..9 \ {9} : Places'[place] = Places[place]
    <3>1. \A place \in 1..9 \ {9} : place \in {1, 2, 3, 4, 5, 6, 7, 8}
      OBVIOUS
    <3> QED
      BY <1>1, <1>5, <3>1, PlacesNow, PlacesNext
  <2>2. Once(Places', 1..Len(born'))
    BY <1>0, <1>1, <2>1, BornAt
  <2>3. RowsDistinct' /\ EssentialKept'
    BY <1>1, <1>2 DEF LinesOnce, RowsDistinct, EssentialKept, LinesHonest
  <2> QED
    BY <2>2, <2>3 DEF LinesOnce, Once
<1>10. DroppedAreCounted'
  BY <1>1 DEF DroppedAreCounted
<1> QED
  BY <1>6, <1>7, <1>8, <1>9, <1>10

LEMMA RecordSkipped ==
  ASSUME JournalInv, NEW kind \in {"OutageDetected", "CheckFailed"}, Record(kind),
         ~Kept(kind, ~IsEssential(kind) /\ settings.detailed)
  PROVE  JournalInv'
<1> USE DEF JournalInv
<1>0. kind \in JournalKind /\ ~IsEssential(kind)
  BY DEF JournalKind, Kept
<1>1. /\ born' = Append(born, kind)
      /\ gone' = [gone EXCEPT !.skipped = @ \cup {Len(born')}]
      /\ UNCHANGED <<queue, counting, recording, dropped, writer, rows, lastId, today>>
  BY DEF Record
<1>2. /\ Len(born) \in Nat /\ Len(born') = Len(born) + 1
      /\ born' \in Seq(JournalKind) /\ born'[Len(born')] = kind
      /\ 1..Len(born') = 1..Len(born) \cup {Len(born')}
      /\ Len(born') \notin 1..Len(born)
      /\ \A n \in 1..Len(born) : born'[n] = born[n]
  BY <1>0, <1>1, Born
<1>3. Held' = Held /\ Hand' = Hand
  BY <1>1 DEF Held, Hand
<1>5. /\ gone' \in GoneSets /\ gone'.skipped = gone.skipped \cup {Len(born')}
      /\ gone'.refused = gone.refused /\ gone'.unsaved = gone.unsaved
      /\ gone'.forgotten = gone.forgotten /\ gone'.cut = gone.cut
      /\ gone'.told = gone.told
  <2> DEFINE more == {Len(born')}
  <2>1. more \in SUBSET Nat
    BY <1>2
  <2>2. gone' = [gone EXCEPT !.skipped = @ \cup more] /\ gone \in GoneSets
    BY <1>1 DEF LinesTyped
  <2> HIDE DEF more
  <2>3. /\ gone' \in GoneSets /\ gone'.skipped = gone.skipped \cup more
        /\ gone'.refused = gone.refused /\ gone'.unsaved = gone.unsaved
        /\ gone'.forgotten = gone.forgotten /\ gone'.cut = gone.cut
        /\ gone'.told = gone.told
    BY <2>1, <2>2 DEF GoneSets
  <2> QED
    BY <2>3 DEF more
<1>6. LinesTyped'
  BY <1>1, <1>2, <1>3, <1>5 DEF LinesTyped
<1>7. LinesHonest'
  <2>1. \A line : Honest(line, born) => Honest(line, born')
    BY <1>0, <1>1, HonestGrows
  <2> QED
    BY <1>1, <1>2, <1>3, <1>5, <2>1 DEF LinesHonest
<1>8. LinesInOrder'
  BY <1>1, <1>3 DEF LinesInOrder, QueueInOrder, HeldInOrder, RowsInOrder, IsSystem
<1>9. LinesOnce'
  <2>1. /\ Places'[4] = Places[4] \cup {Len(born')}
        /\ \A place \in 1..9 \ {4} : Places'[place] = Places[place]
    <3>1. \A place \in 1..9 \ {4} : place \in {1, 2, 3, 5, 6, 7, 8, 9}
      OBVIOUS
    <3> QED
      BY <1>1, <1>3, <1>5, <3>1, PlacesNow, PlacesNext
  <2>2. Once(Places', 1..Len(born'))
    BY <1>0, <1>1, <2>1, BornAt
  <2>3. RowsDistinct'
    BY <1>1 DEF LinesOnce, RowsDistinct
  <2>4. EssentialKept'
    BY <1>0, <1>2, <1>5 DEF LinesOnce, EssentialKept, LinesHonest
  <2> QED
    BY <2>2, <2>3, <2>4 DEF LinesOnce, Once
<1>10. DroppedAreCounted'
  BY <1>1, <1>5 DEF DroppedAreCounted
<1> QED
  BY <1>6, <1>7, <1>8, <1>9, <1>10

(* A line is in one place only.                                            *)
LEMMA NotElsewhere ==
  ASSUME LinesTyped, LinesHonest, LinesOnce, NEW one \in 1..9, NEW other \in 1..9,
         one # other, NEW n \in Places[one]
  PROVE  n \notin Places[other]
<1>1. n \in 1..Len(born) /\ DOMAIN Places = 1..9
  BY PlacesBounded, PlacesNow
<1>2. PICK alone \in DOMAIN Places :
        n \in Places[alone] /\ \A place \in DOMAIN Places \ {alone} : n \notin Places[place]
  BY <1>1 DEF LinesOnce, Once
<1> QED
  BY <1>1, <1>2

LEMMA RecordUnsaved ==
  ASSUME JournalInv, RecordWith, recording' = Idle,
         gone' = [gone EXCEPT !.unsaved = @ \cup {recording.line.n}],
         UNCHANGED <<rows, lastId, queue, counting>>
  PROVE  JournalInv'
<1> USE DEF JournalInv
<1>1. /\ recording.pc = "kept" /\ UNCHANGED <<dropped, writer, today, born>>
  BY DEF RecordWith
<1>2. recording.line \in JournalLine /\ recording.line.n \in Nat
      /\ recording.line.n \in 1..Len(born)
  BY <1>1 DEF LinesTyped, LinesHonest, Honest, JournalLine
<1>3. Held' = Held /\ Hand = {recording.line.n} /\ Hand' = {}
  BY <1>1 DEF Held, Hand
<1>5. /\ gone' \in GoneSets /\ gone'.unsaved = gone.unsaved \cup {recording.line.n}
      /\ gone'.refused = gone.refused /\ gone'.skipped = gone.skipped
      /\ gone'.forgotten = gone.forgotten /\ gone'.cut = gone.cut
      /\ gone'.told = gone.told
  <2> DEFINE more == {recording.line.n}
  <2>1. more \in SUBSET Nat
    BY <1>2
  <2>2. gone' = [gone EXCEPT !.unsaved = @ \cup more] /\ gone \in GoneSets
    BY <1>1 DEF LinesTyped
  <2> HIDE DEF more
  <2>3. /\ gone' \in GoneSets /\ gone'.unsaved = gone.unsaved \cup more
        /\ gone'.refused = gone.refused /\ gone'.skipped = gone.skipped
        /\ gone'.forgotten = gone.forgotten /\ gone'.cut = gone.cut
        /\ gone'.told = gone.told
    BY <2>1, <2>2 DEF GoneSets
  <2> QED
    BY <2>3 DEF more
<1>4. recording'.pc # "kept"
  OBVIOUS
<1>6. LinesTyped'
  BY <1>1, <1>3, <1>4, <1>5 DEF LinesTyped
<1>7. LinesHonest'
  BY <1>1, <1>2, <1>3, <1>4, <1>5 DEF LinesHonest
<1>8. LinesInOrder'
  BY <1>1, <1>3, <1>4
    DEF LinesInOrder, QueueInOrder, HeldInOrder, RowsInOrder, IsSystem
<1>9. LinesOnce'
  <2>1. /\ Places'[5] = Places[5] \cup Places[9]
        /\ Places'[9] = {}
    BY <1>3, <1>5, PlacesNow, PlacesNext
  <2>2. \A place \in 1..9 \ {5, 9} : Places'[place] = Places[place]
    <3>1. \A place \in 1..9 \ {5, 9} : place \in {1, 2, 3, 4, 6, 7, 8}
      OBVIOUS
    <3> QED
      BY <1>1, <1>3, <1>5, <3>1, PlacesNow, PlacesNext
  <2>4. Once(Places', 1..Len(born'))
    <3>1. \A place \in 1..9 \ {5} :
            /\ Places'[place] \subseteq Places[place]
            /\ Places[place] \subseteq Places'[place] \cup Places'[5]
      BY <2>1, <2>2
    <3>2. born' = born /\ Places[5] \subseteq Places'[5]
      BY <1>1, <2>1
    <3>3. \A n \in Places'[5] \ Places[5] : n \in Places[9] /\ n \notin Places'[9]
      BY <2>1, <2>2
    <3> QED
      BY <3>1, <3>2, <3>3, MovedTo
  <2>5. RowsDistinct' /\ EssentialKept'
    BY <1>1, <1>5 DEF LinesOnce, RowsDistinct, EssentialKept
  <2> QED
    BY <2>4, <2>5 DEF LinesOnce, Once
<1>10. DroppedAreCounted'
  BY <1>1, <1>5 DEF DroppedAreCounted
<1> QED
  BY <1>6, <1>7, <1>8, <1>9, <1>10

(* What add_all leaves in the table.                                       *)
LEMMA Added ==
  ASSUME LinesTyped, NEW places \in Nat, NEW lines, DOMAIN lines \subseteq 1..places,
         \A i \in DOMAIN lines : lines[i] \in JournalLine, AddAll(lines, places)
  PROVE  /\ lastId' \in Nat /\ lastId' >= lastId /\ DOMAIN rows' \subseteq 1..lastId'
         /\ DOMAIN rows \subseteq DOMAIN rows'
         /\ \A id \in DOMAIN rows : id <= lastId /\ rows'[id] = rows[id]
         /\ \A id \in DOMAIN rows' \ DOMAIN rows :
              /\ id \in Nat /\ id > lastId /\ id - lastId \in DOMAIN lines
              /\ rows'[id] \in JournalLine
              /\ rows'[id].n = lines[id - lastId].n
              /\ rows'[id].kind = lines[id - lastId].kind
         /\ Numbers(rows') = Numbers(rows) \cup Numbers(lines)
<1>1. /\ lastId \in Nat /\ DOMAIN rows \subseteq 1..lastId /\ lastId' = lastId + places
      /\ today \in Nat
      /\ DOMAIN rows' = DOMAIN rows \cup {lastId + i : i \in DOMAIN lines}
      /\ \A id \in DOMAIN rows' :
           rows'[id] = IF id \in DOMAIN rows THEN rows[id]
                       ELSE [lines[id - lastId] EXCEPT !.day = today]
  BY DEF LinesTyped, AddAll
<1>2. ASSUME NEW i \in DOMAIN lines
      PROVE  /\ lastId + i \in DOMAIN rows' /\ lastId + i \notin DOMAIN rows
             /\ i \in 1..places /\ (lastId + i) - lastId = i
  BY <1>1
<1>3. ASSUME NEW id \in DOMAIN rows' \ DOMAIN rows
      PROVE  /\ id \in Nat /\ id > lastId /\ id <= lastId + places
             /\ id - lastId \in DOMAIN lines
             /\ rows'[id] \in JournalLine
             /\ rows'[id].n = lines[id - lastId].n
             /\ rows'[id].kind = lines[id - lastId].kind
  <2>1. PICK i \in DOMAIN lines : id = lastId + i
    BY <1>1
  <2>2. i \in 1..places /\ id - lastId = i
    BY <1>1, <2>1
  <2>3. rows'[id] = [lines[i] EXCEPT !.day = today] /\ lines[i] \in JournalLine
    BY <1>1, <2>2
  <2>4. rows'[id] \in JournalLine /\ rows'[id].n = lines[i].n /\ rows'[id].kind = lines[i].kind
    BY <1>1, <2>3 DEF JournalLine
  <2> QED
    BY <1>1, <2>1, <2>2, <2>4
<1>4. \A id \in DOMAIN rows : id \in DOMAIN rows' /\ rows'[id] = rows[id] /\ id <= lastId
  <2> TAKE id \in DOMAIN rows
  <2>1. id \in 1..lastId /\ id \in DOMAIN rows'
    BY <1>1
  <2>2. rows'[id] = rows[id]
    BY <1>1, <2>1
  <2> QED
    BY <1>1, <2>1, <2>2
<1>5. Numbers(rows') = Numbers(rows) \cup Numbers(lines)
  <2>1. ASSUME NEW n \in Numbers(rows') PROVE n \in Numbers(rows) \cup Numbers(lines)
    BY <1>3, <1>4, <2>1 DEF Numbers
  <2>2. ASSUME NEW n \in Numbers(rows) PROVE n \in Numbers(rows')
    BY <1>4, <2>2 DEF Numbers
  <2>3. ASSUME NEW n \in Numbers(lines) PROVE n \in Numbers(rows')
    <3>1. PICK i \in DOMAIN lines : n = lines[i].n
      BY <2>3 DEF Numbers
    <3>2. rows'[lastId + i].n = lines[i].n
      BY <1>2, <1>3
    <3> QED
      BY <1>2, <3>1, <3>2 DEF Numbers
  <2> QED
    BY <2>1, <2>2, <2>3
<1>6. DOMAIN rows' \subseteq 1..lastId'
  BY <1>1, <1>2
<1> QED
  BY <1>1, <1>3, <1>4, <1>5, <1>6

LEMMA RecordStored ==
  ASSUME JournalInv, RecordWith, recording' = Idle,
         AddAll(<<recording.line>>, 1), UNCHANGED <<queue, counting, gone>>
  PROVE  JournalInv'
<1> USE DEF JournalInv
<1> DEFINE lines == <<recording.line>>
<1>1. /\ recording.pc = "kept" /\ UNCHANGED <<dropped, writer, today, born>>
  BY DEF RecordWith
<1>2. recording.line \in JournalLine /\ Honest(recording.line, born)
      /\ ~IsSystem(recording.line)
  BY <1>1 DEF LinesTyped, LinesHonest, LinesInOrder, RowsInOrder
<1>3. Held' = Held /\ Hand = {recording.line.n} /\ Hand' = {} /\ recording'.pc # "kept"
  BY <1>1 DEF Held, Hand
<1>4. /\ DOMAIN lines = {1} /\ lines[1] = recording.line
      /\ Numbers(lines) = {recording.line.n} /\ AddAll(lines, 1)
  BY DEF Numbers
<1> HIDE DEF lines
<1>5. /\ lastId' \in Nat /\ DOMAIN rows' \subseteq 1..lastId'
      /\ DOMAIN rows \subseteq DOMAIN rows'
      /\ \A id \in DOMAIN rows : rows'[id] = rows[id]
      /\ \A id \in DOMAIN rows' \ DOMAIN rows :
           /\ id - lastId = 1 /\ id \in Nat
           /\ rows'[id] \in JournalLine
           /\ rows'[id].n = recording.line.n /\ rows'[id].kind = recording.line.kind
      /\ Numbers(rows') = Numbers(rows) \cup {recording.line.n}
  <2>1. /\ DOMAIN lines \subseteq 1..1 /\ \A i \in DOMAIN lines : lines[i] \in JournalLine
    BY <1>2, <1>4
  <2>2. \A i \in DOMAIN lines : i = 1
    BY <1>4
  <2> QED
    BY <1>4, <2>1, <2>2, Added
<1>6. LinesTyped'
  BY <1>1, <1>3, <1>5 DEF LinesTyped
<1>7. LinesHonest'
  <2>1. \A id \in DOMAIN rows' : Honest(rows'[id], born)
    BY <1>2, <1>5 DEF LinesHonest, Honest
  <2> QED
    BY <1>1, <1>3, <2>1 DEF LinesHonest
<1>8. LinesInOrder'
  <2>1. \A id \in DOMAIN rows' : IsSystem(rows'[id]) => id \in DOMAIN rows
    BY <1>2, <1>5 DEF IsSystem
  <2>2. RowsInOrder'
    BY <1>1, <1>3, <1>5, <2>1 DEF LinesInOrder, RowsInOrder, IsSystem
  <2> QED
    BY <1>1, <1>3, <2>2 DEF LinesInOrder, QueueInOrder, HeldInOrder, IsSystem
<1>9. LinesOnce'
  <2>1. /\ Places'[2] = Places[2] \cup Places[9] /\ Places'[9] = {}
    BY <1>3, <1>5, PlacesNow, PlacesNext
  <2>2. \A place \in 1..9 \ {2, 9} : Places'[place] = Places[place]
    <3>1. \A place \in 1..9 \ {2, 9} : place \in {1, 3, 4, 5, 6, 7, 8}
      OBVIOUS
    <3> QED
      BY <1>1, <1>3, <3>1, PlacesNow, PlacesNext
  <2>3. Once(Places', 1..Len(born'))
    <3>1. \A place \in 1..9 \ {2} :
            /\ Places'[place] \subseteq Places[place]
            /\ Places[place] \subseteq Places'[place] \cup Places'[2]
      BY <2>1, <2>2
    <3>2. Places[2] \subseteq Places'[2]
      BY <2>1
    <3>3. \A n \in Places'[2] \ Places[2] : n \in Places[9] /\ n \notin Places'[9]
      BY <2>1
    <3>4. born' = born
      BY <1>1
    <3> QED
      BY <3>1, <3>2, <3>3, <3>4, MovedTo
  <2>4. recording.line.n \notin Numbers(rows)
    BY <1>3, PlacesNow, NotElsewhere
  <2>5. \A id \in DOMAIN rows : rows[id].n # recording.line.n
    BY <2>4 DEF Numbers
  <2>6. \A i, j \in DOMAIN rows' \ DOMAIN rows : i = j
    BY <1>5 DEF LinesTyped
  <2>7. RowsDistinct'
    BY <1>5, <2>5, <2>6 DEF LinesOnce, RowsDistinct
  <2>8. EssentialKept'
    BY <1>1 DEF LinesOnce, EssentialKept
  <2> QED
    BY <2>3, <2>7, <2>8 DEF LinesOnce, Once
<1>10. DroppedAreCounted'
  BY <1>1 DEF DroppedAreCounted
<1> QED
  BY <1>6, <1>7, <1>8, <1>9, <1>10

LEMMA RecordWithKeeps ==
  ASSUME JournalInv, RecordWith
  PROVE  JournalInv'
  BY RecordStored, RecordUnsaved DEF RecordWith

(* A queue is cut where a batch ends.                                      *)
LEMMA Cut ==
  ASSUME NEW lines \in Seq(JournalLine), NEW k \in Nat, k <= Len(lines)
  PROVE  /\ SubSeq(lines, 1, k) \in Seq(JournalLine)
         /\ DOMAIN SubSeq(lines, 1, k) = 1..k
         /\ \A i \in 1..k : SubSeq(lines, 1, k)[i] = lines[i]
         /\ SubSeq(lines, k + 1, Len(lines)) \in Seq(JournalLine)
         /\ DOMAIN SubSeq(lines, k + 1, Len(lines)) = 1..(Len(lines) - k)
         /\ \A i \in 1..(Len(lines) - k) :
              SubSeq(lines, k + 1, Len(lines))[i] = lines[i + k]
         /\ Numbers(lines) = Numbers(SubSeq(lines, 1, k))
                               \cup Numbers(SubSeq(lines, k + 1, Len(lines)))
<1> DEFINE first == SubSeq(lines, 1, k)
           rest  == SubSeq(lines, k + 1, Len(lines))
           rank  == Len(lines)
<1>0. rank \in Nat /\ DOMAIN lines = 1..rank
  OBVIOUS
<1>1. /\ first \in Seq(JournalLine) /\ DOMAIN first = 1..k
      /\ \A i \in 1..k : first[i] = lines[i]
  OBVIOUS
<1>2. rest \in Seq(JournalLine) /\ Len(rest) = rank - k /\ DOMAIN rest = 1..(rank - k)
  OBVIOUS
<1>3. \A i \in 1..(rank - k) : rest[i] = lines[i + k]
  OBVIOUS
<1> HIDE DEF first, rest, rank
<1>4. Numbers(lines) = Numbers(first) \cup Numbers(rest)
  <2>1. ASSUME NEW i \in 1..rank PROVE lines[i].n \in Numbers(first) \cup Numbers(rest)
    <3>1. CASE i <= k
      BY <1>0, <1>1, <3>1 DEF Numbers
    <3>2. CASE i > k
      <4>1. i - k \in 1..(rank - k) /\ (i - k) + k = i
        BY <1>0, <3>2
      <4> QED
        BY <1>2, <1>3, <4>1 DEF Numbers
    <3> QED
      BY <1>0, <3>1, <3>2
  <2>2. ASSUME NEW i \in 1..k PROVE first[i].n \in Numbers(lines)
    <3>1. i \in 1..rank
      BY <1>0 DEF rank
    <3> QED
      BY <1>0, <1>1, <3>1 DEF Numbers
  <2>3. ASSUME NEW i \in 1..(rank - k) PROVE rest[i].n \in Numbers(lines)
    <3>1. i + k \in 1..rank
      BY <1>0
    <3> QED
      BY <1>0, <1>3, <3>1 DEF Numbers
  <2> QED
    BY <1>0, <1>1, <1>2, <2>1, <2>2, <2>3 DEF Numbers
<1> QED
  BY <1>1, <1>2, <1>3, <1>4 DEF first, rest, rank

LEMMA ReceiveKeeps ==
  ASSUME JournalInv, Receive
  PROVE  JournalInv'
<1> USE DEF JournalInv
<1> DEFINE k == BatchSize
           first == SubSeq(queue, 1, k)
           rest  == SubSeq(queue, k + 1, Len(queue))
           rank  == Len(queue)
<1>1. /\ writer.pc = "idle" /\ writer' = [pc |-> "received", batch |-> first]
      /\ queue' = rest
      /\ UNCHANGED <<counting, dropped, recording, rows, lastId, today, born, gone>>
  BY DEF Receive, Taken
<1>2. queue \in Seq(JournalLine) /\ rank \in Nat /\ DOMAIN queue = 1..rank
  BY DEF LinesTyped
<1>3. k \in Nat /\ k <= rank /\ k <= Batch
  BY <1>2 DEF BatchSize
<1>4. Held = << >> /\ Held' = first /\ Hand' = Hand /\ Numbers(Held) = {}
  BY <1>1, NoNumbers DEF Held, Hand
<1> HIDE DEF k
<1>5. /\ DOMAIN Held' = 1..k
      /\ \A i \in 1..k : Held'[i] = queue[i]
      /\ queue' \in Seq(JournalLine) /\ DOMAIN queue' = 1..(rank - k)
      /\ \A i \in 1..(rank - k) : queue'[i] = queue[i + k]
      /\ Numbers(queue) = Numbers(Held') \cup Numbers(queue')
  BY <1>1, <1>2, <1>3, <1>4, Cut
<1> HIDE DEF first, rest, rank
<1>6. /\ \A i \in DOMAIN Held' : i \in DOMAIN queue /\ Held'[i] = queue[i]
      /\ \A i \in DOMAIN queue' : i + k \in DOMAIN queue /\ queue'[i] = queue[i + k]
  BY <1>2, <1>3, <1>5
<1>7. LinesTyped'
  <2>1. DOMAIN Held' \subseteq 1..Batch
    BY <1>3, <1>5
  <2>2. \A i \in DOMAIN Held' : Held'[i] \in JournalLine
    BY <1>2, <1>6
  <2> QED
    BY <1>1, <1>5, <2>1, <2>2 DEF LinesTyped
<1>8. LinesHonest'
  BY <1>1, <1>6 DEF LinesHonest
<1>9. LinesInOrder'
  <2>1. QueueInOrder'
    <3>1. ASSUME NEW i \in DOMAIN queue' PROVE IsSystem(queue'[i])
      BY <1>6 DEF LinesInOrder, QueueInOrder
    <3>2. ASSUME NEW i \in DOMAIN queue', NEW j \in DOMAIN queue', i < j
          PROVE  queue'[i].n < queue'[j].n
      <4>1. i + k \in DOMAIN queue /\ j + k \in DOMAIN queue /\ i + k < j + k
        BY <1>3, <1>5, <1>6, <3>2
      <4> QED
        BY <1>6, <4>1 DEF LinesInOrder, QueueInOrder
    <3> QED
      BY <3>1, <3>2 DEF QueueInOrder, IsSystem
  <2>2. HeldInOrder'
    BY <1>2, <1>3, <1>5, <1>6 DEF LinesInOrder, QueueInOrder, HeldInOrder, IsSystem
  <2>3. RowsInOrder'
    BY <1>1, <1>6 DEF LinesInOrder, RowsInOrder, IsSystem
  <2> QED
    BY <2>1, <2>2, <2>3 DEF LinesInOrder
<1>10. LinesOnce'
  <2>1. /\ Places[8] = {} /\ Places[1] = Places'[8] \cup Places'[1]
    BY <1>4, <1>5, PlacesNow, PlacesNext
  <2>2. \A place \in 1..9 \ {1, 8} : Places'[place] = Places[place]
    <3>1. \A place \in 1..9 \ {1, 8} : place \in {2, 3, 4, 5, 6, 7, 9}
      OBVIOUS
    <3> QED
      BY <1>1, <1>4, <3>1, PlacesNow, PlacesNext
  <2>3. \A n \in Places'[8] : n \notin Places'[1]
    <3> SUFFICES ASSUME NEW i \in DOMAIN Held', NEW j \in DOMAIN queue',
                        Held'[i].n = queue'[j].n
                 PROVE  FALSE
      BY PlacesNext DEF Numbers
    <3>1. i \in DOMAIN queue /\ j + k \in DOMAIN queue /\ i < j + k
      BY <1>2, <1>3, <1>5, <1>6
    <3>2. queue[i].n < queue[j + k].n /\ queue[i].n \in Nat /\ queue[j + k].n \in Nat
      <4>1. queue[i] \in JournalLine /\ queue[j + k] \in JournalLine
        BY <1>2, <3>1
      <4>2. queue[i].n < queue[j + k].n
        BY <3>1 DEF LinesInOrder, QueueInOrder
      <4> QED
        BY <4>1, <4>2 DEF JournalLine
    <3> QED
      BY <1>6, <3>2
  <2>4. Once(Places', 1..Len(born'))
    <3>1. \A place \in 1..9 \ {8} :
            /\ Places'[place] \subseteq Places[place]
            /\ Places[place] \subseteq Places'[place] \cup Places'[8]
      BY <2>1, <2>2
    <3>2. Places[8] \subseteq Places'[8]
      BY <2>1
    <3>3. \A n \in Places'[8] \ Places[8] : n \in Places[1] /\ n \notin Places'[1]
      BY <2>1, <2>3
    <3>4. born' = born
      BY <1>1
    <3> QED
      BY <3>1, <3>2, <3>3, <3>4, MovedTo
  <2>5. RowsDistinct' /\ EssentialKept'
    BY <1>1 DEF LinesOnce, RowsDistinct, EssentialKept
  <2> QED
    BY <2>4, <2>5 DEF LinesOnce, Once
<1>11. DroppedAreCounted'
  BY <1>1 DEF DroppedAreCounted
<1> QED
  BY <1>7, <1>8, <1>9, <1>10, <1>11

LEMMA ReadCaptureKeeps ==
  ASSUME JournalInv, ReadCapture
  PROVE  JournalInv'
<1> USE DEF JournalInv
<1> DEFINE kept == {i \in DOMAIN Held : Kept(Held[i].kind, settings.detailed)}
           skipped == {Held[i].n : i \in DOMAIN Held \ kept}
<1>1. /\ writer.pc = "received" /\ Held = writer.batch
      /\ UNCHANGED <<queue, counting, dropped, recording, rows, lastId, today, born>>
  BY DEF ReadCapture, Held
<1>2. /\ writer' = [pc |-> "writing", batch |-> [i \in kept |-> Held[i]]]
      /\ gone' = [gone EXCEPT !.skipped = @ \cup skipped]
  BY <1>1 DEF ReadCapture, Restrict
<1>3. /\ Hand' = Hand /\ DOMAIN Held' = kept /\ kept \subseteq DOMAIN Held
      /\ \A i \in kept : Held'[i] = Held[i]
  BY <1>1, <1>2 DEF Held, Hand
<1>4. \A i \in DOMAIN Held : /\ Held[i].n \in Nat /\ Held[i].n \in 1..Len(born)
                             /\ Held[i].kind = born[Held[i].n]
  BY DEF LinesTyped, LinesHonest, Honest, JournalLine
<1>5. /\ skipped \in SUBSET Nat /\ skipped \subseteq 1..Len(born)
      /\ \A n \in skipped : ~IsEssential(born[n])
  BY <1>4 DEF Kept
<1>6. Numbers(Held) = Numbers(Held') \cup skipped
  BY <1>3 DEF Numbers
<1>7. \A n \in Numbers(Held') : n \notin skipped
  <2>1. \A i, j \in DOMAIN Held : i # j => Held[i].n # Held[j].n
    <3>1. \A i \in DOMAIN Held : i \in Nat
      BY DEF LinesTyped
    <3> QED
      BY <1>4, <3>1 DEF LinesInOrder, HeldInOrder
  <2> QED
    BY <1>3, <2>1 DEF Numbers
<1> HIDE DEF kept, skipped
<1>8. /\ gone' \in GoneSets /\ gone'.skipped = gone.skipped \cup skipped
      /\ gone'.refused = gone.refused /\ gone'.unsaved = gone.unsaved
      /\ gone'.forgotten = gone.forgotten /\ gone'.cut = gone.cut
      /\ gone'.told = gone.told
  <2>1. gone \in GoneSets
    BY DEF LinesTyped
  <2> QED
    BY <1>2, <1>5, <2>1 DEF GoneSets
<1>9. LinesTyped'
  BY <1>1, <1>3, <1>8 DEF LinesTyped
<1>10. LinesHonest'
  BY <1>1, <1>3, <1>5, <1>8 DEF LinesHonest
<1>11. LinesInOrder'
  BY <1>1, <1>3 DEF LinesInOrder, QueueInOrder, HeldInOrder, RowsInOrder, IsSystem
<1>12. LinesOnce'
  <2>1. /\ Places[8] = Places'[8] \cup skipped /\ Places'[4] = Places[4] \cup skipped
        /\ \A n \in Places'[8] : n \notin skipped
    BY <1>6, <1>7, <1>8, PlacesNow, PlacesNext
  <2>2. \A place \in 1..9 \ {4, 8} : Places'[place] = Places[place]
    <3>1. \A place \in 1..9 \ {4, 8} : place \in {1, 2, 3, 5, 6, 7, 9}
      OBVIOUS
    <3> QED
      BY <1>1, <1>3, <1>8, <3>1, PlacesNow, PlacesNext
  <2>3. Once(Places', 1..Len(born'))
    <3>1. \A place \in 1..9 \ {4} :
            /\ Places'[place] \subseteq Places[place]
            /\ Places[place] \subseteq Places'[place] \cup Places'[4]
      BY <2>1, <2>2
    <3>2. \A n \in Places'[4] \ Places[4] : n \in Places[8] /\ n \notin Places'[8]
      BY <2>1
    <3>3. born' = born /\ Places[4] \subseteq Places'[4]
      BY <1>1, <2>1
    <3> QED
      BY <3>1, <3>2, <3>3, MovedTo
  <2>4. RowsDistinct' /\ EssentialKept'
    BY <1>1, <1>5, <1>8 DEF LinesOnce, RowsDistinct, EssentialKept
  <2> QED
    BY <2>3, <2>4 DEF LinesOnce, Once
<1>13. DroppedAreCounted'
  BY <1>1, <1>8 DEF DroppedAreCounted
<1> QED
  BY <1>9, <1>10, <1>11, <1>12, <1>13

(* What a written batch and a report of the refused lines leave.           *)
LEMMA WriteReports ==
  ASSUME JournalInv, WriteBatch
  PROVE  /\ writer.pc = "writing" /\ Held = writer.batch /\ Held' = << >> /\ Hand' = Hand
         /\ UNCHANGED <<queue, counting, recording, today, born>>
         /\ dropped' = 0 /\ Told(dropped) = dropped /\ dropped \in Nat
         /\ gone \in GoneSets /\ gone.told \in Nat /\ counting \in Nat
         /\ Numbers(Held') = {}
<1>1. dropped \in Nat /\ gone \in GoneSets /\ counting \in Nat
  BY DEF JournalInv, LinesTyped
<1>2. gone.told \in Nat
  BY <1>1 DEF GoneSets
<1>3. Told(dropped) = dropped
  BY <1>1 DEF Told
<1>4. /\ writer.pc = "writing" /\ writer' = Idle
      /\ UNCHANGED <<queue, counting, recording, today, born>> /\ dropped' = 0
  BY DEF WriteBatch
<1>5. Held = writer.batch /\ Held' = << >> /\ Hand' = Hand
  BY <1>4 DEF Held, Hand
<1> QED
  BY <1>1, <1>2, <1>3, <1>4, <1>5, NoNumbers

LEMMA BatchStored ==
  ASSUME JournalInv, WriteBatch, AddAll(writer.batch, Batch),
         gone' = [gone EXCEPT !.told = @ + Told(dropped)]
  PROVE  JournalInv'
<1> USE DEF JournalInv
<1>1. /\ Held = writer.batch /\ Held' = << >> /\ Hand' = Hand
      /\ UNCHANGED <<queue, counting, recording, today, born>>
      /\ dropped' = 0 /\ Told(dropped) = dropped /\ dropped \in Nat
      /\ gone \in GoneSets /\ gone.told \in Nat /\ counting \in Nat
      /\ Numbers(Held') = {}
  BY WriteReports
<1>2. /\ gone' \in GoneSets /\ gone'.told = gone.told + dropped
      /\ gone'.refused = gone.refused /\ gone'.skipped = gone.skipped
      /\ gone'.unsaved = gone.unsaved /\ gone'.forgotten = gone.forgotten
      /\ gone'.cut = gone.cut
  <2> DEFINE told == gone.told + Told(dropped)
  <2>1. told \in Nat /\ told = gone.told + dropped
    BY <1>1
  <2>2. gone' = [gone EXCEPT !.told = told]
    OBVIOUS
  <2> HIDE DEF told
  <2>3. /\ gone' \in GoneSets /\ gone'.told = told
        /\ gone'.refused = gone.refused /\ gone'.skipped = gone.skipped
        /\ gone'.unsaved = gone.unsaved /\ gone'.forgotten = gone.forgotten
        /\ gone'.cut = gone.cut
    BY <1>1, <2>1, <2>2 DEF GoneSets
  <2> QED BY <2>1, <2>3
<1>3. /\ lastId' \in Nat /\ lastId' >= lastId /\ DOMAIN rows' \subseteq 1..lastId'
      /\ DOMAIN rows \subseteq DOMAIN rows'
      /\ \A id \in DOMAIN rows : id <= lastId /\ rows'[id] = rows[id]
      /\ \A id \in DOMAIN rows' \ DOMAIN rows :
           /\ id \in Nat /\ id > lastId /\ id - lastId \in DOMAIN Held
           /\ rows'[id] \in JournalLine
           /\ rows'[id].n = Held[id - lastId].n
           /\ rows'[id].kind = Held[id - lastId].kind
      /\ Numbers(rows') = Numbers(rows) \cup Numbers(Held)
  <2>1. /\ DOMAIN Held \subseteq 1..Batch /\ \A i \in DOMAIN Held : Held[i] \in JournalLine
        /\ Batch \in Nat
    BY DEF LinesTyped
  <2> DEFINE lines == Held
  <2>2. AddAll(lines, Batch)
    BY <1>1
  <2>3. DOMAIN lines \subseteq 1..Batch /\ \A i \in DOMAIN lines : lines[i] \in JournalLine
    BY <2>1
  <2> HIDE DEF lines
  <2>4. /\ lastId' \in Nat /\ lastId' >= lastId /\ DOMAIN rows' \subseteq 1..lastId'
        /\ DOMAIN rows \subseteq DOMAIN rows'
        /\ \A id \in DOMAIN rows : id <= lastId /\ rows'[id] = rows[id]
        /\ \A id \in DOMAIN rows' \ DOMAIN rows :
             /\ id \in Nat /\ id > lastId /\ id - lastId \in DOMAIN lines
             /\ rows'[id] \in JournalLine
             /\ rows'[id].n = lines[id - lastId].n
             /\ rows'[id].kind = lines[id - lastId].kind
        /\ Numbers(rows') = Numbers(rows) \cup Numbers(lines)
    BY <2>1, <2>2, <2>3, Added
  <2> QED
    BY <2>4 DEF lines
<1>4. /\ \A i \in DOMAIN Held : Held[i].n \in Nat /\ i \in Nat
      /\ \A id \in DOMAIN rows : rows[id].n \in Nat /\ id \in Nat
      /\ lastId \in Nat
  BY DEF LinesTyped, JournalLine
<1>5. LinesTyped'
  BY <1>1, <1>2, <1>3 DEF LinesTyped
<1>6. LinesHonest'
  <2>1. \A id \in DOMAIN rows' : Honest(rows'[id], born)
    BY <1>3 DEF LinesHonest, Honest
  <2> QED
    BY <1>1, <1>2, <2>1 DEF LinesHonest
<1>7. LinesInOrder'
  <2>1. ASSUME NEW i \in DOMAIN rows', NEW j \in DOMAIN rows', i < j,
               IsSystem(rows'[i]), IsSystem(rows'[j])
        PROVE  rows'[i].n < rows'[j].n
    <3>1. CASE j \in DOMAIN rows
      <4>1. i \in DOMAIN rows
        BY <1>3, <1>4, <2>1, <3>1
      <4> QED
        BY <1>3, <2>1, <3>1, <4>1 DEF LinesInOrder, RowsInOrder
    <3>2. CASE i \in DOMAIN rows /\ j \notin DOMAIN rows
      BY <1>3, <2>1, <3>2 DEF LinesInOrder, RowsInOrder
    <3>3. CASE i \notin DOMAIN rows /\ j \notin DOMAIN rows
      <4>1. i - lastId \in DOMAIN Held /\ j - lastId \in DOMAIN Held
            /\ i - lastId < j - lastId
        BY <1>3, <1>4, <2>1, <3>3
      <4>2. Held[i - lastId].n < Held[j - lastId].n
        BY <4>1 DEF LinesInOrder, HeldInOrder
      <4> QED
        BY <1>3, <3>3, <4>2
    <3> QED
      BY <3>1, <3>2, <3>3
  <2>2. ASSUME NEW id \in DOMAIN rows', IsSystem(rows'[id]), NEW j \in DOMAIN queue
        PROVE  rows'[id].n < queue[j].n
    BY <1>3, <2>2 DEF LinesInOrder, RowsInOrder, HeldInOrder
  <2>3. RowsInOrder'
    <3>1. \A i, j \in DOMAIN rows' :
            i < j /\ IsSystem(rows'[i]) /\ IsSystem(rows'[j]) => rows'[i].n < rows'[j].n
      BY <2>1
    <3>2. \A id \in DOMAIN rows' : IsSystem(rows'[id]) =>
            \A j \in DOMAIN queue : rows'[id].n < queue[j].n
      BY <2>2
    <3>3. recording.pc = "kept" => ~IsSystem(recording.line)
      BY DEF LinesInOrder, RowsInOrder
    <3>4. DOMAIN Held' = {}
      BY <1>1
    <3> QED
      BY <1>1, <3>1, <3>2, <3>3, <3>4 DEF RowsInOrder, IsSystem
  <2>4. QueueInOrder' /\ HeldInOrder'
    BY <1>1 DEF LinesInOrder, QueueInOrder, HeldInOrder, IsSystem
  <2> QED
    BY <2>3, <2>4 DEF LinesInOrder
<1>8. LinesOnce'
  <2>1. Places'[2] = Places[2] \cup Places[8] /\ Places'[8] = {}
    BY <1>1, <1>3, PlacesNow, PlacesNext
  <2>2. \A place \in 1..9 \ {2, 8} : Places'[place] = Places[place]
    <3>1. \A place \in 1..9 \ {2, 8} : place \in {1, 3, 4, 5, 6, 7, 9}
      OBVIOUS
    <3> QED
      BY <1>1, <1>2, <3>1, PlacesNow, PlacesNext
  <2>3. Once(Places', 1..Len(born'))
    <3>1. \A place \in 1..9 \ {2} :
            /\ Places'[place] \subseteq Places[place]
            /\ Places[place] \subseteq Places'[place] \cup Places'[2]
      BY <2>1, <2>2
    <3>2. Places[2] \subseteq Places'[2]
      BY <2>1
    <3>3. \A n \in Places'[2] \ Places[2] : n \in Places[8] /\ n \notin Places'[8]
      BY <2>1
    <3>4. born' = born
      BY <1>1
    <3> QED
      BY <3>1, <3>2, <3>3, <3>4, MovedTo
  <2>4. \A n \in Numbers(Held) : n \notin Numbers(rows)
    BY PlacesNow, NotElsewhere
  <2>5. \A i \in DOMAIN Held, id \in DOMAIN rows : Held[i].n # rows[id].n
    BY <2>4 DEF Numbers
  <2>6. \A i, j \in DOMAIN Held : Held[i].n = Held[j].n => i = j
    BY <1>4 DEF LinesInOrder, HeldInOrder
  <2>7. RowsDistinct'
    <3> SUFFICES ASSUME NEW i \in DOMAIN rows', NEW j \in DOMAIN rows',
                        rows'[i].n = rows'[j].n
                 PROVE  i = j
      BY DEF RowsDistinct
    <3>1. CASE i \in DOMAIN rows /\ j \in DOMAIN rows
      BY <1>3, <3>1 DEF LinesOnce, RowsDistinct
    <3>2. CASE i \in DOMAIN rows /\ j \notin DOMAIN rows
      BY <1>3, <2>5, <3>2
    <3>3. CASE i \notin DOMAIN rows /\ j \in DOMAIN rows
      BY <1>3, <2>5, <3>3
    <3>4. CASE i \notin DOMAIN rows /\ j \notin DOMAIN rows
      <4>1. i - lastId = j - lastId /\ i \in Nat /\ j \in Nat
        BY <1>3, <2>6, <3>4
      <4> QED
        BY <1>4, <4>1
    <3> QED
      BY <3>1, <3>2, <3>3, <3>4
  <2>8. EssentialKept'
    BY <1>1, <1>2 DEF LinesOnce, EssentialKept
  <2> QED
    BY <2>3, <2>7, <2>8 DEF LinesOnce, Once
<1>9. DroppedAreCounted'
  BY <1>1, <1>2 DEF DroppedAreCounted
<1> QED
  BY <1>5, <1>6, <1>7, <1>8, <1>9

LEMMA BatchUnsaved ==
  ASSUME JournalInv, WriteBatch,
         gone' = [gone EXCEPT !.told = @ + Told(dropped),
                              !.unsaved = @ \cup Numbers(writer.batch)],
         UNCHANGED <<rows, lastId>>
  PROVE  JournalInv'
<1> USE DEF JournalInv
<1>1. /\ Held = writer.batch /\ Held' = << >> /\ Hand' = Hand
      /\ UNCHANGED <<queue, counting, recording, today, born>>
      /\ dropped' = 0 /\ Told(dropped) = dropped /\ dropped \in Nat
      /\ gone \in GoneSets /\ gone.told \in Nat /\ counting \in Nat
      /\ Numbers(Held') = {}
  BY WriteReports
<1>3. Numbers(Held) \subseteq 1..Len(born) /\ Numbers(Held) \in SUBSET Nat
  <2>1. \A i \in DOMAIN Held : Held[i].n \in 1..Len(born) /\ Held[i].n \in Nat
    BY DEF LinesTyped, LinesHonest, Honest, JournalLine
  <2> QED
    BY <2>1 DEF Numbers
<1>2. /\ gone' \in GoneSets /\ gone'.told = gone.told + dropped
      /\ gone'.refused = gone.refused /\ gone'.skipped = gone.skipped
      /\ gone'.unsaved = gone.unsaved \cup Numbers(Held)
      /\ gone'.forgotten = gone.forgotten /\ gone'.cut = gone.cut
  <2> DEFINE more == Numbers(Held)
  <2>1. more \in SUBSET Nat
    BY <1>3
  <2>2. gone' = [gone EXCEPT !.told = @ + dropped, !.unsaved = @ \cup more]
    BY <1>1
  <2> HIDE DEF more
  <2>3. /\ gone' \in GoneSets /\ gone'.told = gone.told + dropped
        /\ gone'.refused = gone.refused /\ gone'.skipped = gone.skipped
        /\ gone'.unsaved = gone.unsaved \cup more
        /\ gone'.forgotten = gone.forgotten /\ gone'.cut = gone.cut
    <3>1. /\ gone'.told = gone.told + dropped /\ gone'.refused = gone.refused
          /\ gone'.skipped = gone.skipped /\ gone'.unsaved = gone.unsaved \cup more
          /\ gone'.forgotten = gone.forgotten /\ gone'.cut = gone.cut
      BY <1>1, <2>2 DEF GoneSets
    <3>2. gone.told + dropped \in Nat /\ gone.unsaved \cup more \in SUBSET Nat
      BY <1>1, <2>1 DEF GoneSets
    <3>3. gone' = [refused |-> gone.refused, skipped |-> gone.skipped,
                   unsaved |-> gone.unsaved \cup more, forgotten |-> gone.forgotten,
                   cut |-> gone.cut, told |-> gone.told + dropped]
      BY <1>1, <2>2 DEF GoneSets
    <3> QED
      BY <1>1, <3>1, <3>2, <3>3 DEF GoneSets
  <2> QED
    BY <2>3 DEF more
<1>4. DOMAIN Held' = {}
  BY <1>1
<1>5. LinesTyped'
  BY <1>1, <1>2, <1>4 DEF LinesTyped
<1>6. LinesHonest'
  BY <1>1, <1>2, <1>3, <1>4 DEF LinesHonest
<1>7. LinesInOrder'
  BY <1>1, <1>4 DEF LinesInOrder, QueueInOrder, HeldInOrder, RowsInOrder, IsSystem
<1>8. LinesOnce'
  <2>1. Places'[5] = Places[5] \cup Places[8] /\ Places'[8] = {}
    BY <1>1, <1>2, PlacesNow, PlacesNext
  <2>2. \A place \in 1..9 \ {5, 8} : Places'[place] = Places[place]
    <3>1. \A place \in 1..9 \ {5, 8} : place \in {1, 2, 3, 4, 6, 7, 9}
      OBVIOUS
    <3> QED
      BY <1>1, <1>2, <3>1, PlacesNow, PlacesNext
  <2>3. Once(Places', 1..Len(born'))
    <3>1. \A place \in 1..9 \ {5} :
            /\ Places'[place] \subseteq Places[place]
            /\ Places[place] \subseteq Places'[place] \cup Places'[5]
      BY <2>1, <2>2
    <3>2. Places[5] \subseteq Places'[5]
      BY <2>1
    <3>3. \A n \in Places'[5] \ Places[5] : n \in Places[8] /\ n \notin Places'[8]
      BY <2>1
    <3>4. born' = born
      BY <1>1
    <3> QED
      BY <3>1, <3>2, <3>3, <3>4, MovedTo
  <2>4. RowsDistinct' /\ EssentialKept'
    BY <1>1, <1>2 DEF LinesOnce, RowsDistinct, EssentialKept
  <2> QED
    BY <2>3, <2>4 DEF LinesOnce, Once
<1>9. DroppedAreCounted'
  BY <1>1, <1>2 DEF DroppedAreCounted
<1> QED
  BY <1>5, <1>6, <1>7, <1>8, <1>9

LEMMA WriteBatchKeeps ==
  ASSUME JournalInv, WriteBatch
  PROVE  JournalInv'
  BY BatchStored, BatchUnsaved DEF WriteBatch

LEMMA ForgetOldKeeps ==
  ASSUME JournalInv, ForgetOld
  PROVE  JournalInv'
<1> USE DEF JournalInv
<1> DEFINE old == Older(writer.days)
           left == DOMAIN rows \ old
           lost == {rows[i].n : i \in old}
<1>1. /\ writer.pc = "forgetting" /\ writer' = Idle
      /\ UNCHANGED <<queue, counting, dropped, recording, lastId, today, born>>
      /\ rows' = [i \in left |-> rows[i]]
      /\ gone' = [gone EXCEPT !.forgotten = @ \cup lost]
  BY DEF ForgetOld, Restrict
<1>2. old \subseteq DOMAIN rows
  BY DEF Older
<1>3. \A i \in DOMAIN rows : rows[i].n \in Nat /\ rows[i].n \in 1..Len(born)
  BY DEF LinesTyped, LinesHonest, Honest, JournalLine
<1>4. lost \in SUBSET Nat /\ lost \subseteq 1..Len(born)
  BY <1>2, <1>3
<1>5. /\ DOMAIN rows' = left /\ left \subseteq DOMAIN rows
      /\ \A i \in left : rows'[i] = rows[i]
  BY <1>1
<1>6. Numbers(rows) = Numbers(rows') \cup lost
  BY <1>2, <1>5 DEF Numbers
<1>7. \A n \in Numbers(rows') : n \notin lost
  BY <1>2, <1>5 DEF Numbers, LinesOnce, RowsDistinct
<1>8. Held' = Held /\ Hand' = Hand
  BY <1>1 DEF Held, Hand
<1> HIDE DEF old, left, lost
<1>9. /\ gone' \in GoneSets /\ gone'.forgotten = gone.forgotten \cup lost
      /\ gone'.refused = gone.refused /\ gone'.skipped = gone.skipped
      /\ gone'.unsaved = gone.unsaved /\ gone'.cut = gone.cut /\ gone'.told = gone.told
  <2>1. gone \in GoneSets
    BY DEF LinesTyped
  <2> QED
    BY <1>1, <1>4, <2>1 DEF GoneSets
<1>10. LinesTyped'
  BY <1>1, <1>5, <1>8, <1>9 DEF LinesTyped
<1>11. LinesHonest'
  BY <1>1, <1>4, <1>5, <1>8, <1>9 DEF LinesHonest
<1>12. LinesInOrder'
  <2>1. RowsInOrder'
    BY <1>1, <1>5, <1>8 DEF LinesInOrder, RowsInOrder, IsSystem
  <2> QED
    BY <1>1, <1>8, <2>1 DEF LinesInOrder, QueueInOrder, HeldInOrder, IsSystem
<1>13. LinesOnce'
  <2>1. /\ Places[2] = Places'[2] \cup lost /\ Places'[6] = Places[6] \cup lost
        /\ \A n \in Places'[2] : n \notin lost
    BY <1>6, <1>7, <1>9, PlacesNow, PlacesNext
  <2>2. \A place \in 1..9 \ {2, 6} : Places'[place] = Places[place]
    <3>1. \A place \in 1..9 \ {2, 6} : place \in {1, 3, 4, 5, 7, 8, 9}
      OBVIOUS
    <3> QED
      BY <1>1, <1>8, <1>9, <3>1, PlacesNow, PlacesNext
  <2>3. Once(Places', 1..Len(born'))
    <3>1. \A place \in 1..9 \ {6} :
            /\ Places'[place] \subseteq Places[place]
            /\ Places[place] \subseteq Places'[place] \cup Places'[6]
      BY <2>1, <2>2
    <3>2. Places[6] \subseteq Places'[6]
      BY <2>1
    <3>3. \A n \in Places'[6] \ Places[6] : n \in Places[2] /\ n \notin Places'[2]
      BY <2>1
    <3>4. born' = born
      BY <1>1
    <3> QED
      BY <3>1, <3>2, <3>3, <3>4, MovedTo
  <2>4. RowsDistinct'
    BY <1>5 DEF LinesOnce, RowsDistinct
  <2>5. EssentialKept'
    BY <1>1, <1>9 DEF LinesOnce, EssentialKept
  <2> QED
    BY <2>3, <2>4, <2>5 DEF LinesOnce, Once
<1>14. DroppedAreCounted'
  BY <1>1, <1>9 DEF DroppedAreCounted
<1> QED
  BY <1>10, <1>11, <1>12, <1>13, <1>14

LEMMA StopKeeps ==
  ASSUME JournalInv, Stop
  PROVE  JournalInv'
<1> USE DEF JournalInv
<1> DEFINE lost == Numbers(queue) \cup Numbers(Held) \cup Hand
<1>1. /\ queue' = << >> /\ counting' = 0 /\ dropped' = 0
      /\ writer' = Idle /\ recording' = Idle
      /\ UNCHANGED <<rows, lastId, today, born>>
  BY DEF Stop
<1>2. gone' = [gone EXCEPT !.told = Cardinality(gone.refused), !.cut = @ \cup lost]
  <2>1. Numbers(Held) = IF writer.pc \in {"received", "writing"}
                        THEN Numbers(writer.batch) ELSE {}
    BY NoNumbers DEF Held
  <2>2. gone' = [gone EXCEPT
          !.told = Cardinality(gone.refused),
          !.cut = @ \cup Numbers(queue) \cup Numbers(Held) \cup Hand]
    BY <2>1 DEF Stop, Hand
  <2>3. gone.cut \cup lost = gone.cut \cup Numbers(queue) \cup Numbers(Held) \cup Hand
    OBVIOUS
  <2> QED
    BY <2>2, <2>3
<1>3. /\ lost \subseteq 1..Len(born) /\ gone.refused \subseteq 1..Len(born)
      /\ Len(born) \in Nat
  <2>1. /\ Places[1] \subseteq 1..Len(born) /\ Places[8] \subseteq 1..Len(born)
        /\ Places[9] \subseteq 1..Len(born) /\ Places[3] \subseteq 1..Len(born)
    BY PlacesNow, PlacesBounded
  <2>2. Len(born) \in Nat
    BY DEF LinesTyped
  <2> QED
    BY <2>1, <2>2, PlacesNow
<1>4. Cardinality(gone.refused) \in Nat
  <2>1. IsFiniteSet(1..Len(born))
    BY <1>3, FS_Interval
  <2> QED
    BY <1>3, <2>1, FS_Subset, FS_CardinalityType
<1>5. Held' = << >> /\ Hand' = {} /\ DOMAIN Held' = {} /\ DOMAIN queue' = {}
      /\ Numbers(Held') = {} /\ Numbers(queue') = {} /\ recording'.pc # "kept"
  BY <1>1, NoNumbers DEF Held, Hand
<1>6. Places'[7] = gone'.cut /\ Places[7] = gone.cut
      /\ lost = Places[1] \cup Places[8] \cup Places[9]
  BY PlacesNow, PlacesNext
<1> HIDE DEF lost
<1>7. /\ gone' \in GoneSets /\ gone'.cut = gone.cut \cup lost
      /\ gone'.refused = gone.refused /\ gone'.skipped = gone.skipped
      /\ gone'.unsaved = gone.unsaved /\ gone'.forgotten = gone.forgotten
      /\ gone'.told = Cardinality(gone.refused)
  <2>1. gone \in GoneSets
    BY DEF LinesTyped
  <2>2. gone' = [refused |-> gone.refused, skipped |-> gone.skipped,
                 unsaved |-> gone.unsaved, forgotten |-> gone.forgotten,
                 cut |-> gone.cut \cup lost, told |-> Cardinality(gone.refused)]
    BY <1>2, <2>1 DEF GoneSets
  <2>3. gone.cut \cup lost \in SUBSET Nat
    <3>1. gone.cut \in SUBSET Nat
      BY <2>1 DEF GoneSets
    <3>2. 1..Len(born) \subseteq Nat
      BY <1>3
    <3> QED
      BY <1>3, <3>1, <3>2
  <2> QED
    BY <1>4, <2>1, <2>2, <2>3 DEF GoneSets
<1>8. LinesTyped'
  BY <1>1, <1>5, <1>7 DEF LinesTyped
<1>9. LinesHonest'
  BY <1>1, <1>3, <1>5, <1>7 DEF LinesHonest
<1>10. LinesInOrder'
  BY <1>1, <1>5 DEF LinesInOrder, QueueInOrder, HeldInOrder, RowsInOrder, IsSystem
<1>11. LinesOnce'
  <2>1. /\ Places'[7] = Places[7] \cup Places[1] \cup Places[8] \cup Places[9]
        /\ Places'[1] = {} /\ Places'[8] = {} /\ Places'[9] = {}
    BY <1>5, <1>6, <1>7, PlacesNext
  <2>2. \A place \in 1..9 \ {1, 7, 8, 9} : Places'[place] = Places[place]
    <3>1. \A place \in 1..9 \ {1, 7, 8, 9} : place \in {2, 3, 4, 5, 6}
      OBVIOUS
    <3> QED
      BY <1>1, <1>7, <3>1, PlacesNow, PlacesNext
  <2>3. Once(Places', 1..Len(born'))
    <3>1. \A place \in 1..9 \ {7} :
            /\ Places'[place] \subseteq Places[place]
            /\ Places[place] \subseteq Places'[place] \cup Places'[7]
      BY <2>1, <2>2
    <3>2. Places[7] \subseteq Places'[7]
      BY <2>1
    <3>3. \A n \in Places'[7] \ Places[7] :
            \E from \in 1..9 \ {7} : n \in Places[from] /\ n \notin Places'[from]
      <4> TAKE n \in Places'[7] \ Places[7]
      <4>1. CASE n \in Places[1]
        BY <2>1, <4>1
      <4>2. CASE n \in Places[8]
        BY <2>1, <4>2
      <4>3. CASE n \in Places[9]
        BY <2>1, <4>3
      <4> QED
        BY <2>1, <4>1, <4>2, <4>3
    <3>4. born' = born
      BY <1>1
    <3> QED
      BY <3>1, <3>2, <3>3, <3>4, MovedTo
  <2>4. RowsDistinct' /\ EssentialKept'
    BY <1>1, <1>7 DEF LinesOnce, RowsDistinct, EssentialKept
  <2> QED
    BY <2>3, <2>4 DEF LinesOnce, Once
<1>12. DroppedAreCounted'
  BY <1>1, <1>4, <1>7 DEF DroppedAreCounted
<1> QED
  BY <1>8, <1>9, <1>10, <1>11, <1>12

(* The purge that reads its retention, the page, the settings and a day    *)
(* that passes leave the lines where they are.                             *)
LEMMA OthersKeep ==
  ASSUME JournalInv,
         \/ ReadRetention \/ NextPage \/ Leave \/ PassDay
         \/ (\E filter \in {"all", "System"} : OpenPage(filter)) \/ ExportFile("all")
         \/ (\E detailed \in BOOLEAN, days \in Retention \cup {0} : SaveSettings(detailed, days))
         \/ UNCHANGED vars
  PROVE  JournalInv'
<1>1. today \in Nat
  BY DEF JournalInv, LinesTyped
<1>2. CASE ReadRetention
  <2>1. Held' = Held
    BY <1>2 DEF ReadRetention, Held
  <2> QED
    BY <1>1, <1>2, <2>1, LinesStutter DEF ReadRetention, LineVars
<1>3. CASE PassDay
  <2>1. Held' = Held /\ today' \in Nat
    BY <1>1, <1>3 DEF PassDay, Held
  <2> QED
    BY <1>3, <2>1, LinesStutter DEF PassDay, LineVars
<1>4. CASE \/ NextPage \/ Leave \/ (\E filter \in {"all", "System"} : OpenPage(filter))
           \/ ExportFile("all") \/ UNCHANGED vars
           \/ (\E detailed \in BOOLEAN, days \in Retention \cup {0} : SaveSettings(detailed, days))
  <2>1. UNCHANGED <<queue, writer, rows, lastId, recording, born, gone, counting,
                    dropped, today>>
    BY <1>4 DEF NextPage, Leave, OpenPage, ExportFile, SaveSettings, vars
  <2>2. Held' = Held
    BY <2>1 DEF Held
  <2> QED
    BY <1>1, <2>1, <2>2, LinesStutter DEF LineVars
<1> QED
  BY <1>2, <1>3, <1>4

LEMMA JournalStep ==
  ASSUME JournalInv, [Next]_vars
  PROVE  JournalInv'
<1>1. CASE WriterStep
  BY <1>1, ReceiveKeeps, ReadCaptureKeeps, WriteBatchKeeps, ForgetOldKeeps, OthersKeep
    DEF WriterStep
<1>2. CASE \E kind \in {"AppError", "AppWarning"}, detail \in Words : Log(kind, detail)
  BY <1>2, LogQueued, LogRefused
<1>3. CASE \E kind \in {"OutageDetected", "CheckFailed"} : Record(kind)
  BY <1>3, RecordKept, RecordSkipped
<1>4. CASE CountDropped \/ RecordWith \/ Stop
  BY <1>4, CountDroppedKeeps, RecordWithKeeps, StopKeeps
<1>5. CASE \/ NextPage \/ Leave \/ PassDay
           \/ (\E filter \in {"all", "System"} : OpenPage(filter)) \/ ExportFile("all")
           \/ (\E detailed \in BOOLEAN, days \in Retention \cup {0} : SaveSettings(detailed, days))
           \/ UNCHANGED vars
  BY <1>5, OthersKeep
<1> QED
  BY <1>1, <1>2, <1>3, <1>4, <1>5 DEF Next

(* No line of the journal is lost in silence: whatever the sizes of the    *)
(* queue and of a batch, each line that happened is in exactly one place,  *)
(* waiting, in hand, kept, refused, skipped, unsaved, forgotten or cut by  *)
(* a stop, no essential one is skipped, the refused ones are all counted,  *)
(* and the caught ones are kept in the order they happened.                *)
THEOREM NothingLostInSilence == Spec => []NoLineLostInSilence
<1>1. Init => JournalInv
  BY JournalInitInv
<1>2. JournalInv /\ [Next]_vars => JournalInv'
  BY JournalStep
<1>3. JournalInv => NoLineLostInSilence
  <2> SUFFICES ASSUME JournalInv PROVE NoLineLostInSilence
    OBVIOUS
  <2>1. DOMAIN born = 1..Len(born)
    BY DEF JournalInv, LinesTyped
  <2>2. EveryLineOnce
    BY <2>1 DEF JournalInv, LinesOnce, Once, RowsDistinct, EssentialKept, EveryLineOnce
  <2>3. CaughtInOrder
    BY DEF JournalInv, LinesInOrder, RowsInOrder, IsSystem, CaughtInOrder
  <2> QED
    BY <2>2, <2>3 DEF JournalInv, NoLineLostInSilence
<1> QED
  BY <1>1, <1>2, <1>3, PTL DEF Spec

-----------------------------------------------------------------------------
(* Journal: the places of the lines that match                             *)

\* A set of numbers that is not empty has a smallest one.
LEMMA LeastNumber ==
  ASSUME NEW T \in SUBSET Nat, T # {}
  PROVE  \E m \in T : \A n \in T : m <= n
<1> DEFINE R == OpToRel(<, Nat)
<1>1. \A y, x \in Nat : y < x => <<y, x>> \in R
  BY DEF OpToRel
<1>2. IsWellFoundedOn(R, Nat)
  BY NatLessThanWellFounded
<1> HIDE DEF R
<1>3. PICK m \in T : \A n \in T : ~ (<<n, m>> \in R)
  BY <1>2, WFMin, Zenon
<1>4. \A n \in T : ~(n < m)
  BY <1>1, <1>3
<1> QED BY <1>4

\* As many ids of a set are newer than one of it as it has places.
LEMMA RankOf ==
  ASSUME NEW ids \in SUBSET Nat, IsFiniteSet(ids)
  PROVE  /\ Cardinality(ids) \in Nat
         /\ \A id \in Nat : Cardinality(Newer(ids, id)) \in Nat
         /\ \A id \in ids : Cardinality(Newer(ids, id)) \in 0..Cardinality(ids) - 1
         /\ \A i, j \in ids : i < j => Cardinality(Newer(ids, j)) < Cardinality(Newer(ids, i))
<1>1. Cardinality(ids) \in Nat
  BY FS_CardinalityType
<1>2. \A id \in Nat : IsFiniteSet(Newer(ids, id)) /\ Cardinality(Newer(ids, id)) \in Nat
  <2> TAKE id \in Nat
  <2>1. Newer(ids, id) \in SUBSET ids
    BY DEF Newer
  <2> QED BY <2>1, FS_Subset, FS_CardinalityType
<1>3. \A id \in ids : Cardinality(Newer(ids, id)) < Cardinality(ids)
  <2> TAKE id \in ids
  <2>1. Newer(ids, id) \in SUBSET ids /\ Newer(ids, id) # ids
    BY DEF Newer
  <2>2. /\ Cardinality(Newer(ids, id)) <= Cardinality(ids)
        /\ Cardinality(ids) # Cardinality(Newer(ids, id))
    BY <2>1, FS_Subset
  <2>3. id \in Nat
    OBVIOUS
  <2> QED BY <1>1, <1>2, <2>2, <2>3
<1>4. \A i, j \in ids : i < j => Cardinality(Newer(ids, j)) < Cardinality(Newer(ids, i))
  <2> SUFFICES ASSUME NEW i \in ids, NEW j \in ids, i < j
               PROVE  Cardinality(Newer(ids, j)) < Cardinality(Newer(ids, i))
    OBVIOUS
  <2>1. i \in Nat /\ j \in Nat
    OBVIOUS
  <2>2. Newer(ids, j) \in SUBSET Newer(ids, i) /\ Newer(ids, j) # Newer(ids, i)
    <3>1. \A id \in Newer(ids, j) : id \in Newer(ids, i)
      BY <2>1 DEF Newer
    <3>2. j \in Newer(ids, i) /\ j \notin Newer(ids, j)
      BY <2>1 DEF Newer
    <3> QED BY <3>1, <3>2
  <2>3. /\ Cardinality(Newer(ids, j)) <= Cardinality(Newer(ids, i))
        /\ Cardinality(Newer(ids, i)) # Cardinality(Newer(ids, j))
    BY <1>2, <2>1, <2>2, FS_Subset
  <2> QED BY <1>2, <2>1, <2>3
<1> QED BY <1>1, <1>2, <1>3, <1>4

\* ORDER BY id DESC: every id has its place, after those that are newer.
LEMMA Placed ==
  ASSUME NEW ids \in SUBSET Nat, IsFiniteSet(ids)
  PROVE  /\ Cardinality(ids) \in Nat /\ DOMAIN NewestFirst(ids) = 1..Cardinality(ids)
         /\ \A k \in 1..Cardinality(ids) :
              /\ NewestFirst(ids)[k] \in ids
              /\ Cardinality(Newer(ids, NewestFirst(ids)[k])) = k - 1
         /\ \A id \in ids : LET k == Cardinality(Newer(ids, id)) + 1
                            IN  k \in 1..Cardinality(ids) /\ NewestFirst(ids)[k] = id
<1> DEFINE size == Cardinality(ids)
           rank == [id \in ids |-> Cardinality(Newer(ids, id))]
           s == NewestFirst(ids)
<1>1. /\ size \in Nat
      /\ \A id \in ids : rank[id] \in 0..size - 1
      /\ \A i, j \in ids : i < j => rank[j] < rank[i]
  BY RankOf
<1>2. DOMAIN s = 1..size /\ \A k \in 1..size : s[k] = CHOOSE id \in ids : rank[id] = k - 1
  BY DEF NewestFirst
<1>3. rank \in [ids -> 0..size - 1]
  BY <1>1
<1>4. \A id \in ids : rank[id] = Cardinality(Newer(ids, id))
  OBVIOUS
<1> HIDE DEF rank, size, s
<1>5. \A i, j \in ids : rank[i] = rank[j] => i = j
  <2> TAKE i, j \in ids
  <2>1. i \in Nat /\ j \in Nat /\ rank[i] \in Int /\ rank[j] \in Int
    BY <1>1
  <2> QED BY <1>1, <2>1
<1>6. IsFiniteSet(0..size - 1) /\ Cardinality(0..size - 1) = size
  <2>1. size - 1 \in Int /\ 0 \in Int
    BY <1>1
  <2>2. /\ IsFiniteSet(0..size - 1)
        /\ Cardinality(0..size - 1) = IF 0 > size - 1 THEN 0 ELSE size - 1 - 0 + 1
    BY <2>1, FS_Interval
  <2> QED BY <1>1, <2>2
<1>7. rank \in Injection(ids, 0..size - 1)
  BY <1>3, <1>5 DEF Injection, IsInjective
<1>8. Cardinality(ids) = Cardinality(0..size - 1)
  BY <1>6 DEF size
<1>9. rank \in Surjection(ids, 0..size - 1)
  BY <1>6, <1>7, <1>8, FS_Injection
<1>10. \A k \in 1..size : \E id \in ids : rank[id] = k - 1
  <2> TAKE k \in 1..size
  <2>1. k - 1 \in 0..size - 1
    BY <1>1
  <2> QED BY <1>9, <2>1 DEF Surjection
<1>11. \A k \in 1..size : s[k] \in ids /\ rank[s[k]] = k - 1
  BY <1>2, <1>10
<1>12. \A id \in ids : rank[id] + 1 \in 1..size /\ s[rank[id] + 1] = id
  <2> TAKE id \in ids
  <2>1. rank[id] + 1 \in 1..size /\ (rank[id] + 1) - 1 = rank[id]
    BY <1>1
  <2> QED BY <1>5, <1>11, <2>1
<1>13. DOMAIN s = 1..size
  BY <1>2
<1> QED BY <1>1, <1>4, <1>11, <1>12, <1>13 DEF size, s

LEMMA MatchingIds ==
  ASSUME JournalInv, NEW filter
  PROVE  /\ Matching(filter) \in SUBSET Nat /\ IsFiniteSet(Matching(filter))
         /\ Matching(filter) \subseteq DOMAIN rows
<1>1. lastId \in Nat /\ DOMAIN rows \subseteq 1..lastId
  BY DEF JournalInv, LinesTyped
<1>2. Matching(filter) \in SUBSET (1..lastId) /\ Matching(filter) \subseteq DOMAIN rows
  BY <1>1 DEF Matching
<1>3. IsFiniteSet(1..lastId)
  BY <1>1, FS_Interval
<1>4. IsFiniteSet(Matching(filter))
  BY <1>2, <1>3, FS_Subset
<1> QED BY <1>1, <1>2, <1>4

\* list_page: the lines from one place to another of those that match.
LEMMA PageListed ==
  ASSUME JournalInv, NEW filter, NEW limit \in Nat, NEW offset \in Nat
  PROVE  LET ids == Matching(filter)
             size == Cardinality(ids)
             to == IF offset + limit < size THEN offset + limit ELSE size
             page == ListPage(filter, limit, offset)
         IN  /\ page \in Seq(JournalLine)
             /\ Len(page) = IF offset < to THEN to - offset ELSE 0
             /\ \A k \in 1..Len(page) :
                  /\ offset + k \in 1..size
                  /\ page[k] = rows[NewestFirst(ids)[offset + k]]
<1> DEFINE ids == Matching(filter)
           size == Cardinality(ids)
           first == NewestFirst(ids)
           newest == [k \in DOMAIN first |-> rows[first[k]]]
           to == IF offset + limit < size THEN offset + limit ELSE size
           page == ListPage(filter, limit, offset)
<1>1. ids \in SUBSET Nat /\ IsFiniteSet(ids) /\ ids \subseteq DOMAIN rows
  BY MatchingIds
<1>2. \A id \in DOMAIN rows : rows[id] \in JournalLine
  BY DEF JournalInv, LinesTyped
<1> HIDE DEF ids
<1>3. size \in Nat /\ DOMAIN first = 1..size /\ \A k \in 1..size : first[k] \in ids
  BY <1>1, Placed
<1> HIDE DEF size, first
<1>4. newest \in Seq(JournalLine) /\ Len(newest) = size /\ DOMAIN newest = 1..size
      /\ \A k \in 1..size : newest[k] = rows[first[k]]
  <2>1. newest = [k \in 1..size |-> rows[first[k]]]
    BY <1>3
  <2>2. \A k \in 1..size : rows[first[k]] \in JournalLine
    BY <1>1, <1>2, <1>3
  <2> QED BY <1>3, <2>1, <2>2
<1>5. page = SubSeq(newest, offset + 1,
              IF offset + limit < Len(newest) THEN offset + limit ELSE Len(newest))
  BY DEF ListPage, ids, first
<1> HIDE DEF newest, page
<1>6. page = SubSeq(newest, offset + 1, to)
  BY <1>4, <1>5
<1>7. to \in Nat /\ to <= size
  BY <1>3
<1> HIDE DEF to
<1>8. /\ page \in Seq(JournalLine)
      /\ Len(page) = IF offset + 1 <= to THEN to - (offset + 1) + 1 ELSE 0
      /\ \A k \in 1..Len(page) : page[k] = newest[offset + 1 + k - 1]
  <2>1. CASE offset + 1 <= to
    BY <1>4, <1>6, <1>7, <2>1
  <2>2. CASE ~(offset + 1 <= to)
    <3>1. page = << >>
      BY <1>4, <1>6, <1>7, <2>2
    <3> QED BY <1>7, <2>2, <3>1
  <2> QED BY <2>1, <2>2
<1>9. Len(page) = IF offset < to THEN to - offset ELSE 0
  BY <1>7, <1>8
<1>10. \A k \in 1..Len(page) : offset + k \in 1..size /\ page[k] = rows[first[offset + k]]
  <2> TAKE k \in 1..Len(page)
  <2>1. Len(page) = to - offset /\ offset < to /\ k <= to - offset
    BY <1>7, <1>9
  <2>2. offset + k \in 1..size /\ offset + 1 + k - 1 = offset + k
    BY <1>3, <1>7, <2>1
  <2> QED BY <1>4, <1>8, <2>2
<1> QED BY <1>8, <1>9, <1>10 DEF page, to, size, ids, first
-----------------------------------------------------------------------------
(* Journal: the reader of the pages                                        *)

(* The days rise with the ids, and the purge never reaches ahead.          *)
DaysInOrder ==
  /\ settings.days \in Nat /\ (writer.pc = "forgetting" => writer.days \in Nat)
  /\ \A id \in DOMAIN rows : rows[id].day <= today
  /\ \A i, j \in DOMAIN rows : i < j => rows[i].day <= rows[j].day

PageTyped ==
  /\ reader.page \in Nat \ {0} /\ reader.shown \in Seq(JournalLine)
  /\ reader.more \in BOOLEAN

(* A line of the first page's time is kept, or was forgotten since.        *)
ThereKnown ==
  \A line \in reader.there :
    /\ Matches(line, reader.filter)
    /\ (\E id \in DOMAIN rows : rows[id] = line) \/ line.n \in gone.forgotten

(* A line not seen yet comes after as many as the pages so far could show, *)
(* and after all those of the last one.                                    *)
StillAhead(id) ==
  /\ reader.more
  /\ Cardinality(Newer(Matching(reader.filter), id)) >= reader.page * PageSize
  /\ \A k \in 1..Len(reader.shown) :
       \E other \in DOMAIN rows : other > id /\ rows[other] = reader.shown[k]

UnseenAhead ==
  \A id \in DOMAIN rows :
    rows[id] \in reader.there /\ rows[id] \notin reader.seen => StillAhead(id)

ReaderInv ==
  DaysInOrder /\ (reader.pc = "paging" => PageTyped /\ ThereKnown /\ UnseenAhead)

LEMMA Offsets ==
  ASSUME NEW page \in Nat \ {0}, NEW size \in Nat
  PROVE  /\ (page - 1) * size \in Nat /\ page * size \in Nat
         /\ (page + 1) - 1 = page /\ page * size = (page - 1) * size + size
<1> DEFINE before == page - 1
<1>1. before \in Nat /\ page = before + 1
  OBVIOUS
<1> HIDE DEF before
<1>2. before * size \in Nat
  BY <1>1
<1>3. (before + 1) * size = before * size + size
  BY <1>1
<1> QED BY <1>1, <1>2, <1>3

\* A page takes the unseen lines of its places; the others come after it.
LEMMA ShowsAhead ==
  ASSUME JournalInv, NEW filter, NEW page \in Nat \ {0}, NEW before,
         Shows(filter, page, before), rows' = rows,
         \A id \in DOMAIN rows :
           rows[id] \in before.there /\ rows[id] \notin before.seen =>
             /\ id \in Matching(filter)
             /\ Cardinality(Newer(Matching(filter), id)) >= (page - 1) * PageSize
  PROVE  /\ PageTyped' /\ UnseenAhead'
         /\ reader'.filter = filter /\ reader'.there = before.there
<1> DEFINE ids == Matching(filter)
           size == Cardinality(ids)
           offset == (page - 1) * PageSize
           entries == ListPage(filter, PageSize + 1, offset)
           shown == Truncated(entries)
           to == IF offset + (PageSize + 1) < size THEN offset + (PageSize + 1) ELSE size
           first == NewestFirst(ids)
<1>1. reader' = [pc |-> "paging", filter |-> filter, page |-> page,
                 there |-> before.there, seen |-> before.seen \cup Range(shown),
                 shown |-> shown, more |-> HasNext(entries)]
  BY DEF Shows
<1>2. PageSize \in Nat \ {0} /\ offset \in Nat /\ page * PageSize = offset + PageSize
  BY Offsets
<1>3. ids \in SUBSET Nat /\ IsFiniteSet(ids) /\ ids \subseteq DOMAIN rows
  BY MatchingIds
<1>4. \A id \in DOMAIN rows :
        rows[id] \in before.there /\ rows[id] \notin before.seen =>
          id \in ids /\ Cardinality(Newer(ids, id)) >= offset
  OBVIOUS
<1>5. /\ entries \in Seq(JournalLine)
      /\ Len(entries) = IF offset < to THEN to - offset ELSE 0
      /\ \A k \in 1..Len(entries) : offset + k \in 1..size /\ entries[k] = rows[first[offset + k]]
  <2>1. PageSize + 1 \in Nat
    BY <1>2
  <2> HIDE DEF offset, entries
  <2> QED BY <1>2, <2>1, PageListed DEF entries
<1>6. size \in Nat
  BY <1>3, FS_CardinalityType
<1>7. /\ \A k \in 1..size : first[k] \in ids /\ Cardinality(Newer(ids, first[k])) = k - 1
      /\ \A id \in ids : LET k == Cardinality(Newer(ids, id)) + 1
                         IN  k \in 1..size /\ first[k] = id
  <2> HIDE DEF ids
  <2> QED BY <1>3, Placed
<1>8. \A i, j \in ids : i < j => Cardinality(Newer(ids, j)) < Cardinality(Newer(ids, i))
  <2> HIDE DEF ids
  <2> QED BY <1>3, RankOf
<1>9. \A id \in ids : Cardinality(Newer(ids, id)) \in Nat
  <2> HIDE DEF ids
  <2> QED BY <1>3, RankOf
<1> HIDE DEF offset, entries, shown, first, size, ids
<1>10. /\ shown \in Seq(JournalLine)
       /\ Len(shown) = IF Len(entries) > PageSize THEN PageSize ELSE Len(entries)
       /\ \A k \in 1..Len(shown) : shown[k] = entries[k]
  <2>1. shown = SubSeq(entries, 1, IF Len(entries) > PageSize THEN PageSize ELSE Len(entries))
    BY DEF shown, Truncated
  <2>2. Len(entries) \in Nat
    BY <1>5
  <2>3. CASE Len(entries) > PageSize
    BY <1>2, <1>5, <2>1, <2>2, <2>3
  <2>4. CASE ~(Len(entries) > PageSize)
    BY <1>2, <1>5, <2>1, <2>2, <2>4
  <2> QED BY <2>3, <2>4
<1>11. Len(shown) \in Nat /\ DOMAIN shown = 1..Len(shown) /\ Len(entries) \in Nat
  BY <1>5, <1>10
<1>12. HasNext(entries) = (Len(entries) > PageSize)
  BY DEF HasNext
<1>13. /\ reader'.page = page /\ reader'.shown = shown /\ reader'.filter = filter
       /\ reader'.there = before.there /\ reader'.seen = before.seen \cup Range(shown)
       /\ reader'.more = HasNext(entries)
  BY <1>1
<1>14. PageTyped'
  BY <1>10, <1>12, <1>13 DEF PageTyped
<1>15. Matching(reader.filter)' = ids
  BY <1>13 DEF Matching, ids
<1>16. UnseenAhead'
  <2> SUFFICES ASSUME NEW id \in DOMAIN rows, rows[id] \in before.there,
                      rows[id] \notin before.seen, rows[id] \notin Range(shown)
               PROVE  StillAhead(id)'
    BY <1>13 DEF UnseenAhead
  <2> DEFINE pos == Cardinality(Newer(ids, id)) + 1
  <2>1. id \in ids /\ Cardinality(Newer(ids, id)) \in Nat /\ Cardinality(Newer(ids, id)) >= offset
    BY <1>4, <1>9
  <2>2. pos \in 1..size /\ first[pos] = id
    BY <1>7, <2>1
  <2>3. pos \in Nat /\ pos > offset /\ pos = Cardinality(Newer(ids, id)) + 1
    BY <1>2, <2>1
  <2> HIDE DEF pos
  <2>4. ~(pos <= offset + PageSize)
    <3> SUFFICES ASSUME pos <= offset + PageSize PROVE FALSE
      OBVIOUS
    <3> DEFINE k == pos - offset
    <3>1. k \in 1..PageSize /\ offset + k = pos /\ k \in Nat
      BY <1>2, <2>2, <2>3
    <3>2. k <= Len(shown)
      <4>1. offset < to /\ k <= to - offset /\ to \in Nat
        BY <1>2, <1>6, <2>2, <2>3, <3>1
      <4>2. k <= Len(entries)
        BY <1>5, <4>1
      <4> QED BY <1>2, <1>10, <1>11, <3>1, <4>2
    <3>3. shown[k] = rows[id]
      <4>1. k \in 1..Len(entries) /\ k \in 1..Len(shown)
        BY <1>2, <1>10, <1>11, <3>1, <3>2
      <4> QED BY <1>5, <1>10, <2>2, <3>1, <4>1
    <3>4. shown[k] \in Range(shown)
      BY <1>11, <3>1, <3>2 DEF Range
    <3> QED BY <3>3, <3>4
  <2>5. Len(entries) = PageSize + 1
    <3>1. size >= offset + (PageSize + 1)
      BY <1>2, <1>6, <2>2, <2>3, <2>4
    <3>2. to = offset + (PageSize + 1)
      BY <1>2, <1>6, <3>1
    <3> HIDE DEF to
    <3> QED BY <1>2, <1>5, <3>2
  <2>6. reader'.more
    <3>1. HasNext(entries)
      BY <1>2, <2>5 DEF HasNext
    <3> QED BY <1>13, <3>1
  <2>7. Cardinality(Newer(Matching(reader.filter)', id)) >= reader'.page * PageSize
    <3>1. Cardinality(Newer(ids, id)) >= offset + PageSize
      BY <1>2, <2>1, <2>3, <2>4
    <3> QED BY <1>2, <1>13, <1>15, <3>1
  <2>8. \A k \in 1..Len(shown) : \E other \in DOMAIN rows : other > id /\ rows[other] = shown[k]
    <3> TAKE k \in 1..Len(shown)
    <3> DEFINE other == first[offset + k]
    <3>1. k \in Nat /\ k <= PageSize /\ k \in 1..Len(entries)
      BY <1>2, <1>10, <1>11, <2>5
    <3>2. offset + k \in 1..size /\ shown[k] = rows[other]
      BY <1>5, <1>10, <3>1
    <3>3. other \in ids /\ Cardinality(Newer(ids, other)) = offset + k - 1
      <4> DEFINE place == offset + k
      <4>1. place \in 1..size /\ other = first[place] /\ place - 1 = offset + k - 1
        BY <1>2, <3>1, <3>2
      <4> HIDE DEF place, other
      <4>2. first[place] \in ids /\ Cardinality(Newer(ids, first[place])) = place - 1
        BY <1>7, <4>1
      <4> QED BY <4>1, <4>2
    <3>4. Cardinality(Newer(ids, other)) < Cardinality(Newer(ids, id))
      BY <1>2, <2>1, <2>3, <2>4, <3>1, <3>3
    <3> HIDE DEF other
    <3>5. other \in Nat /\ id \in Nat /\ Cardinality(Newer(ids, other)) \in Nat
      BY <1>3, <1>9, <2>1, <3>3
    <3>6. other > id
      <4>1. ~(other < id) /\ other # id
        BY <1>8, <2>1, <3>3, <3>4, <3>5
      <4> QED BY <3>5, <4>1
    <3> QED BY <1>3, <3>2, <3>3, <3>6
  <2> QED BY <1>13, <2>6, <2>7, <2>8 DEF StillAhead, Newer
<1> QED BY <1>13, <1>14, <1>16
LEMMA ReaderInitInv == Init => ReaderInv
  BY DEF Init, ReaderInv, DaysInOrder

\* Rows come with greater ids and go from the smaller ones, and no line comes
\* back: what is ahead of the reader stays ahead.
LEMMA RowsMoved ==
  ASSUME JournalInv, JournalInv', ReaderInv, reader' = reader, DaysInOrder',
         \A id \in DOMAIN rows \cap DOMAIN rows' : rows'[id] = rows[id],
         \A id \in DOMAIN rows \cap DOMAIN rows', other \in DOMAIN rows :
           other > id => other \in DOMAIN rows',
         \A id \in DOMAIN rows' \ DOMAIN rows :
           rows'[id].n \notin Numbers(rows) /\ rows'[id].n \notin gone.forgotten,
         \A id \in DOMAIN rows \ DOMAIN rows' : rows[id].n \in gone'.forgotten,
         gone.forgotten \subseteq gone'.forgotten
  PROVE  ReaderInv'
<1> SUFFICES ASSUME reader.pc = "paging"
             PROVE  PageTyped' /\ ThereKnown' /\ UnseenAhead'
  BY DEF ReaderInv
<1>1. PageTyped /\ ThereKnown /\ UnseenAhead
  BY DEF ReaderInv
<1>2. PageTyped'
  BY <1>1 DEF PageTyped
<1>3. ThereKnown'
  <2> SUFFICES ASSUME NEW line \in reader.there
               PROVE  /\ Matches(line, reader.filter)
                      /\ (\E id \in DOMAIN rows' : rows'[id] = line) \/ line.n \in gone'.forgotten
    BY DEF ThereKnown, Matches
  <2>1. /\ Matches(line, reader.filter)
        /\ (\E id \in DOMAIN rows : rows[id] = line) \/ line.n \in gone.forgotten
    BY <1>1 DEF ThereKnown
  <2> QED BY <2>1
<1>4. UnseenAhead'
  <2> SUFFICES ASSUME NEW id \in DOMAIN rows', rows'[id] \in reader.there,
                      rows'[id] \notin reader.seen
               PROVE  StillAhead(id)'
    BY DEF UnseenAhead
  <2>1. id \in DOMAIN rows
    <3> SUFFICES ASSUME id \notin DOMAIN rows PROVE FALSE
      OBVIOUS
    <3>1. (\E other \in DOMAIN rows : rows[other] = rows'[id]) \/ rows'[id].n \in gone.forgotten
      BY <1>1 DEF ThereKnown
    <3>2. rows'[id].n \notin Numbers(rows) /\ rows'[id].n \notin gone.forgotten
      OBVIOUS
    <3> QED BY <3>1, <3>2 DEF Numbers
  <2>2. StillAhead(id)
    BY <1>1, <2>1 DEF UnseenAhead
  <2> DEFINE ids == Matching(reader.filter)
             later == {i \in DOMAIN rows' : Matches(rows'[i], reader.filter)}
  <2>3. lastId' \in Nat /\ DOMAIN rows' \subseteq 1..lastId'
    BY DEF JournalInv, LinesTyped
  <2>4. IsFiniteSet(Newer(later, id))
    <3>1. Newer(later, id) \in SUBSET (1..lastId')
      BY <2>3 DEF Newer
    <3>2. IsFiniteSet(1..lastId')
      BY <2>3, FS_Interval
    <3> HIDE DEF later
    <3> QED BY <3>1, <3>2, FS_Subset
  <2>5. Newer(ids, id) \in SUBSET Newer(later, id)
    <3> SUFFICES ASSUME NEW i \in DOMAIN rows, Matches(rows[i], reader.filter), i > id
                 PROVE  i \in DOMAIN rows' /\ Matches(rows'[i], reader.filter)
      BY DEF Newer, Matching
    <3>1. i \in DOMAIN rows'
      BY <2>1
    <3> QED BY <3>1
  <2>6. /\ Cardinality(Newer(ids, id)) <= Cardinality(Newer(later, id))
        /\ Cardinality(Newer(ids, id)) \in Nat /\ Cardinality(Newer(later, id)) \in Nat
    <3> HIDE DEF ids, later
    <3> QED BY <2>4, <2>5, FS_Subset, FS_CardinalityType
  <2>7. reader.page * PageSize \in Nat
    BY <1>1, Offsets DEF PageTyped
  <2>8. Cardinality(Newer(later, id)) >= reader.page * PageSize
    <3>1. Cardinality(Newer(ids, id)) >= reader.page * PageSize
      BY <2>2 DEF StillAhead
    <3> HIDE DEF ids, later
    <3> QED BY <2>6, <2>7, <3>1
  <2>9. \A k \in 1..Len(reader.shown) :
          \E other \in DOMAIN rows' : other > id /\ rows'[other] = reader.shown[k]
    <3> TAKE k \in 1..Len(reader.shown)
    <3>1. PICK other \in DOMAIN rows : other > id /\ rows[other] = reader.shown[k]
      BY <2>2 DEF StillAhead
    <3> QED BY <2>1, <3>1
  <2>10. Matching(reader.filter)' = later
    BY DEF Matching, Matches
  <2> QED BY <2>2, <2>8, <2>9, <2>10 DEF StillAhead, Newer
<1> QED BY <1>2, <1>3, <1>4

\* A line in one place is in no other.
LEMMA InOnePlace ==
  ASSUME JournalInv, NEW from \in 1..9, NEW n \in Places[from], NEW other \in 1..9 \ {from}
  PROVE  n \notin Places[other]
<1>1. \A place \in DOMAIN Places : Places[place] \subseteq 1..Len(born)
  BY PlacesBounded DEF JournalInv
<1> DEFINE P == Places
           all == 1..Len(born)
<1>2. Once(P, all) /\ DOMAIN P = 1..9 /\ n \in all /\ n \in P[from]
  BY <1>1, PlacesNow DEF JournalInv, LinesOnce
<1> HIDE DEF P, all
<1>3. n \notin P[other]
  BY <1>2 DEF Once
<1> QED BY <1>3 DEF P

\* Steps that leave the rows and the reader alone.
LEMMA RowsStay ==
  ASSUME JournalInv, JournalInv', ReaderInv, UNCHANGED <<reader, rows>>, DaysInOrder',
         gone'.forgotten = gone.forgotten
  PROVE  ReaderInv'
  BY RowsMoved

LEMMA RowsAdded ==
  ASSUME JournalInv, JournalInv', ReaderInv, UNCHANGED <<reader, settings, today>>,
         gone'.forgotten = gone.forgotten, writer'.pc = "forgetting" => writer' = writer,
         NEW lines, NEW places, AddAll(lines, places),
         DOMAIN lines \subseteq Nat \ {0}, \A i \in DOMAIN lines : lines[i] \in JournalLine,
         \A n \in Numbers(lines) : n \notin Numbers(rows) /\ n \notin gone.forgotten
  PROVE  ReaderInv'
<1>1. lastId \in Nat /\ DOMAIN rows \subseteq 1..lastId /\ today \in Nat
  BY DEF JournalInv, LinesTyped
<1> DEFINE new == {lastId + i : i \in DOMAIN lines}
<1>2. \A id \in new : id \in Nat /\ id > lastId /\ id - lastId \in DOMAIN lines
  BY <1>1
<1>3. rows' = [id \in DOMAIN rows \cup new |->
                 IF id \in DOMAIN rows THEN rows[id]
                 ELSE [lines[id - lastId] EXCEPT !.day = today]]
  BY DEF AddAll
<1>4. DOMAIN rows' = DOMAIN rows \cup new /\ \A id \in DOMAIN rows : id \in Nat /\ id <= lastId
  BY <1>1, <1>3
<1>5. \A id \in DOMAIN rows : rows'[id] = rows[id]
  BY <1>3
<1>6. \A id \in new : id \notin DOMAIN rows /\ rows'[id] = [lines[id - lastId] EXCEPT !.day = today]
  BY <1>1, <1>2, <1>3
<1>7. \A id \in new : rows'[id].day = today /\ rows'[id].n \in Numbers(lines)
  <2> TAKE id \in new
  <2>1. lines[id - lastId] \in JournalLine
    BY <1>2
  <2>2. rows'[id].day = today /\ rows'[id].n = lines[id - lastId].n
    BY <1>6, <2>1 DEF JournalLine
  <2> QED BY <1>2, <2>2 DEF Numbers
<1> HIDE DEF new
<1>8. \A id \in DOMAIN rows : rows[id].day \in Nat /\ rows[id].day <= today
  BY DEF JournalInv, LinesTyped, JournalLine, ReaderInv, DaysInOrder
<1>9. DaysInOrder'
  <2>1. settings.days' \in Nat /\ (writer'.pc = "forgetting" => writer'.days \in Nat)
    BY DEF ReaderInv, DaysInOrder
  <2>2. \A id \in DOMAIN rows' : rows'[id].day <= today'
    BY <1>1, <1>4, <1>5, <1>7, <1>8
  <2>3. \A i, j \in DOMAIN rows' : i < j => rows'[i].day <= rows'[j].day
    <3> SUFFICES ASSUME NEW i \in DOMAIN rows', NEW j \in DOMAIN rows', i < j
                 PROVE  rows'[i].day <= rows'[j].day
      OBVIOUS
    <3>1. CASE j \in new
      BY <1>1, <1>4, <1>5, <1>7, <1>8, <3>1
    <3>2. CASE j \in DOMAIN rows
      <4>1. i \in DOMAIN rows
        BY <1>1, <1>2, <1>4, <3>2
      <4> QED BY <1>5, <3>2, <4>1 DEF ReaderInv, DaysInOrder
    <3> QED BY <1>4, <3>1, <3>2
  <2> QED BY <2>1, <2>2, <2>3 DEF DaysInOrder
<1>10. \A id \in DOMAIN rows' \ DOMAIN rows :
         rows'[id].n \notin Numbers(rows) /\ rows'[id].n \notin gone.forgotten
  BY <1>4, <1>7
<1>11. \A id \in DOMAIN rows : id \in DOMAIN rows'
  BY <1>4
<1> QED BY <1>5, <1>9, <1>10, <1>11, RowsMoved
LEMMA ForgetOldReader ==
  ASSUME JournalInv, JournalInv', ReaderInv, ForgetOld
  PROVE  ReaderInv'
<1> DEFINE old == Older(writer.days)
           left == DOMAIN rows \ old
<1>1. /\ writer.pc = "forgetting" /\ writer' = Idle
      /\ UNCHANGED <<settings, reader, today>>
      /\ rows' = [i \in left |-> rows[i]]
      /\ gone' = [gone EXCEPT !.forgotten = @ \cup {rows[i].n : i \in old}]
  BY DEF ForgetOld, Restrict
<1>2. gone'.forgotten = gone.forgotten \cup {rows[i].n : i \in old}
  BY <1>1 DEF JournalInv, LinesTyped, GoneSets
<1>3. old = {i \in DOMAIN rows : rows[i].day < today - writer.days}
  BY DEF Older
<1>4. writer.days \in Nat /\ today \in Nat /\ \A i \in DOMAIN rows : rows[i].day \in Nat
  BY <1>1 DEF ReaderInv, DaysInOrder, JournalInv, LinesTyped, JournalLine
<1>5. \A i, j \in DOMAIN rows : i < j => rows[i].day <= rows[j].day
  BY DEF ReaderInv, DaysInOrder
<1>6. \A i, j \in DOMAIN rows : i < j /\ i \notin old => j \notin old
  <2> SUFFICES ASSUME NEW i \in DOMAIN rows, NEW j \in DOMAIN rows, i < j, i \notin old,
                      j \in old
               PROVE  FALSE
    OBVIOUS
  <2>1. /\ rows[i].day <= rows[j].day /\ ~(rows[i].day < today - writer.days)
        /\ rows[j].day < today - writer.days
    BY <1>3, <1>5
  <2> QED BY <1>4, <2>1
<1>7. DOMAIN rows \in SUBSET Nat
  BY DEF JournalInv, LinesTyped
<1> HIDE DEF old
<1>8. /\ DOMAIN rows' = left /\ left \subseteq DOMAIN rows
      /\ \A i \in left : rows'[i] = rows[i]
  BY <1>1
<1>9. DaysInOrder'
  BY <1>1, <1>8 DEF ReaderInv, DaysInOrder
<1>10. \A id \in DOMAIN rows \cap DOMAIN rows', other \in DOMAIN rows :
         other > id => other \in DOMAIN rows'
  <2> SUFFICES ASSUME NEW id \in DOMAIN rows, id \in DOMAIN rows', NEW other \in DOMAIN rows,
                      other > id
               PROVE  other \in DOMAIN rows'
    OBVIOUS
  <2>1. id < other /\ id \notin old
    BY <1>7, <1>8
  <2> QED BY <1>6, <1>8, <2>1
<1>11. \A id \in DOMAIN rows \ DOMAIN rows' : rows[id].n \in gone'.forgotten
  BY <1>2, <1>8
<1>12. /\ \A id \in DOMAIN rows \cap DOMAIN rows' : rows'[id] = rows[id]
       /\ DOMAIN rows' \ DOMAIN rows = {} /\ gone.forgotten \subseteq gone'.forgotten
  BY <1>2, <1>8
<1> QED BY <1>1, <1>9, <1>10, <1>11, <1>12, RowsMoved

LEMMA RecordWithReader ==
  ASSUME JournalInv, JournalInv', ReaderInv, RecordWith
  PROVE  ReaderInv'
<1>1. /\ recording.pc = "kept" /\ UNCHANGED <<writer, settings, reader, today>>
      /\ \/ AddAll(<<recording.line>>, 1) /\ gone' = gone
         \/ /\ gone' = [gone EXCEPT !.unsaved = @ \cup {recording.line.n}]
            /\ UNCHANGED rows
  BY DEF RecordWith
<1>2. gone \in GoneSets /\ recording.line \in JournalLine
  BY <1>1 DEF JournalInv, LinesTyped
<1>3. CASE AddAll(<<recording.line>>, 1) /\ gone' = gone
  <2> DEFINE lines == <<recording.line>>
  <2>1. DOMAIN lines = {1} /\ lines[1] = recording.line
    OBVIOUS
  <2>2. \A n \in Numbers(lines) : n \notin Numbers(rows) /\ n \notin gone.forgotten
    <3>1. \A n \in Numbers(lines) : n \in Places[9]
      BY <1>1, <2>1, PlacesNow DEF Numbers, Hand
    <3>2. \A n \in Places[9] : n \notin Places[2] /\ n \notin Places[6]
      BY InOnePlace
    <3> QED BY <3>1, <3>2, PlacesNow
  <2>3. /\ DOMAIN lines \subseteq Nat \ {0} /\ \A i \in DOMAIN lines : lines[i] \in JournalLine
        /\ AddAll(lines, 1)
    BY <1>2, <1>3, <2>1
  <2> HIDE DEF lines
  <2> QED BY <1>1, <1>3, <2>2, <2>3, RowsAdded
<1>4. CASE gone' = [gone EXCEPT !.unsaved = @ \cup {recording.line.n}] /\ UNCHANGED rows
  <2>1. gone'.forgotten = gone.forgotten
    BY <1>2, <1>4 DEF GoneSets
  <2>2. DaysInOrder'
    BY <1>1, <1>4 DEF ReaderInv, DaysInOrder
  <2> QED BY <1>1, <1>4, <2>1, <2>2, RowsStay
<1> QED BY <1>1, <1>3, <1>4

LEMMA WriteBatchReader ==
  ASSUME JournalInv, JournalInv', ReaderInv, WriteBatch
  PROVE  ReaderInv'
<1>1. /\ writer.pc = "writing" /\ writer' = Idle /\ UNCHANGED <<settings, reader, today>>
      /\ \/ /\ AddAll(writer.batch, Batch)
            /\ gone' = [gone EXCEPT !.told = @ + Told(dropped)]
         \/ /\ gone' = [gone EXCEPT !.told = @ + Told(dropped),
                                    !.unsaved = @ \cup Numbers(writer.batch)]
            /\ UNCHANGED rows
  BY DEF WriteBatch
<1>2. gone \in GoneSets
  BY DEF JournalInv, LinesTyped
<1>3. gone'.forgotten = gone.forgotten
  BY <1>1, <1>2 DEF GoneSets
<1>4. CASE AddAll(writer.batch, Batch)
  <2> DEFINE lines == writer.batch
  <2>1. Held = lines
    BY <1>1 DEF Held
  <2>2. \A n \in Numbers(lines) : n \notin Numbers(rows) /\ n \notin gone.forgotten
    <3>1. \A n \in Numbers(lines) : n \in Places[8]
      BY <2>1, PlacesNow
    <3>2. \A n \in Places[8] : n \notin Places[2] /\ n \notin Places[6]
      BY InOnePlace
    <3> QED BY <3>1, <3>2, PlacesNow
  <2>3. /\ DOMAIN lines \subseteq Nat \ {0} /\ \A i \in DOMAIN lines : lines[i] \in JournalLine
        /\ AddAll(lines, Batch)
    BY <1>4, <2>1 DEF JournalInv, LinesTyped
  <2> HIDE DEF lines
  <2> QED BY <1>1, <1>3, <2>2, <2>3, RowsAdded
<1>5. CASE UNCHANGED rows
  <2>1. DaysInOrder'
    BY <1>1, <1>5 DEF ReaderInv, DaysInOrder
  <2> QED BY <1>1, <1>3, <1>5, <2>1, RowsStay
<1> QED BY <1>1, <1>4, <1>5

LEMMA OthersReader ==
  ASSUME JournalInv, JournalInv', ReaderInv,
         \/ Receive \/ ReadCapture \/ ReadRetention \/ CountDropped \/ PassDay \/ Stop
         \/ (\E kind \in {"AppError", "AppWarning"}, detail \in Words : Log(kind, detail))
         \/ (\E kind \in {"OutageDetected", "CheckFailed"} : Record(kind))
         \/ (\E detailed \in BOOLEAN, days \in Retention \cup {0} : SaveSettings(detailed, days))
         \/ UNCHANGED vars
  PROVE  ReaderInv'
<1>1. gone \in GoneSets /\ today \in Nat
  BY DEF JournalInv, LinesTyped
<1>2. /\ UNCHANGED <<rows, reader>>
      /\ today' = today \/ today' = today + 1
      /\ settings' = settings \/ settings'.days \in Nat
      /\ writer'.pc = "forgetting" => writer'.days = settings.days \/ writer' = writer
      /\ gone'.forgotten = gone.forgotten
  <2>1. CASE Receive \/ ReadRetention \/ CountDropped \/ PassDay \/ UNCHANGED vars
    BY <2>1 DEF Receive, ReadRetention, CountDropped, PassDay, vars
  <2>2. CASE ReadCapture
    <3>1. /\ writer'.pc = "writing" /\ UNCHANGED <<rows, reader, today, settings>>
      BY <2>2 DEF ReadCapture
    <3>2. gone'.forgotten = gone.forgotten
      BY <1>1, <2>2 DEF ReadCapture, GoneSets
    <3> QED BY <3>1, <3>2
  <2>3. CASE Stop
    <3>1. /\ writer'.pc = "idle" /\ UNCHANGED <<rows, reader, today, settings>>
      BY <2>3 DEF Stop
    <3>2. gone'.forgotten = gone.forgotten
      BY <1>1, <2>3 DEF Stop, GoneSets
    <3> QED BY <3>1, <3>2
  <2>4. CASE \E kind \in {"AppError", "AppWarning"}, detail \in Words : Log(kind, detail)
    BY <1>1, <2>4 DEF Log, Caught, GoneSets
  <2>5. CASE \E kind \in {"OutageDetected", "CheckFailed"} : Record(kind)
    BY <1>1, <2>5 DEF Record, Caught, GoneSets
  <2>6. CASE \E detailed \in BOOLEAN, days \in Retention \cup {0} : SaveSettings(detailed, days)
    <3>1. PICK detailed \in BOOLEAN, days \in Retention \cup {0} : SaveSettings(detailed, days)
      BY <2>6
    <3>2. settings' = [detailed |-> detailed, days |-> days] /\ days \in Nat
      BY <3>1 DEF SaveSettings, InRange, JournalAssumption
    <3> QED BY <3>1, <3>2 DEF SaveSettings
  <2> QED BY <2>1, <2>2, <2>3, <2>4, <2>5, <2>6
<1>3. \A id \in DOMAIN rows : rows[id].day \in Nat
  BY DEF JournalInv, LinesTyped, JournalLine
<1>4. DaysInOrder'
  BY <1>1, <1>2, <1>3 DEF ReaderInv, DaysInOrder
<1> QED BY <1>2, <1>4, RowsStay

LEMMA NextPageReader ==
  ASSUME JournalInv, ReaderInv, NextPage
  PROVE  ReaderInv'
<1> DEFINE page == reader.page + 1
<1>1. /\ reader.pc = "paging" /\ Shows(reader.filter, page, reader)
      /\ UNCHANGED <<rows, writer, settings, today, gone>>
  BY DEF NextPage
<1>2. DaysInOrder /\ PageTyped /\ ThereKnown /\ UnseenAhead
  BY <1>1 DEF ReaderInv
<1>3. page \in Nat \ {0} /\ (page - 1) * PageSize = reader.page * PageSize
  BY <1>2, Offsets DEF PageTyped
<1>4. \A id \in DOMAIN rows :
        rows[id] \in reader.there /\ rows[id] \notin reader.seen =>
          /\ id \in Matching(reader.filter)
          /\ Cardinality(Newer(Matching(reader.filter), id)) >= (page - 1) * PageSize
  BY <1>2, <1>3 DEF ThereKnown, UnseenAhead, StillAhead, Matching
<1> HIDE DEF page
<1>5. PageTyped' /\ UnseenAhead' /\ reader'.filter = reader.filter /\ reader'.there = reader.there
  BY <1>1, <1>3, <1>4, ShowsAhead
<1>6. ThereKnown'
  BY <1>1, <1>2, <1>5 DEF ThereKnown, Matches
<1>7. DaysInOrder'
  BY <1>1, <1>2 DEF DaysInOrder
<1> QED BY <1>5, <1>6, <1>7 DEF ReaderInv

LEMMA OpenPageReader ==
  ASSUME JournalInv, ReaderInv, NEW filter, OpenPage(filter)
  PROVE  ReaderInv'
<1> DEFINE before == [there |-> {line \in Range(rows) : Matches(line, filter)}, seen |-> {}]
<1>1. /\ Shows(filter, 1, before)
      /\ UNCHANGED <<rows, writer, settings, today, gone>>
  BY DEF OpenPage
<1>2. (1 - 1) * PageSize = 0
  OBVIOUS
<1>3. \A id \in DOMAIN rows : Cardinality(Newer(Matching(filter), id)) >= 0
  <2>1. \A id \in Nat : Cardinality(Newer(Matching(filter), id)) \in Nat
    BY MatchingIds, RankOf
  <2>2. DOMAIN rows \subseteq Nat
    BY DEF JournalInv, LinesTyped
  <2> QED BY <2>1, <2>2
<1>4. \A id \in DOMAIN rows : rows[id] \in before.there => id \in Matching(filter)
  BY DEF Matching
<1>5. \A line \in before.there :
        Matches(line, filter) /\ \E id \in DOMAIN rows : rows[id] = line
  BY DEF Range
<1> HIDE DEF before
<1>6. PageTyped' /\ UnseenAhead' /\ reader'.filter = filter /\ reader'.there = before.there
  BY <1>1, <1>2, <1>3, <1>4, ShowsAhead
<1>7. ThereKnown'
  BY <1>1, <1>5, <1>6 DEF ThereKnown, Matches
<1>8. DaysInOrder'
  BY <1>1 DEF ReaderInv, DaysInOrder
<1> QED BY <1>6, <1>7, <1>8 DEF ReaderInv

LEMMA ReaderStep ==
  ASSUME JournalInv, JournalInv', ReaderInv, [Next]_vars
  PROVE  ReaderInv'
<1>1. CASE WriterStep
  BY <1>1, ForgetOldReader, WriteBatchReader, OthersReader DEF WriterStep
<1>2. CASE NextPage
  BY <1>2, NextPageReader
<1>3. CASE \E filter \in {"all", "System"} : OpenPage(filter)
  BY <1>3, OpenPageReader
<1>4. CASE Leave \/ ExportFile("all")
  <2>1. UNCHANGED <<rows, writer, settings, today>> /\ reader'.pc # "paging"
    BY <1>4 DEF Leave, ExportFile
  <2> QED BY <2>1 DEF ReaderInv, DaysInOrder
<1>5. CASE RecordWith
  BY <1>5, RecordWithReader
<1>6. CASE \/ CountDropped \/ PassDay \/ Stop
           \/ (\E kind \in {"AppError", "AppWarning"}, detail \in Words : Log(kind, detail))
           \/ (\E kind \in {"OutageDetected", "CheckFailed"} : Record(kind))
           \/ (\E detailed \in BOOLEAN, days \in Retention \cup {0} : SaveSettings(detailed, days))
           \/ UNCHANGED vars
  BY <1>6, OthersReader
<1> QED BY <1>1, <1>2, <1>3, <1>4, <1>5, <1>6 DEF Next

LEMMA MissesNothing ==
  ASSUME JournalInv, ReaderInv
  PROVE  PagingMissesNothing
<1>1. \A id \in DOMAIN rows : IdOf(rows[id]) = id
  <2> TAKE id \in DOMAIN rows
  <2>1. \A other \in DOMAIN rows : rows[other] = rows[id] => other = id
    BY DEF JournalInv, LinesOnce, RowsDistinct
  <2> QED BY <2>1 DEF IdOf, Range
<1> SUFFICES ASSUME reader.pc = "paging", NEW line \in reader.there, line \in Range(rows),
                    line \notin reader.seen
             PROVE  reader.more /\ \A shown \in Range(reader.shown) : IdOf(line) < IdOf(shown)
  BY DEF PagingMissesNothing
<1>2. PICK id \in DOMAIN rows : rows[id] = line
  BY DEF Range
<1>3. StillAhead(id) /\ PageTyped
  BY <1>2 DEF ReaderInv, UnseenAhead
<1>4. DOMAIN rows \in SUBSET Nat
  BY DEF JournalInv, LinesTyped
<1>5. \A shown \in Range(reader.shown) : IdOf(line) < IdOf(shown)
  <2> TAKE shown \in Range(reader.shown)
  <2>1. PICK k \in 1..Len(reader.shown) : reader.shown[k] = shown
    BY <1>3 DEF PageTyped, Range
  <2>2. PICK other \in DOMAIN rows : other > id /\ rows[other] = shown
    BY <1>3, <2>1 DEF StillAhead
  <2>3. IdOf(line) = id /\ IdOf(shown) = other
    BY <1>1, <1>2, <2>2
  <2> QED BY <1>4, <2>2, <2>3
<1> QED BY <1>3, <1>5 DEF StillAhead
-----------------------------------------------------------------------------
(* Journal: the rows of a page                                             *)

(* The two folds over a page: its lines into rows, its rows into a count.  *)
FoldFrom(what) == IF what = "rows" THEN << >> ELSE 0
FoldWith(what, before, one) ==
  IF what = "rows" THEN Fold(before, one) ELSE before + one.count

FoldOne(what, seq, sofar, part) ==
  IF part = {} THEN FoldFrom(what)
  ELSE FoldWith(what, sofar[part \ {Max(part)}], seq[Max(part)])

FoldsUp(what, seq, n, fold) ==
  fold = [part \in SUBSET (1..n) |-> FoldOne(what, seq, fold, part)]

LEMMA LargestOf ==
  ASSUME NEW n \in Nat \ {0}, NEW part \in SUBSET (1..n), n \in part
  PROVE  Max(part) = n
<1>1. \A y \in part : n >= y /\ y \in Nat
  OBVIOUS
<1>2. \A x \in part : (\A y \in part : x >= y) => x = n
  <2> TAKE x \in part
  <2> HAVE \A y \in part : x >= y
  <2> QED BY <1>1
<1> QED BY <1>1, <1>2 DEF Max

\* There is such a fold, of the first lines and one more, and so of them all.
LEMMA FoldExists ==
  ASSUME NEW what, NEW seq, NEW size \in Nat
  PROVE  \E fold : FoldsUp(what, seq, size, fold)
<1> DEFINE bad == {n \in Nat : ~\E fold : FoldsUp(what, seq, n, fold)}
<1> SUFFICES ASSUME bad # {} PROVE FALSE
  OBVIOUS
<1>1. PICK m \in bad : \A n \in bad : m <= n
  <2>1. bad \in SUBSET Nat
    OBVIOUS
  <2> HIDE DEF bad
  <2> QED BY <2>1, LeastNumber
<1>2. CASE m = 0
  <2> DEFINE fold == [part \in SUBSET (1..0) |-> FoldFrom(what)]
  <2>1. \A part \in SUBSET (1..0) : part = {}
    OBVIOUS
  <2>2. \A part \in SUBSET (1..0) : FoldOne(what, seq, fold, part) = FoldFrom(what)
    BY <2>1 DEF FoldOne
  <2>3. FoldsUp(what, seq, 0, fold)
    BY <2>2 DEF FoldsUp
  <2> QED BY <1>1, <1>2, <2>3
<1>3. CASE m # 0
  <2>1. m \in Nat \ {0} /\ m - 1 \in Nat /\ ~(m <= m - 1)
    BY <1>1, <1>3
  <2>2. m - 1 \notin bad
    BY <1>1, <2>1
  <2>3. PICK before : FoldsUp(what, seq, m - 1, before)
    BY <2>1, <2>2
  <2> DEFINE fold == [part \in SUBSET (1..m) |-> FoldOne(what, seq, before, part)]
  <2>4. \A part \in SUBSET (1..m) : m \notin part => part \in SUBSET (1..(m - 1))
    BY <2>1
  <2>5. \A part \in SUBSET (1..(m - 1)) : part \in SUBSET (1..m) /\ fold[part] = before[part]
    <3> TAKE part \in SUBSET (1..(m - 1))
    <3>1. part \in SUBSET (1..m)
      BY <2>1
    <3>2. before[part] = FoldOne(what, seq, before, part)
      BY <2>3 DEF FoldsUp
    <3> QED BY <3>1, <3>2
  <2>6. \A part \in SUBSET (1..m) :
          FoldOne(what, seq, before, part) = FoldOne(what, seq, fold, part)
    <3> SUFFICES ASSUME NEW part \in SUBSET (1..m)
                 PROVE  FoldOne(what, seq, before, part) = FoldOne(what, seq, fold, part)
      OBVIOUS
    <3>1. part \ {Max(part)} \in SUBSET (1..(m - 1))
      <4>1. CASE m \in part
        BY <2>1, <2>4, <4>1, LargestOf
      <4>2. CASE m \notin part
        BY <2>4, <4>2
      <4> QED BY <4>1, <4>2
    <3>2. fold[part \ {Max(part)}] = before[part \ {Max(part)}]
      BY <2>5, <3>1
    <3> HIDE DEF fold
    <3> QED BY <3>2 DEF FoldOne
  <2>7. FoldsUp(what, seq, m, fold)
    <3>1. \A part \in SUBSET (1..m) : fold[part] = FoldOne(what, seq, fold, part)
      BY <2>6
    <3>2. fold = [part \in SUBSET (1..m) |-> fold[part]]
      OBVIOUS
    <3> HIDE DEF fold
    <3> QED BY <3>1, <3>2 DEF FoldsUp
  <2> QED BY <1>1, <2>7
<1> QED BY <1>1, <1>2, <1>3

\* A fold taken one line after the other.
LEMMA FoldInSteps ==
  ASSUME NEW what, NEW seq, NEW size \in Nat, NEW fold, FoldsUp(what, seq, size, fold)
  PROVE  \E steps : /\ steps[0] = FoldFrom(what) /\ steps[size] = fold[1..size]
                    /\ \A k \in 1..size : steps[k] = FoldWith(what, steps[k - 1], seq[k])
<1> DEFINE steps == [k \in 0..size |-> fold[1..k]]
<1>1. \A part \in SUBSET (1..size) : fold[part] = FoldOne(what, seq, fold, part)
  BY DEF FoldsUp
<1>2. 0 \in 0..size /\ size \in 0..size /\ 1..0 = {}
  OBVIOUS
<1>3. steps[0] = FoldFrom(what)
  <2>1. {} \in SUBSET (1..size)
    OBVIOUS
  <2>2. fold[{}] = FoldFrom(what)
    BY <1>1, <2>1 DEF FoldOne
  <2> QED BY <1>2, <2>2
<1>4. \A k \in 1..size : steps[k] = FoldWith(what, steps[k - 1], seq[k])
  <2> TAKE k \in 1..size
  <2>1. k \in Nat \ {0} /\ k - 1 \in 0..size /\ k \in 0..size /\ 1..k \in SUBSET (1..size) /\ k \in 1..k
    OBVIOUS
  <2>2. Max(1..k) = k
    BY <2>1, LargestOf
  <2>3. (1..k) \ {k} = 1..(k - 1)
    BY <2>1
  <2>4. fold[1..k] = FoldWith(what, fold[1..(k - 1)], seq[k])
    <3>1. 1..k # {}
      BY <2>1
    <3>2. fold[1..k] = FoldOne(what, seq, fold, 1..k)
      BY <1>1, <2>1
    <3> QED BY <2>2, <2>3, <3>1, <3>2 DEF FoldOne
  <2> QED BY <2>1, <2>4
<1>5. steps[size] = fold[1..size]
  BY <1>2
<1> QED BY <1>3, <1>4, <1>5

LEMMA FoldedInSteps ==
  ASSUME NEW entries, NEW size \in Nat, DOMAIN entries = 1..size
  PROVE  \E steps : /\ steps[0] = << >> /\ steps[size] = Folded(entries)
                    /\ \A k \in 1..size : steps[k] = Fold(steps[k - 1], entries[k])
<1>1. \E fold : FoldsUp("rows", entries, size, fold)
  BY FoldExists
<1> DEFINE fold == CHOOSE f : FoldsUp("rows", entries, size, f)
<1>2. FoldsUp("rows", entries, size, fold)
  BY <1>1
<1>3. Folded(entries) = fold[1..size]
  BY DEF Folded, FoldLeft, MapThenFoldSet, FoldsUp, FoldOne, FoldFrom, FoldWith
<1> HIDE DEF fold
<1>4. PICK steps : /\ steps[0] = FoldFrom("rows") /\ steps[size] = fold[1..size]
                   /\ \A k \in 1..size :
                        steps[k] = FoldWith("rows", steps[k - 1], entries[k])
  BY <1>2, FoldInSteps
<1>5. steps[0] = << >> /\ \A k \in 1..size : steps[k] = Fold(steps[k - 1], entries[k])
  BY <1>4 DEF FoldFrom, FoldWith
<1> QED BY <1>3, <1>4, <1>5

LEMMA CountedInSteps ==
  ASSUME NEW folded, NEW size \in Nat, DOMAIN folded = 1..size
  PROVE  \E steps :
           /\ steps[0] = 0
           /\ steps[size] = FoldLeft(LAMBDA sum, row : sum + row.count, 0, folded)
           /\ \A k \in 1..size : steps[k] = steps[k - 1] + folded[k].count
<1>1. \E fold : FoldsUp("count", folded, size, fold)
  BY FoldExists
<1> DEFINE fold == CHOOSE f : FoldsUp("count", folded, size, f)
<1>2. FoldsUp("count", folded, size, fold)
  BY <1>1
<1>3. FoldLeft(LAMBDA sum, row : sum + row.count, 0, folded) = fold[1..size]
  BY DEF FoldLeft, MapThenFoldSet, FoldsUp, FoldOne, FoldFrom, FoldWith
<1> HIDE DEF fold
<1>4. PICK steps : /\ steps[0] = FoldFrom("count") /\ steps[size] = fold[1..size]
                   /\ \A k \in 1..size :
                        steps[k] = FoldWith("count", steps[k - 1], folded[k])
  BY <1>2, FoldInSteps
<1>5. steps[0] = 0 /\ \A k \in 1..size : steps[k] = steps[k - 1] + folded[k].count
  BY <1>4 DEF FoldFrom, FoldWith
<1> QED BY <1>3, <1>4, <1>5
FoldedRow == [entry : JournalLine, count : Nat, since : JournalLine]

(* Rows that count so many lines, each of one day, none like the next one. *)
Counts(folded, lines) ==
  \E upTo : /\ upTo[0] = 0 /\ upTo[Len(folded)] = lines
            /\ \A i \in 1..Len(folded) : upTo[i] \in Nat /\ upTo[i] = upTo[i - 1] + folded[i].count

RowsRight(folded, lines) ==
  /\ folded \in Seq(FoldedRow)
  /\ \A i \in 1..Len(folded) : folded[i].entry.day = folded[i].since.day
  /\ \A i \in 1..Len(folded) - 1 : ~Repeats(folded[i].entry, folded[i + 1].entry)
  /\ Counts(folded, lines)

LEMMA FoldKeepsRows ==
  ASSUME NEW folded, NEW lines \in Nat, RowsRight(folded, lines), NEW line \in JournalLine
  PROVE  RowsRight(Fold(folded, line), lines + 1)
<1> DEFINE size == Len(folded)
           last == folded[size]
           next == Fold(folded, line)
<1>1. /\ folded \in Seq(FoldedRow) /\ size \in Nat /\ DOMAIN folded = 1..size
      /\ \A i \in 1..size : folded[i] \in FoldedRow
  BY DEF RowsRight
<1>2. /\ \A i \in 1..size : folded[i].entry.day = folded[i].since.day
      /\ \A i \in 1..size - 1 : ~Repeats(folded[i].entry, folded[i + 1].entry)
  BY DEF RowsRight
<1>3. PICK upTo : /\ upTo[0] = 0 /\ upTo[size] = lines
                  /\ \A i \in 1..size : upTo[i] \in Nat /\ upTo[i] = upTo[i - 1] + folded[i].count
  BY DEF RowsRight, Counts
<1>4. CASE folded # << >> /\ Repeats(last.entry, line)
  <2> DEFINE row == [last EXCEPT !.count = @ + 1, !.since = line]
  <2>1. size \in Nat \ {0} /\ size \in 1..size
    BY <1>1, <1>4
  <2>2. last \in FoldedRow
    BY <1>1, <2>1
  <2>3. row = [entry |-> last.entry, count |-> last.count + 1, since |-> line]
    <3> HIDE DEF last
    <3>1. last = [entry |-> last.entry, count |-> last.count, since |-> last.since]
      BY <2>2 DEF FoldedRow
    <3>2. DOMAIN last = {"entry", "count", "since"}
      BY <3>1
    <3>3. row = [key \in {"entry", "count", "since"} |->
                   IF key = "since" THEN line
                   ELSE IF key = "count" THEN last.count + 1 ELSE last.entry]
      BY <3>1, <3>2
    <3> QED BY <3>3
  <2>4. /\ row \in FoldedRow /\ row.entry = last.entry /\ row.count = last.count + 1
        /\ row.since = line
    BY <2>2, <2>3 DEF FoldedRow
  <2>5. next = Front(folded) \o <<row>>
    BY <1>4 DEF Fold, Last
  <2> HIDE DEF row, next
  <2>6. /\ Front(folded) \in Seq(FoldedRow) /\ Len(Front(folded)) = size - 1
        /\ \A i \in 1..size - 1 : Front(folded)[i] = folded[i]
    BY <1>1, <2>1 DEF Front
  <2>7. /\ next \in Seq(FoldedRow) /\ Len(next) = size /\ next[size] = row
        /\ \A i \in 1..size - 1 : next[i] = folded[i]
    <3> DEFINE front == Front(folded)
    <3> HIDE DEF front
    <3>1. next = front \o <<row>> /\ front \in Seq(FoldedRow) /\ Len(front) = size - 1
      BY <2>5, <2>6 DEF front
    <3>2. next \in Seq(FoldedRow) /\ Len(next) = size /\ next[size] = row
      BY <2>1, <2>4, <3>1
    <3>3. \A i \in 1..size - 1 : next[i] = front[i]
      BY <2>1, <3>1
    <3> QED BY <2>6, <3>2, <3>3 DEF front
  <2>8. line.day = last.entry.day
    BY <1>4 DEF Repeats
  <2>9. \A i \in 1..Len(next) : next[i].entry = folded[i].entry /\ next[i].entry.day = next[i].since.day
    BY <1>1, <1>2, <2>1, <2>4, <2>7, <2>8
  <2>10. \A i \in 1..Len(next) - 1 : ~Repeats(next[i].entry, next[i + 1].entry)
    <3> TAKE i \in 1..Len(next) - 1
    <3>1. i \in 1..size - 1 /\ i \in 1..Len(next) /\ i + 1 \in 1..Len(next)
      BY <2>1, <2>7
    <3> QED BY <1>2, <2>9, <3>1
  <2>11. Counts(next, lines + 1)
    <3> DEFINE more == [i \in 0..size |-> IF i = size THEN lines + 1 ELSE upTo[i]]
    <3>1. more[0] = 0 /\ more[size] = lines + 1
      BY <1>3, <2>1
    <3>2. \A i \in 1..size : more[i] \in Nat /\ more[i] = more[i - 1] + next[i].count
      <4> TAKE i \in 1..size
      <4>1. more[i - 1] = upTo[i - 1]
        BY <2>1
      <4>2. upTo[i] \in Nat /\ upTo[i] = upTo[i - 1] + folded[i].count
        BY <1>3
      <4>3. upTo[i - 1] \in Nat
        BY <1>3, <2>1
      <4>4. CASE i = size
        <5>1. more[i] = lines + 1 /\ next[i].count = folded[i].count + 1
          BY <2>1, <2>4, <2>7, <4>4
        <5>2. folded[i].count \in Nat
          BY <1>1 DEF FoldedRow
        <5> HIDE DEF more
        <5>3. lines = upTo[i - 1] + folded[i].count
          BY <1>3, <4>2, <4>4
        <5>4. lines + 1 = upTo[i - 1] + (folded[i].count + 1)
          BY <4>3, <5>2, <5>3
        <5> QED BY <4>1, <5>1, <5>4
      <4>5. CASE i # size
        <5>1. more[i] = upTo[i] /\ next[i] = folded[i]
          BY <2>1, <2>7, <4>5
        <5> QED BY <4>1, <4>2, <5>1
      <4> QED BY <4>4, <4>5
    <3> HIDE DEF more
    <3> QED BY <2>7, <3>1, <3>2 DEF Counts
  <2> QED BY <2>7, <2>9, <2>10, <2>11 DEF RowsRight, next
<1>5. CASE ~(folded # << >> /\ Repeats(last.entry, line))
  <2> DEFINE row == [entry |-> line, count |-> 1, since |-> line]
  <2>1. next = Append(folded, row)
    BY <1>5 DEF Fold, Last
  <2>2. row \in FoldedRow /\ row.entry = line /\ row.since = line /\ row.count = 1
    BY DEF FoldedRow
  <2> HIDE DEF row, next
  <2>3. /\ next \in Seq(FoldedRow) /\ Len(next) = size + 1 /\ next[size + 1] = row
        /\ \A i \in 1..size : next[i] = folded[i]
    BY <1>1, <2>1, <2>2
  <2>4. \A i \in 1..Len(next) : next[i].entry.day = next[i].since.day
    BY <1>1, <1>2, <2>2, <2>3
  <2>5. \A i \in 1..Len(next) - 1 : ~Repeats(next[i].entry, next[i + 1].entry)
    <3> TAKE i \in 1..Len(next) - 1
    <3>1. i \in 1..size /\ next[i] = folded[i]
      BY <1>1, <2>3
    <3>2. CASE i = size
      <4>1. folded # << >> /\ next[i].entry = last.entry /\ next[i + 1].entry = line
        BY <1>1, <2>2, <2>3, <3>1, <3>2
      <4> QED BY <1>5, <4>1
    <3>3. CASE i # size
      <4>1. i \in 1..size - 1 /\ next[i + 1] = folded[i + 1]
        BY <1>1, <2>3, <3>1, <3>3
      <4> QED BY <1>2, <3>1, <4>1
    <3> QED BY <3>2, <3>3
  <2>6. Counts(next, lines + 1)
    <3> DEFINE more == [i \in 0..size + 1 |-> IF i = size + 1 THEN lines + 1 ELSE upTo[i]]
    <3>1. more[0] = 0 /\ more[size + 1] = lines + 1 /\ \A i \in 0..size : more[i] = upTo[i]
      BY <1>1, <1>3
    <3> HIDE DEF more
    <3>2. \A i \in 1..size + 1 : more[i] \in Nat /\ more[i] = more[i - 1] + next[i].count
      <4> TAKE i \in 1..size + 1
      <4>1. i - 1 \in 0..size /\ more[i - 1] = upTo[i - 1]
        BY <1>1, <3>1
      <4>2. CASE i = size + 1
        <5>1. i - 1 = size
          BY <1>1, <4>2
        <5>2. more[i] = lines + 1 /\ more[i - 1] = lines
          BY <1>3, <3>1, <4>1, <4>2, <5>1
        <5>3. next[i].count = 1
          BY <2>2, <2>3, <4>2
        <5> QED BY <5>2, <5>3
      <4>3. CASE i # size + 1
        <5>1. i \in 1..size /\ more[i] = upTo[i] /\ next[i] = folded[i]
          BY <1>1, <2>3, <3>1, <4>3
        <5> QED BY <1>3, <4>1, <5>1
      <4> QED BY <4>2, <4>3
    <3> QED BY <2>3, <3>1, <3>2 DEF Counts
  <2> QED BY <2>3, <2>4, <2>5, <2>6 DEF RowsRight, next
<1> QED BY <1>4, <1>5

\* However many lines a page has.
LEMMA FoldedRight ==
  ASSUME NEW entries \in Seq(JournalLine)
  PROVE  RowsRight(Folded(entries), Len(entries))
<1> DEFINE size == Len(entries)
<1>1. size \in Nat /\ DOMAIN entries = 1..size /\ \A k \in 1..size : entries[k] \in JournalLine
  OBVIOUS
<1> HIDE DEF size
<1>2. PICK steps : /\ steps[0] = << >> /\ steps[size] = Folded(entries)
                   /\ \A k \in 1..size : steps[k] = Fold(steps[k - 1], entries[k])
  BY <1>1, FoldedInSteps
<1> DEFINE bad == {k \in 0..size : ~RowsRight(steps[k], k)}
<1>3. bad = {}
  <2> SUFFICES ASSUME bad # {} PROVE FALSE
    OBVIOUS
  <2>1. PICK m \in bad : \A n \in bad : m <= n
    <3>1. bad \in SUBSET Nat
      BY <1>1
    <3> HIDE DEF bad
    <3> QED BY <3>1, LeastNumber
  <2>2. m \in 0..size /\ ~RowsRight(steps[m], m)
    BY <2>1
  <2>3. CASE m = 0
    <3>1. Counts(<< >>, 0)
      <4>1. [i \in {0} |-> 0][0] = 0 /\ Len(<< >>) = 0 /\ 1..0 = {}
        OBVIOUS
      <4> QED BY <4>1 DEF Counts
    <3>2. RowsRight(<< >>, 0)
      BY <3>1 DEF RowsRight
    <3> QED BY <1>2, <2>2, <2>3, <3>2
  <2>4. CASE m # 0
    <3>1. m \in 1..size /\ m - 1 \in 0..size /\ m - 1 \in Nat /\ (m - 1) + 1 = m /\ ~(m <= m - 1)
      BY <1>1, <2>2, <2>4
    <3>2. RowsRight(steps[m - 1], m - 1)
      BY <2>1, <3>1
    <3>3. steps[m] = Fold(steps[m - 1], entries[m]) /\ entries[m] \in JournalLine
      BY <1>1, <1>2, <3>1
    <3>4. RowsRight(Fold(steps[m - 1], entries[m]), (m - 1) + 1)
      BY <3>1, <3>2, <3>3, FoldKeepsRows
    <3> QED BY <2>2, <3>1, <3>3, <3>4
  <2> QED BY <2>3, <2>4
<1>4. RowsRight(steps[size], size)
  BY <1>1, <1>3
<1> QED BY <1>2, <1>4 DEF size

LEMMA TotalOf ==
  ASSUME NEW folded \in Seq(FoldedRow), NEW lines, Counts(folded, lines)
  PROVE  FoldLeft(LAMBDA sum, row : sum + row.count, 0, folded) = lines
<1> DEFINE size == Len(folded)
<1>1. size \in Nat /\ DOMAIN folded = 1..size
  OBVIOUS
<1>2. PICK upTo : /\ upTo[0] = 0 /\ upTo[size] = lines
                  /\ \A i \in 1..size : upTo[i] \in Nat /\ upTo[i] = upTo[i - 1] + folded[i].count
  BY DEF Counts
<1> HIDE DEF size
<1>3. PICK steps : /\ steps[0] = 0
                   /\ steps[size] = FoldLeft(LAMBDA sum, row : sum + row.count, 0, folded)
                   /\ \A k \in 1..size : steps[k] = steps[k - 1] + folded[k].count
  BY <1>1, CountedInSteps
<1> DEFINE bad == {k \in 0..size : steps[k] # upTo[k]}
<1>4. bad = {}
  <2> SUFFICES ASSUME bad # {} PROVE FALSE
    OBVIOUS
  <2>1. PICK m \in bad : \A n \in bad : m <= n
    <3>1. bad \in SUBSET Nat
      BY <1>1
    <3> HIDE DEF bad
    <3> QED BY <3>1, LeastNumber
  <2>2. m \in 0..size /\ steps[m] # upTo[m] /\ m # 0
    BY <1>2, <1>3, <2>1
  <2>3. m \in 1..size /\ m - 1 \in 0..size /\ ~(m <= m - 1)
    BY <1>1, <2>2
  <2>4. steps[m - 1] = upTo[m - 1]
    BY <2>1, <2>3
  <2> QED BY <1>2, <1>3, <2>2, <2>3, <2>4
<1>5. steps[size] = upTo[size]
  BY <1>1, <1>4
<1> QED BY <1>2, <1>3, <1>5

LEMMA RowsTell ==
  ASSUME ReaderInv
  PROVE  RowsTellEveryLine
<1> SUFFICES ASSUME reader.pc = "paging" PROVE RowsTellEveryLine
  BY DEF RowsTellEveryLine
<1>1. reader.shown \in Seq(JournalLine)
  BY DEF ReaderInv, PageTyped
<1> DEFINE folded == Folded(reader.shown)
<1>2. RowsRight(folded, Len(reader.shown))
  BY <1>1, FoldedRight
<1> HIDE DEF folded
<1>3. FoldLeft(LAMBDA sum, row : sum + row.count, 0, folded) = Len(reader.shown)
  BY <1>2, TotalOf DEF RowsRight
<1>4. DOMAIN folded = 1..Len(folded)
  BY <1>2 DEF RowsRight
<1> QED BY <1>2, <1>3, <1>4 DEF RowsTellEveryLine, RowsRight, folded

(* Through the pages every line is told: a reader who follows the links    *)
(* misses none that was there on the first page and still is, whatever     *)
(* arrives or is forgotten between two pages, and the rows of a page count *)
(* each of its lines once, whatever the size of a page and of the journal. *)
THEOREM EveryLineIsTold == Spec => []PagesTellEveryLine
<1>1. Init => JournalInv /\ ReaderInv
  BY JournalInitInv, ReaderInitInv
<1>2. JournalInv /\ ReaderInv /\ [Next]_vars => JournalInv' /\ ReaderInv'
  BY JournalStep, ReaderStep
<1>3. JournalInv /\ ReaderInv => PagesTellEveryLine
  BY MissesNothing, RowsTell DEF PagesTellEveryLine
<1> QED BY <1>1, <1>2, <1>3, PTL DEF Spec
=============================================================================
