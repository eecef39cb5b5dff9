----------------------------- MODULE Subscribers -----------------------------
(***************************************************************************)
(* The people told by email of what the page publishes, and the task that  *)
(* sends them their emails.                                                *)
(*                                                                         *)
(* A visitor asks with an address, opens the link sent to it and clicks:   *)
(* the click reads the request, checks its secret and only then confirms   *)
(* it, so another click, a newer request or an unsubscription may come in  *)
(* between.  Members subscribe at the address of their account.            *)
(*                                                                         *)
(* News is queued for each subscriber.  One task sends the queues in       *)
(* rounds, the first waiting email of each subscriber at a time, while     *)
(* people leave, accounts are disabled, events are hidden or deleted and   *)
(* the page is closed to visitors.  It looks each reader up once a round.  *)
(*                                                                         *)
(* Time is kept as what the statements tell apart: whether the time of an  *)
(* email has come, whether it waited too long, how old a request is.  A    *)
(* round compares with the instant it began at, so emails ripen and age    *)
(* between rounds only.  There are fewer subscribers than BATCH.           *)
(***************************************************************************)
EXTENDS Integers, Sequences, FiniteSets

CONSTANTS
  Addresses,             \* of visitors
  Members,
  AccountAddress,        \* the address of each member's account
  Events,
  KindOf,                \* the kind of each event, as subscribers tick them
  Clicks,                \* the clicks on confirmation links under way at once
  REQUESTS_PER_ADDRESS,
  REQUESTS_PER_INSTANCE,
  RETRIES,               \* how many times an email is tried again
  SENDS_PER_ROUND,
  MaxEmails,             \* bound on the emails of a subscriber
  MaxQueued,             \* bound on the emails of all of them
  MaxInputs              \* bound on requests, changes, failures and restarts

None == "none"

ASSUME SubscribersAssumption ==
  /\ Addresses \cap Members = {} /\ "visitor" \notin Members
  /\ REQUESTS_PER_ADDRESS \in Nat /\ REQUESTS_PER_INSTANCE \in Nat
  /\ RETRIES \in Nat /\ SENDS_PER_ROUND \in Nat \ {0} /\ MaxEmails \in Nat /\ MaxQueued \in Nat
  /\ MaxInputs \in Nat

VARIABLES
  subscribers,  \* the kinds each visitor address and member receives, {} for no row
  requests,     \* subscription_requests of each address, oldest first
  click,        \* the request each click has read and checked
  page,         \* what the team set: see Page
  rows,         \* subscriber_deliveries of each subscriber, by id
  next,         \* the id of the next one
  round,        \* where deliver_to_subscribers is and what it has looked up
  job,          \* what it is doing for each subscriber
  since,        \* history: what was allowed at some moment of this round
  mail,         \* history: the last email that reached each subscriber, and
                \* whether its outcome was lost
  asked,        \* history: addresses that made a request since they last confirmed one
  ended,        \* history: subscriptions that ended since the heads were read
  born,         \* history: the first email each subscription could receive
  used          \* how much of MaxInputs is used

people  == <<subscribers, requests, click>>
queue   == <<rows, next>>
task    == <<round, job>>
history == <<since, mail, asked, ended, born>>
vars    == <<people, page, queue, task, history, used>>

Keys  == Addresses \cup Members
Ids   == 1..MaxEmails
Kinds == {KindOf[e] : e \in Events} \cup {"other"}

\* A visitor sees what everyone sees: all of them are the one reader "visitor".
Readers == {"visitor"} \cup Members
Reader(k) == IF k \in Members THEN k ELSE "visitor"

Scopes == SUBSET Events

\* linked: there is a mail server and a page address.  welcome: the page is
\* public.  open: the administrators opened it to visitors' subscriptions.
Page == [linked : BOOLEAN, public : BOOLEAN, open : BOOLEAN, active : SUBSET Members,
         known : SUBSET Events, shown : [Readers -> Scopes]]

Row == [event : Events \cup {None}, status : {None, "pending", "sent", "failed", "skipped"},
        attempts : 0..RETRIES, due : BOOLEAN, late : BOOLEAN]

NoRow == [event |-> None, status |-> None, attempts |-> 0, due |-> FALSE, late |-> FALSE]

Request == [kinds : (SUBSET Kinds) \ {{}}, age : {"hour", "day", "stale"}]

\* Looked up once a round: not yet, not a reader, or the events they see.
Looked == [found : {"unread", "nobody", "reader"}, scope : Scopes]
Unread == [found |-> "unread", scope |-> {}]
Nobody == [found |-> "nobody", scope |-> {}]
Sees(scope) == [found |-> "reader", scope |-> scope]

IdleRound == [pc |-> "idle", readers |-> [r \in Readers |-> Unread], notices |-> {},
              previous |-> [k \in Keys |-> 0], sent |-> 0, serverDown |-> FALSE]

NoJob == [step |-> "none", head |-> 0, row |-> NoRow, result |-> "ok"]

NoRound == [welcome |-> FALSE, active |-> {}, known |-> {}, shown |-> [r \in Readers |-> {}]]

NoClick == [to |-> None, kinds |-> {}]

Init ==
  /\ subscribers \in [Keys -> {{}, Kinds}]
  /\ requests = [a \in Addresses |-> <<>>]
  /\ click = [p \in Clicks |-> NoClick]
  /\ page = [linked |-> TRUE, public |-> TRUE, open |-> TRUE, active |-> Members,
             known |-> Events, shown |-> [r \in Readers |-> Events]]
  /\ rows = [k \in Keys |-> [i \in Ids |-> NoRow]]
  /\ next = [k \in Keys |-> 1]
  /\ round = IdleRound
  /\ job = [k \in Keys |-> NoJob]
  /\ since = NoRound
  /\ mail = [k \in Keys |-> [last |-> 0, unsure |-> FALSE]]
  /\ asked = {} /\ ended = {} /\ born = [k \in Keys |-> 1]
  /\ used = 0

Subscribed(k) == subscribers[k] # {}

\* visitors_welcome: the page is public and open to visitors' subscriptions
VisitorsWelcome == page.public /\ page.open

Spend == used < MaxInputs /\ used' = used + 1

-----------------------------------------------------------------------------
(* How visitors subscribe, and how anyone leaves *)

\* UNDER_LIMITS: the requests of the last hour, of the address and in all
LastHour(a) == Cardinality({i \in DOMAIN requests[a] : requests[a][i].age = "hour"})

UnderLimits(a) ==
  /\ LastHour(a) < REQUESTS_PER_ADDRESS
  /\ \A b \in Addresses \ {a} : LastHour(a) + LastHour(b) < REQUESTS_PER_INSTANCE

\* ask, and the task it leaves behind: request stores what the visitor ticked,
\* and the link leaves for the address.  Past the limits nothing is stored.
Ask(a, kinds) ==
  /\ page.linked /\ VisitorsWelcome
  /\ kinds # {}
  /\ UnderLimits(a)
  /\ Spend
  /\ requests' = [requests EXCEPT ![a] = Append(@, [kinds |-> kinds, age |-> "hour"])]
  /\ asked' = asked \cup {a}
  /\ UNCHANGED <<subscribers, click, page, queue, task, since, mail, ended, born>>

\* find_live: a link confirms its request for a day, until a newer one
FindLive(a) == requests[a] # <<>> /\ requests[a][Len(requests[a])].age # "stale"

\* confirm reads the request of the link and checks its secret, which takes
\* its time.  The links of replaced requests find nothing.
ConfirmStart(p, a) ==
  /\ click[p] = NoClick
  /\ VisitorsWelcome
  /\ FindLive(a)
  /\ click' = [click EXCEPT ![p] = [to |-> a, kinds |-> requests[a][Len(requests[a])].kinds]]
  /\ UNCHANGED <<subscribers, requests, page, queue, task, history, used>>

\* Whether a click uses up any request: of two at once only the first does.
UsesUpAnyway(a) == TRUE
UsesUp(a) == requests[a] # <<>>

Born(k) == IF Subscribed(k) THEN born ELSE [born EXCEPT ![k] = next[k]]

\* confirm_visitor, one transaction: a new row, or new choices for the one there
ConfirmFinish(p) ==
  LET a == click[p].to
  IN  /\ click[p] # NoClick
      /\ click' = [click EXCEPT ![p] = NoClick]
      /\ IF UsesUp(a)
         THEN /\ requests' = [requests EXCEPT ![a] = <<>>]
              /\ subscribers' = [subscribers EXCEPT ![a] = click[p].kinds]
              /\ asked' = asked \ {a}
              /\ born' = Born(a)
         ELSE UNCHANGED <<requests, subscribers, asked, born>>
      /\ UNCHANGED <<page, queue, task, since, mail, ended, used>>

\* save_member: an insert, or an update of the member's row
SaveMember(u, kinds) ==
  /\ page.linked /\ u \in page.active
  /\ kinds # {} /\ subscribers[u] # kinds
  /\ subscribers' = [subscribers EXCEPT ![u] = kinds]
  /\ born' = Born(u)
  /\ UNCHANGED <<requests, click, page, queue, task, since, mail, asked, ended>>

\* delete: the row, and the emails it still had to receive (ON DELETE CASCADE)

Delete(k) ==
  /\ Subscribed(k)
  /\ subscribers' = [subscribers EXCEPT ![k] = {}]
  /\ rows' = [rows EXCEPT ![k] = [i \in Ids |-> NoRow]]
  /\ ended' = IF round.pc = "idle" THEN ended ELSE ended \cup {k}
  /\ UNCHANGED <<requests, click, page, next, task, since, mail, asked, born>>

\* unsubscribe, by the link every email carries: an email reached them
Unsubscribe(k) == mail[k].last > 0 /\ Delete(k)

StopMember(u) == page.linked /\ u \in page.active /\ Delete(u)

\* remove, from the administrators' list
Remove(k) == Delete(k)

\* The hour, then the day of a request pass, the oldest first.
Grow(a, i) ==
  /\ i \in DOMAIN requests[a] /\ requests[a][i].age # "stale"
  /\ \A j \in 1..(i - 1) : requests[a][j].age # requests[a][i].age
  /\ requests' = [requests EXCEPT ![a][i].age = IF @ = "hour" THEN "day" ELSE "stale"]
  /\ UNCHANGED <<subscribers, click, page, queue, task, history, used>>

-----------------------------------------------------------------------------
(* What the team changes *)

\* The history variables follow what the page allows while a round is under way.
Follow(now, p) ==
  [welcome |-> now.welcome \/ (p.public /\ p.open), active |-> now.active \cup p.active,
   known |-> now.known \cup p.known,
   shown |-> [r \in Readers |-> now.shown[r] \cup p.shown[r]]]

Set(p) ==
  /\ page' = p /\ page' # page
  /\ since' = IF round.pc = "idle" THEN since ELSE Follow(since, p)

\* set_visitors
SetVisitors(open) ==
  /\ Set([page EXCEPT !.open = open])
  /\ UNCHANGED <<people, queue, task, mail, asked, ended, born>>

\* The page made public or not, a page address set or cleared, an account
\* disabled or enabled, an event shown to or hidden from a reader by its
\* services: parts of the system modelled elsewhere.
SetPublic(public) ==
  /\ Set([page EXCEPT !.public = public])
  /\ UNCHANGED <<people, queue, task, mail, asked, ended, born>>

SetLinked(linked) ==
  /\ Set([page EXCEPT !.linked = linked])
  /\ UNCHANGED <<people, queue, task, mail, asked, ended, born>>

SetActive(active) ==
  /\ Set([page EXCEPT !.active = active])
  /\ UNCHANGED <<people, queue, task, mail, asked, ended, born>>

SetShown(r, shown) ==
  /\ Set([page EXCEPT !.shown[r] = shown])
  /\ UNCHANGED <<people, queue, task, mail, asked, ended, born>>

\* An event is deleted, its emails with it.
DeleteEvent(e) ==
  /\ e \in page.known
  /\ Set([page EXCEPT !.known = @ \ {e}])
  /\ rows' = [k \in Keys |-> [i \in Ids |-> IF rows[k][i].event = e THEN NoRow ELSE rows[k][i]]]
  /\ UNCHANGED <<people, next, task, mail, asked, ended, born>>

Change ==
  /\ Spend
  /\ \/ \E on \in BOOLEAN : SetVisitors(on) \/ SetPublic(on) \/ SetLinked(on)
     \/ \E active \in SUBSET Members : SetActive(active)
     \/ \E r \in Readers, shown \in Scopes : SetShown(r, shown)
     \/ \E e \in Events : DeleteEvent(e)
     \/ \E k \in Keys : Unsubscribe(k) \/ Remove(k)
     \/ \E u \in Members : StopMember(u)
     \/ \E u \in Members, kinds \in SUBSET Kinds : SaveMember(u, kinds)

-----------------------------------------------------------------------------
(* The queue *)

\* A visitor whose address is the account of an active member who receives
\* the same kind is left out: that person gets one email.
IsMemberToo(a, kind) ==
  \E u \in page.active : AccountAddress[u] = a /\ kind \in subscribers[u]

Receives(k, kind) ==
  /\ kind \in subscribers[k]
  /\ IF k \in Members THEN k \in page.active ELSE page.open /\ ~IsMemberToo(k, kind)

Queued == Cardinality({x \in Keys \X Ids : x[2] < next[x[1]]})

\* enqueue: one insert for everyone who receives the news.  Sent at once, or
\* later: a round under way finds it due only within its own second.
Enqueue(e, due) ==
  LET to == {k \in Keys : Receives(k, KindOf[e])}
      row == [NoRow EXCEPT !.event = e, !.status = "pending", !.due = due]
  IN  /\ e \in page.known
      /\ to # {} /\ \A k \in to : next[k] \in Ids
      /\ Queued + Cardinality(to) <= MaxQueued
      /\ rows' = [k \in Keys |-> IF k \in to THEN [rows[k] EXCEPT ![next[k]] = row] ELSE rows[k]]
      /\ next' = [k \in Keys |-> IF k \in to THEN next[k] + 1 ELSE next[k]]
      /\ UNCHANGED <<people, page, task, history, used>>

Pending(k) == {i \in Ids : rows[k][i].status = "pending"}
AnyWaiting == \E k \in Keys : Pending(k) # {}

First(ids) == CHOOSE i \in ids : \A j \in ids : i <= j
Last(ids)  == CHOOSE i \in ids : \A j \in ids : j <= i

\* due: the first waiting email of k, once its time has come, or 0
DueReady(k) ==
  LET ready == {i \in Pending(k) : rows[k][i].due} IN IF ready = {} THEN 0 ELSE First(ready)

Due(k) ==
  IF Pending(k) = {} \/ ~rows[k][First(Pending(k))].due THEN 0 ELSE First(Pending(k))

\* The time of the first waiting email comes.
Ripen(k) ==
  /\ round.pc = "idle"
  /\ Pending(k) # {} /\ ~rows[k][First(Pending(k))].due
  /\ rows' = [rows EXCEPT ![k][First(Pending(k))].due = TRUE]
  /\ UNCHANGED <<people, page, next, task, history, used>>

\* It has waited for KEEP_WAITING, the oldest first.
GrowLate(k) ==
  LET young == {i \in Pending(k) : ~rows[k][i].late}
  IN  /\ round.pc = "idle" /\ young # {}
      /\ rows' = [rows EXCEPT ![k][First(young)].late = TRUE]
      /\ UNCHANGED <<people, page, next, task, history, used>>

\* What a finished email keeps besides its outcome, only its event tells apart.
Finished(row, status) == [NoRow EXCEPT !.event = row.event, !.status = status]

\* mark_sent has no condition on the status; the others have.
MarkSent(row) ==
  IF row.status = None THEN row ELSE Finished(row, "sent")
RetryLater(row) ==
  IF row.status # "pending" THEN row ELSE [row EXCEPT !.attempts = @ + 1, !.due = FALSE]
Close(row, status) ==
  IF row.status # "pending" THEN row
  ELSE Finished(row, status)

\* give_up_waiting and skip_visitors, each one statement
GiveUpNothingLate(lateOnly) ==
  [k \in Keys |-> [i \in Ids |-> IF lateOnly THEN rows[k][i] ELSE Close(rows[k][i], "failed")]]
GiveUpWaiting(lateOnly) ==
  [k \in Keys |-> [i \in Ids |-> IF lateOnly /\ ~rows[k][i].late THEN rows[k][i]
                                 ELSE Close(rows[k][i], "failed")]]
SkipVisitors ==
  [k \in Keys |-> IF k \in Members THEN rows[k]
                  ELSE [i \in Ids |-> Close(rows[k][i], "skipped")]]

\* LATEST_OUTCOMES: what the list of subscribers shows
LatestOutcome(k) ==
  LET done == {i \in Ids : rows[k][i].status \in {"sent", "failed"}}
  IN  IF done = {} THEN {} ELSE {Last(done)}

\* The requests past their day are the oldest ones.
Fresh(reqs) ==
  SubSeq(reqs, Cardinality({i \in DOMAIN reqs : reqs[i].age = "stale"}) + 1, Len(reqs))

\* purge, between two rounds: the finished emails queued before some instant,
\* and the requests past their day
Purge(n) ==
  LET gone(k) == {i \in 1..n : rows[k][i].status \notin {None, "pending"}} \ LatestOutcome(k)
  IN  /\ round.pc = "idle"
      /\ rows' = [k \in Keys |-> [i \in Ids |-> IF i \in gone(k) THEN NoRow ELSE rows[k][i]]]
      /\ requests' = [a \in Addresses |-> Fresh(requests[a])]
      /\ <<rows', requests'>> # <<rows, requests>>
      /\ UNCHANGED <<subscribers, click, page, next, task, history, used>>

-----------------------------------------------------------------------------
(* deliver_to_subscribers *)

Turn(pc) == round' = [round EXCEPT !.pc = pc]

\* any_waiting, then ready: a mail server and a page address, and what the
\* visitors may see, if they are welcome.  Without them all is given up.
Ready(readers) ==
  [readers EXCEPT !["visitor"] = IF VisitorsWelcome THEN Sees(page.shown["visitor"]) ELSE Nobody]

StartRound ==
  /\ round.pc = "idle" /\ AnyWaiting
  /\ IF page.linked
     THEN /\ round' = [round EXCEPT !.pc = "expire", !.readers = Ready(@)]
          /\ since' = Follow(NoRound, page)
          /\ UNCHANGED rows
     ELSE rows' = GiveUpWaiting(FALSE) /\ UNCHANGED <<round, since>>
  /\ UNCHANGED <<people, page, next, job, mail, asked, ended, born, used>>

\* What waited too long would mislead; visitors who may not receive are skipped.
Expire ==
  /\ round.pc = "expire"
  /\ rows' = GiveUpWaiting(TRUE)
  /\ Turn(IF round.readers["visitor"] = Nobody THEN "close" ELSE "due")
  /\ UNCHANGED <<people, page, next, job, history, used>>

CloseVisitors ==
  /\ round.pc = "close"
  /\ rows' = SkipVisitors
  /\ Turn("due")
  /\ UNCHANGED <<people, page, next, job, history, used>>

\* spawn_subscriber_mail: each round looks its readers up anew.
RoundEndKeepingReaders == [IdleRound EXCEPT !.readers = round.readers]
RoundEnd == IdleRound

\* send_due: the next heads.  The same ones again mean none was dealt with.
ReadDue ==
  LET heads == [k \in Keys |-> Due(k)]
      stop  == \/ round.sent >= SENDS_PER_ROUND \/ round.serverDown
               \/ heads = round.previous \/ \A k \in Keys : heads[k] = 0
  IN  /\ round.pc = "due"
      /\ IF stop THEN round' = RoundEnd /\ since' = NoRound /\ ended' = {} /\ UNCHANGED job
         ELSE /\ round' = [round EXCEPT !.pc = "batch", !.previous = heads]
              /\ job' = [k \in Keys |->
                           IF heads[k] = 0 THEN NoJob
                           ELSE [NoJob EXCEPT !.step = "head", !.head = heads[k],
                                              !.row = rows[k][heads[k]]]]
              /\ ended' = {} /\ UNCHANGED since
      /\ UNCHANGED <<people, page, queue, mail, asked, born, used>>

\* member: an active account and what it sees, once a round
Member(u) == IF u \in page.active THEN Sees(page.shown[u]) ELSE Nobody

\* notice: written once for all who see the same of the event
Notice(e, scope) == <<e, scope>> \in round.notices \/ (e \in page.known /\ e \in scope)

\* prepare, one head: write the email, or skip it: its reader is not one any
\* more, or the event is not theirs to see.  The reader, then the event, are
\* read in steps of their own.
LookUp(k) ==
  /\ round.pc = "batch" /\ job[k].step = "head"
  /\ \A j \in Keys : job[j].step # "write"
  /\ job' = [job EXCEPT ![k].step = "write"]
  /\ round' = IF round.readers[Reader(k)] # Unread THEN round
              ELSE [round EXCEPT !.readers[k] = Member(k)]
  /\ UNCHANGED <<people, page, queue, history, used>>

Write(k) ==
  LET reader == round.readers[Reader(k)]
      e == job[k].row.event
  IN  /\ round.pc = "batch" /\ job[k].step = "write"
      /\ IF reader # Nobody /\ Notice(e, reader.scope)
         THEN /\ job' = [job EXCEPT ![k].step = "ready"]
              /\ round' = [round EXCEPT !.notices = @ \cup {<<e, reader.scope>>}]
              /\ UNCHANGED rows
         ELSE /\ rows' = [rows EXCEPT ![k][job[k].head] = Close(@, "skipped")]
              /\ job' = [job EXCEPT ![k] = NoJob]
              /\ UNCHANGED round
      /\ UNCHANGED <<people, page, next, history, used>>

AllWritten == \A k \in Keys : job[k].step \notin {"head", "write"}

\* send_to_subscriber: an answer that comes too late is a failure of the whole
\* server, although the email was taken; a refusal, or a busy server, is not.
Result == {"ok", "late", "unreachable", "busy", "refused"}
Taken(result) == result \in {"ok", "late"}
ServerWide(result) == result \in {"late", "unreachable"}

Send(k, result) ==
  LET i == job[k].head
  IN  /\ round.pc = "batch" /\ job[k].step = "ready" /\ AllWritten
      /\ job' = [job EXCEPT ![k].step = "settle", ![k].result = result]
      /\ round' = [round EXCEPT !.serverDown = @ \/ ServerWide(result)]
      /\ mail' = IF ~Taken(result) THEN mail
                 ELSE [mail EXCEPT ![k] = [last |-> i, unsure |-> FALSE]]
      /\ UNCHANGED <<people, page, queue, since, asked, ended, born, used>>

\* Once the server failed, the emails not yet on their way stay waiting.
Withhold(k) ==
  /\ round.pc = "batch" /\ job[k].step = "ready" /\ AllWritten /\ round.serverDown
  /\ job' = [job EXCEPT ![k] = NoJob]
  /\ UNCHANGED <<people, page, queue, round, history, used>>

\* retry_at: refused is for good, busy is tried again
MayRetry(k) == job[k].result = "busy" /\ job[k].row.attempts < RETRIES

\* settle: a failure of the whole server is noted and counts for no attempt.
Settled(k, row) ==
  CASE job[k].result = "ok" -> MarkSent(row)
    [] ServerWide(job[k].result) -> row
    [] MayRetry(k) -> RetryLater(row)
    [] OTHER -> Close(row, "failed")

\* The emails that left and whose outcome no row will say.
Doubt(ks) ==
  [k \in Keys |->
     IF k \in ks /\ job[k].step = "settle" /\ Taken(job[k].result)
     THEN [mail[k] EXCEPT !.unsure = TRUE] ELSE mail[k]]

Settle(k) ==
  /\ round.pc = "batch" /\ job[k].step = "settle"
  /\ rows' = [rows EXCEPT ![k][job[k].head] = Settled(k, @)]
  /\ job' = [job EXCEPT ![k] = NoJob]
  /\ round' = IF job[k].result # "ok" THEN round ELSE [round EXCEPT !.sent = @ + 1]
  /\ mail' = IF job[k].result = "late" THEN Doubt({k}) ELSE mail
  /\ UNCHANGED <<people, page, next, since, asked, ended, born, used>>

BatchDone ==
  /\ round.pc = "batch" /\ \A k \in Keys : job[k].step = "none"
  /\ Turn("due")
  /\ UNCHANGED <<people, page, queue, job, history, used>>

\* A send that panics only leaves a warning.
Panic(k) ==
  /\ Spend
  /\ job[k].step = "settle"
  /\ mail' = Doubt({k})
  /\ job' = [job EXCEPT ![k] = NoJob]
  /\ UNCHANGED <<people, page, queue, round, since, asked, ended, born>>

\* The database fails, or the server stops: the round ends where it is, and
\* the sends under way with it.  A server that stops ends the clicks too.
Fail ==
  /\ Spend
  /\ round.pc # "idle"
  /\ mail' = Doubt(Keys)
  /\ round' = IdleRound /\ since' = NoRound /\ ended' = {}
  /\ job' = [k \in Keys |-> NoJob]
  /\ click' \in {click, [p \in Clicks |-> NoClick]}
  /\ UNCHANGED <<subscribers, requests, page, queue, asked, born>>

-----------------------------------------------------------------------------
Deliver ==
  \/ StartRound \/ Expire \/ CloseVisitors \/ ReadDue \/ BatchDone
  \/ \E k \in Keys : LookUp(k) \/ Write(k) \/ Withhold(k) \/ Settle(k)
  \/ \E k \in Keys, result \in Result : Send(k, result)

Subscribe ==
  \/ \E a \in Addresses, kinds \in SUBSET Kinds : Ask(a, kinds)
  \/ \E p \in Clicks, a \in Addresses : ConfirmStart(p, a)
  \/ \E p \in Clicks : ConfirmFinish(p)
  \/ \E a \in Addresses, i \in 1..MaxInputs : Grow(a, i)

Next ==
  \/ Deliver \/ Subscribe \/ Change
  \/ \E e \in Events, due \in BOOLEAN : Enqueue(e, due)
  \/ \E k \in Keys : Ripen(k) \/ GrowLate(k) \/ Panic(k)
  \/ \E n \in Ids : Purge(n)
  \/ Fail

Spec == Init /\ [][Next]_vars

\* The task runs as long as the server does, and time passes whatever it is
\* doing (strong, since emails age between rounds only).  Nothing is asked of
\* the people, of the team or of the mail server.
Fairness ==
  /\ WF_vars(Deliver)
  /\ \A k \in Keys : SF_vars(GrowLate(k))

FairSpec == Spec /\ Fairness

-----------------------------------------------------------------------------
(* Properties *)

Job == [step : {"none", "head", "write", "ready", "settle"}, head : Ids \cup {0},
        row : Row, result : Result]

TypeOK ==
  /\ subscribers \in [Keys -> SUBSET Kinds]
  /\ \A a \in Addresses : Len(requests[a]) <= MaxInputs
                          /\ \A i \in DOMAIN requests[a] : requests[a][i] \in Request
  /\ page \in Page
  /\ rows \in [Keys -> [Ids -> Row]] /\ next \in [Keys -> 1..(MaxEmails + 1)]
  /\ round.readers \in [Readers -> Looked] /\ round.sent \in 0..(SENDS_PER_ROUND + Cardinality(Keys))
  /\ round.pc \in {"idle", "expire", "close", "due", "batch"}
  /\ job \in [Keys -> Job]

\* "Each email is written ... for what its reader may see then" (subscribers.rs):
\* an email that leaves goes to a reader who was one at some moment of the round
\* that sends it (an active member, or a visitor while visitors were welcome) and
\* tells of an event that existed and that they could see at some moment of it.
OnlyToThoseWhoMay ==
  \A k \in Keys : job[k].step \in {"ready", "settle"} =>
    /\ IF k \in Members THEN k \in since.active ELSE since.welcome
    /\ job[k].row.event \in since.known /\ job[k].row.event \in since.shown[Reader(k)]

\* "Ends a subscription, and with it the emails it still had to receive": what
\* leaves goes to a subscription that was there when the batch was read.  Someone
\* who left and came back receives nothing queued for their former subscription.
NothingForTheOneWhoLeft ==
  \A k \in Keys : job[k].step \in {"ready", "settle"} /\ k \notin ended =>
    Subscribed(k) /\ job[k].head >= born[k]

\* "each subscriber receives the news in order": through retries, failures of
\* the mail server, restarts and departures, what reaches a subscriber is what
\* the abstract inbox allows: nothing overtakes older news, and an email comes
\* twice only when its outcome was lost (an answer too late, a failed statement).
Box == INSTANCE Inbox WITH
  Boxes <- Keys,
  waiting <- [k \in Keys |-> Pending(k)],
  last <- [k \in Keys |-> mail[k].last],
  unsure <- {k \in Keys : mail[k].unsure}

ReceivesLikeAnInbox == Box!Spec

\* "Only the newest request of an address confirms it, for a day, once": what an
\* address receives changes only by a request made since it last confirmed one,
\* so a second click on a link brings back no one who has left meanwhile.
NeverBackUnasked ==
  [][\A a \in Addresses :
       subscribers'[a] \notin {{}, subscribers[a]} => a \in asked]_vars

\* Every email is sent, given up or left out in the end, however the mail server
\* answers: news still waiting after KEEP_WAITING is given up.
EveryEmailSettles ==
  \A k \in Keys, i \in Ids : rows[k][i].status = "pending" ~> rows[k][i].status # "pending"

\* An email leaves only for a subscription that is there and a reader who may
\* know of its event.
SentOnlyAsSubscribed == OnlyToThoseWhoMay /\ NothingForTheOneWhoLeft
=============================================================================
