------------------------------ MODULE Messages -------------------------------
(***************************************************************************)
(* What the destinations are told of an event: its messages are queued as  *)
(* it changes and written when they leave, from the event as it stands     *)
(* then, while the team moves it on, undoes, edits, withdraws an update or *)
(* a review, and administrators change the destinations and the address    *)
(* their links lead to.  Waves of services and the pace of the queue are   *)
(* Deliveries'; here a round writes one message, sends it and settles it.  *)
(***************************************************************************)
EXTENDS Notices

CONSTANTS Destinations,  \* ids of destinations
          Forms,         \* what an administrator may fill in
          Answers,       \* what tools and mail servers may answer
          Names,         \* words of titles, descriptions and services
          MailReady,     \* whether a mail server is set
          MaxActs,       \* bound on what the team does
          MaxSettings,   \* bound on what administrators do
          MaxAttempts    \* attempts before a message is given up

Trial == "trial"  \* where the test button sends

(* A URL has a path of segments; a tool answers with a status, or its      *)
(* request failed as one of the findings; a mail server says whether its   *)
(* refusal is permanent.                                                   *)
ASSUME MessagesAssumption ==
  /\ Trial \notin Destinations /\ MailReady \in BOOLEAN /\ Names \subseteq Words
  /\ MaxActs \in Nat /\ MaxSettings \in Nat /\ MaxAttempts \in Nat
  /\ \A f \in Forms : f.target.segments \in Seq(STRING)
  /\ \A answer \in Answers :
       /\ answer.ok \in BOOLEAN /\ answer.status \in Nat
       /\ answer.finding \in Findings \cup {"none", "permanent", "transient"}
       /\ ~answer.ok /\ answer.status = NoStatus => answer.finding \in Findings

VARIABLES event, withdrawn, channel, queue, ready, outcome, truth, page, acts, settings

team == <<event, withdrawn>>
desk == <<channel, page>>
textVars == <<event, withdrawn, channel, queue, ready, outcome, truth, page, acts, settings>>

NoEvent == [kind |-> None]
NoChannel == [tool |-> None]
Removed == [tool |-> "removed"]   \* ids are not used again: AUTOINCREMENT
Exists(c) == channel[c] \notin {NoChannel, Removed}
NoMessage == [tool |-> None]
Never == [status |-> "never", failure |-> Unknown]

TextInit ==
  /\ event = NoEvent /\ withdrawn = {}
  /\ channel = [c \in Destinations |-> NoChannel] /\ queue = [c \in Destinations |-> <<>>]
  /\ ready = [c \in Destinations \cup {Trial} |-> NoMessage]
  /\ outcome = [c \in Destinations |-> Never]
  /\ truth = [c \in Destinations \cup {Trial} |-> Never]
  /\ page = "never" /\ acts = 0 /\ settings = 0

Act == acts < MaxActs /\ acts' = acts + 1 /\ UNCHANGED settings
Setting == settings < MaxSettings /\ settings' = settings + 1 /\ UNCHANGED acts

-----------------------------------------------------------------------------
(* What happens on the page, and the message it queues                     *)

TextRow(happening, lifecycle, update, names) ==
  [happening |-> happening, lifecycle |-> lifecycle, update |-> update, names |-> names,
   attempts |-> 0, code |-> Code(Unknown)]
QueueFor(box, row) ==
  queue' = [c \in Destinations |-> IF Exists(c) /\ box \in channel[c].boxes
                                   THEN Append(queue[c], row) ELSE queue[c]]
Tell(happening, lifecycle, update) ==
  QueueFor(event'.kind, TextRow(happening, lifecycle, update, <<>>))
QueuesHaveRoom == \A c \in Destinations : Len(queue[c]) < 2

OfNew(kind, lifecycle) ==
  CASE kind = "publication" -> "published"
    [] kind = "maintenance" /\ lifecycle = "in_progress" -> "started"
    [] OTHER -> "opened"
OfMove(kind, from, to) ==
  CASE IsTerminal(to) -> "closed"
    [] ~IsTerminal(to) /\ kind = "maintenance" /\ from = "scheduled" -> "started"
    [] OTHER -> "updated"

AddEvent(kind, lifecycle, words) ==
  /\ event = NoEvent
  /\ event' = [kind |-> kind, severity |-> IF kind = "incident" THEN "critical" ELSE None,
               lifecycle |-> lifecycle, previous |-> None, title |-> words,
               description |-> words, service |-> words,
               window |-> IF lifecycle = "scheduled" THEN "first" ELSE None, ended |-> FALSE,
               update |-> NoWords, review |-> NoWords]
  /\ Tell(OfNew(kind, lifecycle), lifecycle, FALSE)
  /\ UNCHANGED <<withdrawn, ready, outcome, truth, channel, page, acts, settings>>

(* An update, a change of state, or both.  One update per event here.      *)
PostUpdate(next, words) ==
  /\ event # NoEvent /\ QueuesHaveRoom /\ Act
  /\ next = None => words # NoWords
  /\ next # None => event.kind # "publication" /\ CanTransition(event.kind, event.lifecycle, next)
  /\ words # NoWords => event.update = NoWords /\ "update" \notin withdrawn
  /\ event' = [event EXCEPT !.update = IF words = NoWords THEN @ ELSE words,
                 !.lifecycle = IF next = None THEN @ ELSE next,
                 !.previous = IF next = None THEN @ ELSE event.lifecycle,
                 !.ended = @ \/ (next # None /\ IsTerminal(next))]
  /\ Tell(IF next = None THEN "updated" ELSE OfMove(event.kind, event.lifecycle, next),
          event'.lifecycle, words # NoWords)
  /\ UNCHANGED <<withdrawn, ready, outcome, truth, channel, page>>

Revert ==
  /\ event # NoEvent /\ event.previous # None /\ QueuesHaveRoom /\ Act
  /\ event' = [event EXCEPT !.lifecycle = event.previous, !.previous = None, !.ended = FALSE]
  /\ Tell("updated", event.previous, FALSE)
  /\ UNCHANGED <<withdrawn, ready, outcome, truth, channel, page>>

Reschedule ==
  /\ event # NoEvent /\ event.lifecycle = "scheduled" /\ QueuesHaveRoom /\ Act
  /\ event' = [event EXCEPT !.window = "moved"]
  /\ event.window # "moved"
  /\ Tell("rescheduled", event.lifecycle, FALSE)
  /\ UNCHANGED <<withdrawn, ready, outcome, truth, channel, page>>

(* A review published on a resolved incident is told.                      *)
TakesReview(e) == e.kind = "incident" /\ e.lifecycle = "resolved"
SaveReview(words) ==
  /\ event # NoEvent /\ TakesReview(event) /\ event.review = NoWords /\ QueuesHaveRoom /\ Act
  /\ event' = [event EXCEPT !.review = words]
  /\ withdrawn' = withdrawn \ {"review"}
  /\ Tell("reviewed", event.lifecycle, FALSE)
  /\ UNCHANGED <<ready, outcome, truth, channel, page>>

(* An update deleted, or a review removed: nothing is sent.                *)
Withdraw(field) ==
  /\ event # NoEvent /\ event[field] # NoWords /\ Act
  /\ field = "review" => TakesReview(event)
  /\ event' = [event EXCEPT ![field] = NoWords]
  /\ withdrawn' = withdrawn \cup {field}
  /\ UNCHANGED <<queue, ready, outcome, truth, channel, page>>

(* The checks find services down, or back, in one wave.                    *)
FindServices(happening, names) ==
  /\ QueuesHaveRoom /\ Act
  /\ QueueFor("detected", TextRow(happening, None, FALSE, names))
  /\ UNCHANGED <<team, ready, outcome, truth, channel, page>>

-----------------------------------------------------------------------------
(* The destinations                                                        *)

(* The first destination keeps the address it was added from, unless one   *)
(* was ever set.  The code reads and then writes it: an address saved in   *)
(* between is overwritten, which no property here is about.                *)
RememberPageAddress == page' = IF page = "never" THEN "used" ELSE page
Create(c, f) ==
  /\ channel[c] = NoChannel /\ Setting /\ Check(f, MailReady)
  /\ channel' = [channel EXCEPT ![c] = ChannelOf(f)]
  /\ RememberPageAddress
  /\ UNCHANGED <<team, queue, ready, outcome, truth>>

SavePageAddress(address) ==
  /\ page # address /\ Setting
  /\ page' = address
  /\ UNCHANGED <<team, queue, ready, outcome, truth, channel>>

Update(c, f) ==
  /\ Exists(c) /\ Setting /\ Check(f, MailReady) /\ channel[c] # ChannelOf(f)
  /\ channel' = [channel EXCEPT ![c] = ChannelOf(f)]
  /\ UNCHANGED <<team, queue, ready, outcome, truth, page>>

Delete(c) ==
  /\ Exists(c) /\ Setting
  /\ channel' = [channel EXCEPT ![c] = Removed]
  /\ queue' = [queue EXCEPT ![c] = <<>>]
  /\ outcome' = [outcome EXCEPT ![c] = Never] /\ truth' = [truth EXCEPT ![c] = Never]
  /\ UNCHANGED <<team, ready, page>>

-----------------------------------------------------------------------------
(* Sending                                                                 *)

PageAddress == IF page \in {"never", ""} THEN None ELSE page

(* The event with the text that goes with the message, or nothing.         *)
Withdrawn(row) ==
  row.happening = "reviewed" /\ (event.review = NoWords \/ ~TakesReview(event))
LoadMessage(row) ==
  IF row.happening = "reviewed" THEN event.review
  ELSE IF row.update THEN event.update ELSE NoWords

StateNow(row) == event.lifecycle
StateThen(row) == IF row.lifecycle = None THEN event.lifecycle ELSE row.lifecycle
Message(ch, notice, facts, row, told) ==
  [tool |-> ch.tool, target |-> ch.target, notice |-> notice, facts |-> facts, row |-> row,
   withdrawn |-> told]
Written(c, row) ==
  IF row.names # <<>>
  THEN Message(channel[c], ServiceNotice(row.happening, row.names, PageAddress),
               NoFacts(row.happening), row, withdrawn)
  ELSE Message(channel[c],
               EventNotice(row.happening, StateThen(row), event, LoadMessage(row), PageAddress),
               Facts(row.happening, StateThen(row), event), row, withdrawn)

(* The first message of a destination is written; one whose review is gone *)
(* fails on its own.                                                       *)
WriteNext(c) ==
  LET row == Head(queue[c])
      gone == Failure("gone", NoStatus)
      verdict == [status |-> "failed", failure |-> gone]
  IN
  /\ Exists(c) /\ queue[c] # <<>> /\ ready[c] = NoMessage
  /\ IF Withdrawn(row)
     THEN /\ queue' = [queue EXCEPT ![c] = Tail(@)]
          /\ outcome' = [outcome EXCEPT ![c] = [verdict EXCEPT !.failure = FromCode(Code(gone))]]
          /\ truth' = [truth EXCEPT ![c] = verdict]
          /\ UNCHANGED ready
     ELSE /\ ready' = [ready EXCEPT ![c] = Written(c, row)]
          /\ UNCHANGED <<queue, outcome, truth>>
  /\ UNCHANGED <<team, desk, acts, settings>>

(* How a send goes: over HTTP, or to each address of a mail.               *)
SendMail(m, answer) ==
  CASE ~MailReady -> Failure("no_mail_server", NoStatus)
    [] MailReady /\ "odd" \in m.target.mails -> Failure("mail_refused", NoStatus)
    [] OTHER -> ClassifySmtp(answer)
SendText(m, answer) ==
  CASE answer.ok /\ m.tool = "email" -> [done |-> MailReady /\ "odd" \notin m.target.mails,
                                         failure |-> SendMail(m, answer)]
    [] ~answer.ok /\ m.tool = "email" -> [done |-> FALSE, failure |-> SendMail(m, answer)]
    [] m.tool # "email" /\ ~CanPost(m.tool, m.target) ->
         [done |-> FALSE, failure |-> Failure("unsupported", NoStatus)]
    [] OTHER -> [done |-> answer.ok, failure |-> PostFailure(answer)]

(* What is recorded of a message and of the ones behind it.                *)
TriesAgain(row, f) == ~IsPermanent(f) /\ row.attempts + 1 < MaxAttempts
Settled(c, result) ==
  LET row == Head(queue[c])
      f == result.failure
  IN
  CASE result.done -> [queue |-> Tail(queue[c]),
                       outcome |-> [status |-> "sent", failure |-> Unknown]]
    [] ~result.done /\ TriesAgain(row, f) ->
         [queue |-> <<[row EXCEPT !.attempts = @ + 1, !.code = Code(f)]>> \o Tail(queue[c]),
          outcome |-> outcome[c]]
    [] OTHER -> [queue |-> <<>>, outcome |-> [status |-> "failed", failure |-> FromCode(Code(f))]]

Answer(c, answer) ==
  LET m == ready[c]
      result == SendText(m, answer)
      after == Settled(c, result)
  IN
  /\ m # NoMessage
  /\ ready' = [ready EXCEPT ![c] = NoMessage]
  /\ IF Exists(c) /\ queue[c] # <<>>
     THEN /\ queue' = [queue EXCEPT ![c] = after.queue]
          /\ outcome' = [outcome EXCEPT ![c] = after.outcome]
          /\ truth' = [truth EXCEPT ![c] =
               [status |-> CASE result.done -> "sent"
                             [] ~result.done /\ TriesAgain(m.row, result.failure) -> "retrying"
                             [] OTHER -> "failed", failure |-> result.failure]]
     ELSE UNCHANGED <<queue, outcome, truth>>
  /\ UNCHANGED <<team, desk, acts, settings>>

(* The test button: a message to what the form says, and nothing saved.    *)
Test(f) ==
  /\ Destination(f, MailReady) /\ ready[Trial] = NoMessage /\ Setting
  /\ ready' = [ready EXCEPT ![Trial] =
       Message(ChannelOf(f), TestNotice, NoFacts("test"), TextRow("test", None, FALSE, <<>>), {})]
  /\ UNCHANGED <<team, desk, queue, outcome, truth>>
TestAnswered(answer) ==
  /\ ready[Trial] # NoMessage
  /\ ready' = [ready EXCEPT ![Trial] = NoMessage]
  /\ truth' = [truth EXCEPT ![Trial] = [Never EXCEPT !.failure = SendText(ready[Trial], answer).failure]]
  /\ UNCHANGED <<team, desk, queue, outcome, acts, settings>>

-----------------------------------------------------------------------------
(* What the list says of a destination: a failure being tried again first. *)
LastSend(c) ==
  IF queue[c] # <<>> /\ Head(queue[c]).attempts > 0
  THEN [status |-> "retrying", failure |-> FromCode(Head(queue[c]).code)]
  ELSE outcome[c]

TextNext ==
  \/ \E words \in Names :
       \/ \E l \in {"investigating", "monitoring"} : AddEvent("incident", l, words)
       \/ \E l \in {"scheduled", "in_progress"} : AddEvent("maintenance", l, words)
       \/ AddEvent("publication", None, words)
  \/ \E next \in Lifecycle \cup {None}, words \in {"@", NoWords} : PostUpdate(next, words)
  \/ SaveReview("plain")
  \/ Revert \/ Reschedule \/ Withdraw("update") \/ Withdraw("review")
  \/ \E c \in Destinations :
       \/ \E f \in Forms : Create(c, f) \/ Update(c, f)
       \/ Delete(c) \/ WriteNext(c)
       \/ \E answer \in Answers : Answer(c, answer)
  \/ \E f \in Forms : Test(f)
  \/ \E answer \in Answers : TestAnswered(answer)
  \/ \E word \in Names : \/ FindServices("service_down", <<word, "plain">>)
                          \/ FindServices("service_up", <<word>>)
  \/ SavePageAddress("")

TextSpec == TextInit /\ [][TextNext]_textVars

-----------------------------------------------------------------------------
(* Properties                                                              *)

Leaving == {ready[c] : c \in DOMAIN ready} \ {NoMessage}

(* A message tells the state its event was in when it was queued, in its   *)
(* words, its hue and its facts alike, wherever the event went before the  *)
(* message left (notice.rs: "the state the event was in then").            *)
ToldAsItHappened(m) ==
  LET was == m.row.lifecycle IN
  was # None =>
    /\ m.facts.state = was
    /\ m.notice.mark = MarkOf(StateTone(m.facts.kind, m.facts.severity, was))
    /\ m.row.happening = "closed" =>
         m.notice.mark \in {"restored", "plain"} /\ m.notice.state[1] = was

(* Words withdrawn before a message was written are not in it, and a       *)
(* review is only sent of an incident that still takes one (deliver.rs:    *)
(* load_event).                                                            *)
WithdrawnIsNotSent(m) ==
  /\ m.row.happening = "reviewed" => "review" \notin m.withdrawn /\ m.notice.text # NoWords
  /\ m.row.update /\ "update" \in m.withdrawn /\ m.row.happening \in {"updated", "closed"} =>
       m.notice.text = NoWords

(* Whatever the tool, its body shows all of the message, and no words of   *)
(* the team fire a mention in it (format.rs).                              *)
BodyTellsAll(tool, n) ==
  LET body == Body(tool, n) IN
  /\ \A t \in {body.headline, body.services, body.text} : ~Fires(tool, t)
  /\ Readable(body.headline) = n.headline
  /\ Readable(body.services) = n.services
  /\ Readable(body.text) \in {n.text, n.headline}
  /\ body.state = n.state /\ body.link = n.link
  /\ body.mark \in {n.mark, None} /\ (body.mark = None => n.mark = "plain")

(* A destination that was accepted can be posted to: no message fails      *)
(* because its address does not fit its tool (destinations.rs, format.rs). *)
AcceptedCanBePosted ==
  \A c \in Destinations \cup {Trial} : truth[c].failure.what # "unsupported"

(* The list of destinations says how the last message went, and words the  *)
(* failure there was (sender.rs: from_code).                               *)
TheListSaysWhy(c) ==
  /\ LastSend(c).status = truth[c].status
  /\ truth[c].status \in {"retrying", "failed"} =>
       FailureText(LastSend(c).failure) = FailureText(truth[c].failure)

(* What leaves is what happened, whole, to an address that takes it, and   *)
(* the list of destinations tells the truth about it.                      *)
MessagesAreTrue ==
  /\ \A m \in Leaving :
       ToldAsItHappened(m) /\ WithdrawnIsNotSent(m) /\ BodyTellsAll(m.tool, m.notice)
  /\ AcceptedCanBePosted
  /\ \A c \in Destinations : TheListSaysWhy(c)
=============================================================================
