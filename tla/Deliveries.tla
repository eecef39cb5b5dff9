----------------------------- MODULE Deliveries -----------------------------
(***************************************************************************)
(* The alert channels: what happens on the page is queued for each of them *)
(* and one task of the server sends the queues in rounds, the first        *)
(* waiting message of each channel at a time.                              *)
(*                                                                         *)
(* Messages are queued by requests, by the monitoring round and by reports *)
(* while a sending round is under way.  The round reads the heads of the   *)
(* queues, writes the messages, posts them all together and then records   *)
(* each outcome in statements of its own, so an error or a restart may     *)
(* come between a message leaving and the row that says so.  Tools that    *)
(* answer too late have taken a message that is tried again.               *)
(*                                                                         *)
(* Rows are numbered by channel: ids are only compared within one.         *)
(***************************************************************************)
EXTENDS StatusRules, Integers, Sequences, FiniteSets

CONSTANTS
  Channels,      \* notification_channels that may exist
  Watched,       \* the services checked or reported on
  Events,
  RETRY_DELAYS,  \* the wait before each new attempt
  ASKED_WAIT,    \* the wait a tool asks for, LONGEST_ASKED_WAIT at most
  WAVE_WAIT,     \* how long messages found together wait
  KEEP_HISTORY,  \* how long finished messages are kept
  MaxRows,       \* bound on the messages of a channel
  MaxInstant,    \* bound on the instants, seconds as the rows store them
  MaxCommands,   \* bound on what administrators do
  SameSecond,    \* a service may change twice within a second
  MaxErrors      \* bound on database errors, panics and restarts

ASSUME DeliveriesAssumption ==
  /\ RETRY_DELAYS \in Seq(Nat) /\ ASKED_WAIT \in Nat /\ WAVE_WAIT \in Nat
  /\ KEEP_HISTORY \in Nat
  /\ MaxRows \in Nat /\ MaxInstant \in Nat \ {0} /\ MaxCommands \in Nat
  /\ SameSecond \in BOOLEAN /\ MaxErrors \in Nat
  /\ Watched \cap Events = {} /\ None \notin Watched \cup Events

VARIABLES
  instant,
  live,       \* the channels there are
  fresh,      \* the ones not created yet
  receives,   \* what each channel receives: on_incidents..., on_detected
  known,      \* the services and events not deleted
  down,       \* the services in an outage
  changed,    \* history: when each service last changed
  rows,       \* notification_deliveries, by channel and id
  next,       \* the id of the next row of each channel
  announce,   \* the announcement under way: its instant and what it has left
  sending,    \* where deliver_due is
  job,        \* what it is doing for each channel
  heard,      \* what each channel was last told of each service
  copies,     \* how many times each message reached its channel, up to 2
  doubtful,   \* history: messages that left without a recorded outcome
  commands,
  failures

queues    == <<rows, next, announce>>
task      == <<sending, job>>
outside   == <<heard, copies, doubtful>>
world     == <<known, down, changed>>
queueVars == <<instant, live, fresh, receives, world, queues, task, outside,
               commands, failures>>

Ids       == 1..MaxRows
Instants  == 1..MaxInstant
Audience  == {"events", "detected"}
Happening == {"service_down", "service_up", "news"}
Status    == {None, "pending", "sent", "failed"}

\* A row; status None stands for no row.  `at` is created_at and `due`
\* next_attempt_at.
Row == [what : Happening, about : Watched \cup Events \cup {None}, at : Instants,
        due : Instants, status : Status, attempts : 0..(Len(RETRY_DELAYS) + 1)]

NoRow == [what |-> "news", about |-> None, at |-> 1, due |-> 1,
          status |-> None, attempts |-> 0]

\* The head of a queue as it was read, the rows that leave with it, and how
\* the send went.
Job == [step : {"none", "head", "ready", "settle"}, head : Ids \cup {0},
        row : Row, ids : SUBSET Ids,
        result : {"ok", "temporary", "slow_down", "permanent", "gone"}, taken : BOOLEAN]

NoJob == [step |-> "none", head |-> 0, row |-> NoRow, ids |-> {},
          result |-> "ok", taken |-> FALSE]

IdleSending == [pc |-> "idle", now |-> 1, previous |-> [c \in Channels |-> 0]]

NoAnnounce == [now |-> 1, due |-> 1, left |-> {}]

QueueInit ==
  /\ instant = 1
  /\ live \in SUBSET Channels /\ fresh = Channels \ live
  /\ receives = [c \in Channels |-> Audience]
  /\ known = Watched \cup Events /\ down = {}
  /\ changed = [s \in Watched |-> 0]
  /\ rows = [c \in Channels |-> [i \in Ids |-> NoRow]]
  /\ next = [c \in Channels |-> 1]
  /\ announce = NoAnnounce
  /\ sending = IdleSending
  /\ job = [c \in Channels |-> NoJob]
  /\ heard = [c \in Channels |-> [s \in Watched |-> None]]
  /\ copies = [c \in Channels |-> [i \in Ids |-> 0]]
  /\ doubtful = [c \in Channels |-> {}]
  /\ commands = 0 /\ failures = 0

----------------------------------------------------------------------------
(* The queue of a channel *)

EarlierOf(a, b) == IF a < b THEN a ELSE b

\* An instant so far ahead, within the bound on the instants.
Later(now, wait) == EarlierOf(now + wait, MaxInstant)

Pending(c) == {i \in Ids : rows[c][i].status = "pending"}

First(ids) == CHOOSE i \in ids : \A j \in ids : i <= j
Last(ids)  == CHOOSE i \in ids : \A j \in ids : j <= i

\* due: the first waiting message of c, once its time has come, or 0
DueOfThoseReady(c, now) ==
  LET ready == {i \in Pending(c) : rows[c][i].due <= now}
  IN  IF ready = {} THEN 0 ELSE First(ready)

DueHead(c, now) ==
  IF Pending(c) = {} \/ rows[c][First(Pending(c))].due > now THEN 0
  ELSE First(Pending(c))

\* wave_of: the service messages of the same instant that say the same
WaveOf(c, head, row) ==
  IF row.about \notin Watched THEN {}
  ELSE {i \in Pending(c) : /\ i > head /\ rows[c][i].about \in Watched
                           /\ rows[c][i].what = row.what
                           /\ rows[c][i].at = row.at}

\* enqueue_after: whether c receives a message.  A service coming back is told
\* only where the latest message about it is its outage.
About(c, x) == {i \in Ids : rows[c][i].status # None /\ rows[c][i].about = x}

Receives(c, what, x) ==
  /\ c \in live
  /\ (IF x \in Events THEN "events" ELSE "detected") \in receives[c]
  /\ what = "service_up" =>
       About(c, x) # {} /\ rows[c][Last(About(c, x))].what = "service_down"

HasRoom == \A c \in Channels : next[c] \in Ids

\* One insert for every channel that receives the message, unless what it is
\* about was deleted: the foreign key then refuses it.
Enqueue(what, x, at, due) ==
  LET to == {c \in Channels : x \in known /\ Receives(c, what, x)}
      row == [NoRow EXCEPT !.what = what, !.about = x, !.at = at, !.due = due,
                           !.status = "pending"]
  IN  /\ HasRoom
      /\ rows' = [c \in Channels |-> IF c \in to THEN [rows[c] EXCEPT ![next[c]] = row]
                                     ELSE rows[c]]
      /\ next' = [c \in Channels |-> IF c \in to THEN next[c] + 1 ELSE next[c]]

Fails == failures < MaxErrors /\ failures' = failures + 1

----------------------------------------------------------------------------
(* What happens on the page *)

\* notify: a message about an event, or a failure that is only logged
Notify(e) ==
  /\ e \in known
  /\ Enqueue("news", e, instant, instant)
  /\ UNCHANGED <<instant, live, fresh, receives, world, announce, task, outside,
                 commands, failures>>

\* The monitoring round, or a report, found the services of `found` changed
\* and begins to announce them; several wait a little, to leave together.
\* Announcements follow one another.
BeginAnnounce(found) ==
  /\ announce.left = {} /\ found # {} /\ found \subseteq known
  /\ SameSecond \/ \A s \in found : changed[s] < instant
  /\ changed' = [s \in Watched |-> IF s \in found THEN instant ELSE changed[s]]
  /\ down' = (down \ found) \cup (found \ down)
  /\ announce' = [now |-> instant, left |-> found,
                  due |-> IF Cardinality(found) > 1 THEN Later(instant, WAVE_WAIT)
                          ELSE instant]
  /\ UNCHANGED <<instant, live, fresh, receives, known, rows, next, task,
                 outside, commands, failures>>

\* announce, one change at a time
AnnounceOne(s) ==
  /\ s \in announce.left
  /\ Enqueue(IF s \in down THEN "service_down" ELSE "service_up", s,
             announce.now, announce.due)
  /\ announce' = [announce EXCEPT !.left = @ \ {s}]
  /\ UNCHANGED <<instant, live, fresh, receives, world, task, outside, commands,
                 failures>>

\* A message that could not be queued is logged, and the others go on.
AnnounceLost(s) ==
  /\ s \in announce.left
  /\ Fails
  /\ announce' = [announce EXCEPT !.left = @ \ {s}]
  /\ UNCHANGED <<instant, live, fresh, receives, world, rows, next, task,
                 outside, commands>>

Without(c, x) == [i \in Ids |-> IF rows[c][i].about = x THEN NoRow ELSE rows[c][i]]

\* A service or an event is deleted, its messages with it (ON DELETE CASCADE).
DeleteSubject(x) ==
  /\ x \in known
  /\ known' = known \ {x}
  /\ rows' = [c \in Channels |-> Without(c, x)]
  /\ UNCHANGED <<instant, live, fresh, receives, down, changed, next, announce,
                 task, outside, failures>>

----------------------------------------------------------------------------
(* What administrators do *)

CreateChannel(c) ==
  /\ c \in fresh
  /\ fresh' = fresh \ {c} /\ live' = live \cup {c}
  /\ UNCHANGED <<instant, receives, world, queues, task, outside, failures>>

UpdateChannel(c, audience) ==
  /\ c \in live /\ receives[c] # audience
  /\ receives' = [receives EXCEPT ![c] = audience]
  /\ UNCHANGED <<instant, live, fresh, world, queues, task, outside, failures>>

\* delete_channel, its queue with it
DeleteChannel(c) ==
  /\ c \in live
  /\ live' = live \ {c}
  /\ rows' = [rows EXCEPT ![c] = [i \in Ids |-> NoRow]]
  /\ UNCHANGED <<instant, fresh, receives, world, next, announce, task, outside,
                 failures>>

Administer ==
  /\ commands < MaxCommands /\ commands' = commands + 1
  /\ \/ \E c \in Channels : CreateChannel(c) \/ DeleteChannel(c)
     \/ \E c \in Channels, audience \in SUBSET Audience : UpdateChannel(c, audience)
     \/ \E x \in Watched \cup Events : DeleteSubject(x)

----------------------------------------------------------------------------
(* deliver_due *)

Idle(c) == job[c].step = "none"

StartRound ==
  /\ sending.pc = "idle"
  /\ sending' = [IdleSending EXCEPT !.pc = "due", !.now = instant]
  /\ UNCHANGED <<instant, live, fresh, receives, world, queues, job, outside,
                 commands, failures>>

\* due: the heads.  The same heads again mean none could be dealt with.
ReadDue ==
  LET heads == [c \in Channels |-> DueHead(c, sending.now)]
  IN  /\ sending.pc = "due"
      /\ IF (\A c \in Channels : heads[c] = 0) \/ heads = sending.previous
         THEN sending' = IdleSending /\ UNCHANGED job
         ELSE /\ sending' = [sending EXCEPT !.pc = "batch", !.previous = heads]
              /\ job' = [c \in Channels |->
                           IF heads[c] = 0 THEN NoJob
                           ELSE [NoJob EXCEPT !.step = "head", !.head = heads[c],
                                              !.row = rows[c][heads[c]]]]
      /\ UNCHANGED <<instant, live, fresh, receives, world, queues, outside,
                     commands, failures>>

\* The heads are prepared in turn, and one with nothing to tell fails there.
Preparing(c) == job[c].step = "settle" /\ job[c].result = "gone"

\* load_subject finds nothing left to tell.
SubjectGone(c, ids) ==
  \A i \in ids : (IF i = job[c].head THEN job[c].row ELSE rows[c][i]).about \notin known

\* prepare, for one head: find_channel, wave_of and load_subject.  What an
\* event message tells (a review) may be gone while the event is not.
Prepare(c) ==
  LET ids == {job[c].head} \cup WaveOf(c, job[c].head, job[c].row)
  IN  /\ sending.pc = "batch" /\ job[c].step = "head"
      /\ \A d \in Channels : ~Preparing(d)
      /\ \/ /\ c \notin live
            /\ job' = [job EXCEPT ![c] = NoJob]
         \/ /\ c \in live
            /\ SubjectGone(c, ids) \/ job[c].row.about \in Events
            /\ job' = [job EXCEPT ![c].step = "settle", ![c].ids = ids,
                                  ![c].result = "gone"]
         \/ /\ c \in live /\ ~SubjectGone(c, ids)
            /\ job' = [job EXCEPT ![c].step = "ready", ![c].ids = ids]
      /\ UNCHANGED <<instant, live, fresh, receives, world, queues, sending,
                     outside, commands, failures>>

\* The services a message of these rows names.
Named(c, ids) == {rows[c][i].about : i \in ids} \cap Watched

TwoAtMost(n) == EarlierOf(n, 2)

\* How a send goes; a failure that waiting may fix is temporary.
SendResult == {"ok", "temporary", "slow_down", "permanent"}

\* deliver_batch: the message leaves, once every head is written.  A tool that
\* answers too late has taken a message that counts as failed; one that refuses
\* it has not.
Send(c, result, taken) ==
  LET ids == job[c].ids
  IN  /\ sending.pc = "batch" /\ job[c].step = "ready"
      /\ \A d \in Channels : job[d].step # "head" /\ ~Preparing(d)
      /\ result = "ok" => taken
      /\ result \in {"slow_down", "permanent"} => ~taken
      /\ job' = [job EXCEPT ![c].step = "settle", ![c].result = result,
                            ![c].taken = taken]
      /\ IF taken
         THEN /\ heard' = [heard EXCEPT ![c] = [s \in Watched |->
                             IF s \in Named(c, ids) THEN job[c].row.what ELSE @[s]]]
              /\ copies' = [copies EXCEPT ![c] = [i \in Ids |->
                             IF i \in ids THEN TwoAtMost(@[i] + 1) ELSE @[i]]]
              /\ doubtful' = IF result = "ok" THEN doubtful
                             ELSE [doubtful EXCEPT ![c] = @ \cup ids]
         ELSE UNCHANGED outside
      /\ UNCHANGED <<instant, live, fresh, receives, world, queues, sending,
                     commands, failures>>

\* retry_at: whether an attempt is left, and when
MayRetry(attempts) == attempts < Len(RETRY_DELAYS)

LongerOf(a, b) == IF a < b THEN b ELSE a

RetryAt(attempts, result, now) ==
  Later(now, LongerOf(RETRY_DELAYS[attempts + 1],
                     IF result = "slow_down" THEN ASKED_WAIT ELSE 0))

\* mark_sent, retry_later and fail: the row a settled message leaves.  What is
\* kept to be shown (sent_at, failure, when it was given up) is left out.
SentRow(row) ==
  IF row.status = None THEN row
  ELSE [row EXCEPT !.status = "sent", !.attempts = @ + 1]

UncountedRow(row, at) ==
  IF row.status # "pending" THEN row ELSE [row EXCEPT !.due = at]

RetriedRow(row, at) ==
  IF row.status # "pending" THEN row
  ELSE [row EXCEPT !.attempts = @ + 1, !.due = at]

FailedRow(row) ==
  IF row.status # "pending" THEN row
  ELSE [row EXCEPT !.status = "failed", !.attempts = @ + 1]

GivesUp(c) ==
  \/ job[c].result = "permanent"
  \/ job[c].result \in {"temporary", "slow_down"} /\ ~MayRetry(job[c].row.attempts)

SettledRow(c, row) ==
  CASE job[c].result = "ok"   -> SentRow(row)
    [] job[c].result = "gone" -> FailedRow(row)
    [] OTHER -> RetriedRow(row, RetryAt(job[c].row.attempts, job[c].result, sending.now))

\* settle: one statement for each message of the wave
SettleHead(c) ==
  /\ job[c].step = "settle" /\ ~GivesUp(c)
  /\ rows' = [rows EXCEPT ![c][First(job[c].ids)] = SettledRow(c, @)]
  /\ job' = [job EXCEPT ![c] = NoJob]
  /\ UNCHANGED <<instant, live, fresh, receives, world, next, announce, sending,
                 outside, commands, failures>>

Settle(c) ==
  LET i == First(job[c].ids)
      left == job[c].ids \ {i}
  IN  /\ job[c].step = "settle" /\ ~GivesUp(c)
      /\ rows' = [rows EXCEPT ![c][i] = SettledRow(c, @)]
      /\ job' = [job EXCEPT ![c] = IF left = {} THEN NoJob ELSE [@ EXCEPT !.ids = left]]
      /\ UNCHANGED <<instant, live, fresh, receives, world, next, announce,
                     sending, outside, commands, failures>>

\* settle: fail_waiting, on every waiting message of the channel
GiveUp(c) ==
  /\ job[c].step = "settle" /\ GivesUp(c)
  /\ rows' = [rows EXCEPT ![c] = [i \in Ids |->
                IF @[i].status = "pending" THEN [@[i] EXCEPT !.status = "failed"]
                ELSE @[i]]]
  /\ job' = [job EXCEPT ![c] = NoJob]
  /\ UNCHANGED <<instant, live, fresh, receives, world, next, announce, sending,
                 outside, commands, failures>>

\* Every message settled: back to the heads.
EndBatch ==
  /\ sending.pc = "batch" /\ \A c \in Channels : Idle(c)
  /\ sending' = [sending EXCEPT !.pc = "due"]
  /\ UNCHANGED <<instant, live, fresh, receives, world, queues, job, outside,
                 commands, failures>>

\* A send panics: its message waits for the next round.
Panic(c) ==
  /\ job[c].step = "ready"
  /\ Fails
  /\ job' = [job EXCEPT ![c] = NoJob]
  /\ UNCHANGED <<instant, live, fresh, receives, world, queues, sending,
                 outside, commands>>

\* A statement fails and ends the round, or the server restarts: what was sent
\* and not recorded is sent again.
Abort ==
  /\ sending.pc # "idle"
  /\ Fails
  /\ sending' = IdleSending
  /\ job' = [c \in Channels |-> NoJob]
  /\ doubtful' = [c \in Channels |->
                    IF job[c].taken THEN doubtful[c] \cup job[c].ids ELSE doubtful[c]]
  /\ UNCHANGED <<instant, live, fresh, receives, world, queues, heard, copies,
                 commands>>

\* purge: the finished messages that are old, but for the last of each channel
Purge ==
  LET finished(c) == {i \in Ids : rows[c][i].status \in {"sent", "failed"}}
      old(c) == {i \in finished(c) : /\ rows[c][i].at + KEEP_HISTORY < instant
                                     /\ i # Last(finished(c))}
  IN  /\ sending.pc = "idle" /\ \E c \in Channels : old(c) # {}
      /\ rows' = [c \in Channels |-> [i \in Ids |->
                    IF i \in old(c) THEN NoRow ELSE rows[c][i]]]
      /\ UNCHANGED <<instant, live, fresh, receives, world, next, announce,
                     task, outside, commands, failures>>

DeliverDue ==
  \/ StartRound \/ ReadDue \/ EndBatch
  \/ \E c \in Channels : Prepare(c) \/ Settle(c) \/ GiveUp(c)
  \/ \E c \in Channels, result \in SendResult, taken \in BOOLEAN :
       Send(c, result, taken)

Tick ==
  /\ instant < MaxInstant
  /\ instant' = instant + 1
  /\ UNCHANGED <<live, fresh, receives, world, queues, task, outside, commands,
                 failures>>

QueueNext ==
  \/ \E e \in Events : Notify(e)
  \/ \E found \in SUBSET Watched : BeginAnnounce(found)
  \/ \E s \in Watched : AnnounceOne(s) \/ AnnounceLost(s)
  \/ Administer
  \/ DeliverDue
  \/ \E c \in Channels : Panic(c)
  \/ Abort
  \/ Purge
  \/ Tick

QueueSpec == QueueInit /\ [][QueueNext]_queueVars

\* The task lives as long as the server, and time passes.
QueueFairSpec == QueueSpec /\ WF_queueVars(DeliverDue) /\ WF_queueVars(Tick)

----------------------------------------------------------------------------
(* Properties *)

QueueTypeOK ==
  /\ instant \in Instants /\ commands \in 0..MaxCommands /\ failures \in 0..MaxErrors
  /\ live \subseteq Channels /\ fresh \subseteq Channels
  /\ receives \in [Channels -> SUBSET Audience]
  /\ known \subseteq Watched \cup Events /\ down \subseteq Watched
  /\ changed \in [Watched -> 0..MaxInstant]
  /\ rows \in [Channels -> [Ids -> Row]]
  /\ next \in [Channels -> 1..(MaxRows + 1)]
  /\ announce \in [now : Instants, due : Instants, left : SUBSET Watched]
  /\ sending \in [pc : {"idle", "due", "batch"}, now : Instants,
                previous : [Channels -> Ids \cup {0}]]
  /\ job \in [Channels -> Job]
  /\ heard \in [Channels -> [Watched -> {None, "service_down", "service_up"}]]
  /\ copies \in [Channels -> [Ids -> 0..2]]
  /\ doubtful \in [Channels -> SUBSET Ids]

\* Each channel hears of a service in the order its messages were queued: once
\* none about it waits and the last one was sent, that one is the last it was
\* told, whatever was retried, grouped, given up or sent again before
\* (documentation: "Messages leave within seconds, in order for each channel").
LastWordIsRight ==
  \A c \in live, s \in Watched :
    LET about == About(c, s)
    IN  /\ about # {} /\ \A i \in about : rows[c][i].status # "pending"
        /\ rows[c][Last(about)].status = "sent"
        => heard[c][s] = rows[c][Last(about)].what

\* A message recorded as sent did reach its channel, and reached it once unless
\* an outcome of it was lost: the tool answered too late, or an error or a
\* restart came before its row was written.
SentOnce ==
  \A c \in live, i \in Ids :
    /\ rows[c][i].status = "sent" => copies[c][i] > 0
    /\ copies[c][i] > 1 => i \in doubtful[c]

\* No message waits for ever, behind another or on a channel that fails: it is
\* sent, given up, or deleted with what it is about.
EveryMessageSettles ==
  \A c \in Channels, i \in Ids :
    rows[c][i].status = "pending" ~> rows[c][i].status # "pending"
=============================================================================
