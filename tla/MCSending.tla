----------------------------- MODULE MCSending ------------------------------
(***************************************************************************)
(* What the two sending tasks must eventually do: the queue of the         *)
(* channels (Deliveries) and the emails of the subscribers (Subscribers).  *)
(* A behaviour takes the steps of one of them, and fairness is asked of    *)
(* the task of that one alone.                                             *)
(***************************************************************************)
EXTENDS Deliveries, TLC

CONSTANTS LiveEmails, LiveInputs  \* bounds on the emails and on what people do

\* One new attempt, after one instant.
MCRetryDelays == <<1>>

VARIABLES
  part,  \* the module whose steps are taken
  mailSubscribers, mailRequests, mailClick, mailPage, mailRows, mailNext,
  mailRound, mailJob, mailSince, mailMail, mailAsked, mailEnded, mailBorn,
  mailUsed

Mail == INSTANCE Subscribers WITH
  Addresses <- {"a1"}, Members <- {"ann"}, AccountAddress <- [u \in {"ann"}
  |-> "a1"], Events <- {"e1"}, KindOf <- [e \in {"e1"} |-> "incidents"],
  Clicks <- {}, REQUESTS_PER_ADDRESS <- 0, REQUESTS_PER_INSTANCE <- 0,
  RETRIES <- 1, SENDS_PER_ROUND <- 1, MaxEmails <- LiveEmails,
  MaxQueued <- 2, MaxInputs <- LiveInputs, subscribers <- mailSubscribers,
  requests <- mailRequests, click <- mailClick, page <- mailPage,
  rows <- mailRows, next <- mailNext, round <- mailRound, job <- mailJob,
  since <- mailSince, mail <- mailMail, asked <- mailAsked,
  ended <- mailEnded, born <- mailBorn, used <- mailUsed

mailVars == <<mailSubscribers, mailRequests, mailClick, mailPage, mailRows,
  mailNext, mailRound, mailJob, mailSince, mailMail, mailAsked, mailEnded,
  mailBorn, mailUsed>>
allVars == <<part, queueVars, mailVars>>

MCInit ==
  /\ part \in {"queue", "mail"}
  /\ QueueInit /\ Mail!Init
  /\ part # "queue" => live = {}
  /\ part # "mail" => mailSubscribers = [k \in {"a1", "ann"} |-> {}]

MCNext ==
  \/ part = "queue" /\ QueueNext /\ UNCHANGED <<part, mailVars>>
  \/ part = "mail" /\ Mail!Next /\ UNCHANGED <<part, queueVars>>

(* The tasks run as long as the server does and time passes. Nothing is    *)
(* asked of the people or the tools, and the mail server may stay down; an *)
(* email that keeps waiting for it eventually waits too long.              *)
MCFairness ==
  /\ WF_allVars(part = "queue" /\ DeliverDue /\ UNCHANGED <<part, mailVars>>)
  /\ WF_allVars(part = "queue" /\ Tick /\ UNCHANGED <<part, mailVars>>)
  /\ WF_allVars(part = "mail" /\ Mail!Deliver /\ UNCHANGED <<part, queueVars>>)
  /\ \A k \in {"a1", "ann"} : SF_allVars(part = "mail" /\ Mail!GrowLate(k) /\ UNCHANGED <<part, queueVars>>)

MCSpec == MCInit /\ [][MCNext]_allVars /\ MCFairness

-----------------------------------------------------------------------------
(* Properties                                                              *)

(* Every email is sent, given up or left out in the end, however the mail  *)
(* server answers (deliver_to_subscribers, give_up_waiting).               *)
EveryEmailSettles == Mail!EveryEmailSettles

=============================================================================
