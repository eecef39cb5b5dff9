-------------------------------- MODULE Inbox --------------------------------
(***************************************************************************)
(* What a subscriber is promised, whatever the rounds, the mail server and *)
(* the crashes do: the news reaches each box in the order it was queued,   *)
(* an older email never comes after a newer one, nothing that was queued   *)
(* before is still waiting when an email arrives, and an email comes again *)
(* only when nobody could tell whether it had arrived.  Some may never     *)
(* come: given up, left out, or cancelled with the subscription.           *)
(***************************************************************************)
EXTENDS Integers

CONSTANT Boxes

VARIABLES
  waiting,  \* the emails each box still has to receive, by number
  next,     \* the number of its next email
  last,     \* the last one that arrived, 0 for none
  unsure    \* the boxes whose last arrival was not recorded

vars == <<waiting, next, last, unsure>>

Init ==
  /\ waiting = [b \in Boxes |-> {}]
  /\ next = [b \in Boxes |-> 1]
  /\ last = [b \in Boxes |-> 0]
  /\ unsure = {}

\* One piece of news for some of the boxes.
Queue(bs) ==
  /\ bs # {}
  /\ waiting' = [b \in Boxes |-> waiting[b] \cup (IF b \in bs THEN {next[b]} ELSE {})]
  /\ next' = [b \in Boxes |-> IF b \in bs THEN next[b] + 1 ELSE next[b]]
  /\ UNCHANGED <<last, unsure>>

\* An email arrives.  It may have been cancelled while it was on its way.
Arrive(b, i) ==
  /\ i < next[b]
  /\ i > last[b] \/ (i = last[b] /\ b \in unsure)
  /\ \A j \in waiting[b] : i <= j
  /\ last' = [last EXCEPT ![b] = i]
  /\ unsure' = unsure \ {b}
  /\ UNCHANGED <<waiting, next>>

\* The outcome of an arrival is lost.
Doubt(bs) ==
  /\ unsure' = unsure \cup bs
  /\ UNCHANGED <<waiting, next, last>>

\* Emails stop waiting: recorded as sent, given up, left out, cancelled.
Drop ==
  /\ \A b \in Boxes : waiting'[b] \subseteq waiting[b]
  /\ DOMAIN waiting' = Boxes
  /\ UNCHANGED <<next, last, unsure>>

Next ==
  \/ \E bs \in SUBSET Boxes : Queue(bs) \/ Doubt(bs)
  \/ \E b \in Boxes : Arrive(b, last'[b])
  \/ Drop

Spec == Init /\ [][Next]_vars
=============================================================================
