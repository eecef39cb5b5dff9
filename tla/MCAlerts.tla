------------------------------ MODULE MCAlerts ------------------------------
(***************************************************************************)
(* From an outage to the message about it: the rounds and reports that     *)
(* find it (Monitoring), the queue that carries what they tell             *)
(* (Deliveries) and what a message says to each tool (Messages). A         *)
(* behaviour takes the steps of one of them.                               *)
(***************************************************************************)
EXTENDS Monitoring, Deliveries, Messages, TLC

\* One new attempt, after one instant.
MCRetryDelays == <<1>>

(* One destination of each tool, with addresses it takes and refuses.      *)
Fill(tool, target, boxes) == [name |-> "team", tool |-> tool, target |-> target, boxes |-> boxes]
Target(form, scheme, segments, mails) ==
  [form |-> form, scheme |-> scheme, credentials |-> FALSE, segments |-> segments, mails |-> mails]
Web(scheme, segments) == Target("url", scheme, segments, {})
Mails(addresses) == Target("mails", "none", <<>>, addresses)
Topic == Target("topic", "none", <<>>, {})
All == {"incident", "maintenance", "publication", "detected"}
MCForms ==
  {Fill("mattermost", Web("https", <<"hook">>), {"incident", "publication"}),
   Fill("slack", Web("https", <<"hook">>), {"maintenance", "detected"}),
   Fill("ntfy", Topic, {"publication"}), Fill("ntfy", Web("https", <<"", "">>), All),
   Fill("google_chat", [Web("https", <<"hook">>) EXCEPT !.credentials = TRUE], All),
   Fill("email", Mails({"good", "odd"}), {"incident", "maintenance"}),
   Fill("email", Mails({"typo"}), All)}

(* The answers that tell failures apart; 0 stands for no HTTP status.      *)
Reply(ok, status, finding) == [ok |-> ok, status |-> status, finding |-> finding]
MCAnswers ==
  {Reply(TRUE, 200, "none"), Reply(FALSE, 301, "permanent"), Reply(FALSE, 0, "timed_out")}

QueueSymmetry == Permutations(Watched)

VARIABLE part  \* the module whose steps are taken
allVars == <<part, vars, queueVars, textVars>>

MCInit ==
  /\ part \in {"checks", "queue", "text"}
  /\ Init /\ QueueInit /\ TextInit
  /\ part # "checks" => /\ check = [s \in Services |-> CHOOSE c \in Checks : TRUE]
                        /\ delay = [s \in Services |-> 1] /\ maintenance = {}
  /\ part # "queue" => live = {}

MCNext ==
  \/ part = "checks" /\ Next /\ UNCHANGED <<part, queueVars, textVars>>
  \/ part = "queue" /\ QueueNext /\ UNCHANGED <<part, vars, textVars>>
  \/ part = "text" /\ TextNext /\ UNCHANGED <<part, vars, queueVars>>

MCSpec == MCInit /\ [][MCNext]_allVars

=============================================================================
