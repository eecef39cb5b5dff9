------------------------------ MODULE MCUpkeep ------------------------------
(***************************************************************************)
(* The tasks that remember and remind: the journal and its writer          *)
(* (Journal), the reminders, notices and reviews of incidents (FollowUp).  *)
(* They share no state, so a behaviour takes the steps of one of them, and *)
(* fairness is asked of the task of that one alone.                        *)
(***************************************************************************)
EXTENDS Journal, FollowUp

VARIABLE part  \* the module whose steps are taken

allVars == <<part, vars, followVars>>

MCInit ==
  /\ part \in {"journal", "follow"}
  /\ Init /\ FollowInit

MCNext ==
  \/ part = "journal" /\ Next /\ UNCHANGED <<part, followVars>>
  \/ part = "follow" /\ FollowNext /\ UNCHANGED <<part, vars>>

(* The writer of the journal and the minute task of the reminders run as   *)
(* long as the server does.                                                *)
MCFairness ==
  /\ WF_allVars(part = "journal" /\ WriterStep /\ UNCHANGED <<part, followVars>>)
  /\ WF_allVars(part = "follow" /\ RoundStep /\ UNCHANGED <<part, vars>>)

MCSpec == MCInit /\ [][MCNext]_allVars /\ MCFairness

=============================================================================
