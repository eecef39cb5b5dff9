------------------------------- MODULE MCLive -------------------------------
(***************************************************************************)
(* What the rounds of checks (Monitoring) and the maintenance schedule     *)
(* (EventLifecycle) must eventually do. A behaviour takes the steps of one *)
(* of them, and fairness is asked of the task of that one alone.           *)
(***************************************************************************)
EXTENDS Monitoring, TLC

CONSTANT LiveMessages  \* bound on the messages of the event

VARIABLES
  part,  \* the module whose steps are taken
  eventClock, eventEvent, eventStored, eventSent, eventTells,
  eventRequest, eventSchedule, eventReopened

Schedule == INSTANCE EventLifecycle WITH
  Events <- {"e1"}, Kinds <- {"maintenance"}, Roles <- {"publisher",
  "admin"}, Workers <- {"w1"}, MaxClock <- 3, MaxMessages <- LiveMessages,
  MayFail <- FALSE, clock <- eventClock, event <- eventEvent,
  stored <- eventStored, sent <- eventSent, tells <- eventTells,
  request <- eventRequest, schedule <- eventSchedule,
  reopened <- eventReopened

eventsVars == <<eventClock, eventEvent, eventStored, eventSent, eventTells,
  eventRequest, eventSchedule, eventReopened>>
allVars == <<part, vars, eventsVars>>

MCInit ==
  /\ part \in {"checks", "events"}
  /\ Init /\ Schedule!Init /\ maintenance = {}
  /\ part # "checks" => /\ check = [s \in Services |-> CHOOSE c \in Checks : TRUE]
                        /\ delay = [s \in Services |-> 1]

MCNext ==
  \/ part = "checks" /\ Next /\ UNCHANGED <<part, eventsVars>>
  \/ part = "events" /\ Schedule!Next /\ UNCHANGED <<part, vars>>

(* The tasks run as long as the server does and time passes. Nothing is    *)
(* asked of the people or the services.                                    *)
MCFairness ==
  /\ WF_allVars(part = "checks" /\ RunRound /\ UNCHANGED <<part, eventsVars>>)
  /\ WF_allVars(part = "events" /\ Schedule!ApplySchedule /\ UNCHANGED <<part, vars>>)
  /\ WF_allVars(part = "events" /\ Schedule!Tick /\ UNCHANGED <<part, vars>>)

MCSpec == MCInit /\ [][MCNext]_allVars /\ MCFairness

-----------------------------------------------------------------------------
(* Properties                                                              *)

(* A maintenance whose time has come is started or closed by the schedule, *)
(* whatever is edited meanwhile (apply_schedule).                          *)
DueMaintenanceMoves == Schedule!DueMaintenanceMoves

=============================================================================
