---------------------------- MODULE StatusRules ----------------------------
(***************************************************************************)
(* The rules that say what an event does to the services it names, and     *)
(* which state a service shows when several causes disagree.  They are     *)
(* pure: models/event/dimensions.rs and models/service.rs keep them apart  *)
(* from the database, and every other module builds on them.               *)
(***************************************************************************)
EXTENDS Naturals

\* A nullable column that holds nothing.
None == "none"

\* models/service.rs, ServiceStatus
ServiceStatus == {"operational", "degraded", "major_outage", "maintenance"}

\* The order in which one state hides another: the worst is shown.
Priority(status) ==
  CASE status = "operational"  -> 0
    [] status = "maintenance"  -> 1
    [] status = "degraded"     -> 2
    [] status = "major_outage" -> 3

Kind     == {"incident", "maintenance"}
Severity == {"minor", "critical"}

Lifecycle == {"investigating", "in_progress", "monitoring", "resolved",
              "cancelled", "scheduled", "completed"}

IsTerminal(lifecycle) == lifecycle \in {"resolved", "cancelled", "completed"}

OpensIncident(lifecycle) ==
  lifecycle \in {"investigating", "in_progress", "monitoring"}

\* The status an open event gives its services.  An incident without a
\* severity counts as minor; a publication never reaches this rule.
DeriveStatus(kind, severity) ==
  IF kind = "maintenance" THEN "maintenance"
  ELSE IF severity = "critical" THEN "major_outage" ELSE "degraded"

\* Whether an event in `lifecycle` sets the state of its services: the rule
\* the code writes twice, as drives_services and as the SQL DRIVES_SERVICES.
DrivesServices(kind, lifecycle, keepsServicesUp) ==
  \/ kind = "incident" /\ lifecycle \in {"investigating", "in_progress"}
  \/ kind = "maintenance" /\ lifecycle = "in_progress" /\ ~keepsServicesUp

\* Kind::allowed_transitions
AllowedTransitions(kind, current) ==
  IF kind = "incident"
  THEN CASE current = "investigating" ->
              {"in_progress", "monitoring", "resolved", "cancelled"}
         [] current = "in_progress" -> {"monitoring", "resolved", "cancelled"}
         [] current = "monitoring"  -> {"in_progress", "resolved"}
         [] OTHER -> {}
  ELSE CASE current = "scheduled"   -> {"in_progress", "completed", "cancelled"}
         [] current = "in_progress" -> {"completed", "cancelled"}
         [] OTHER -> {}

CanTransition(kind, from, to) == to \in AllowedTransitions(kind, from)

\* The worst of a set of states, as Iterator::max_by_key picks it: no two
\* states have the same priority, so the choice is unique.
WorstOf(statuses) ==
  CHOOSE worst \in statuses :
    \A other \in statuses : Priority(other) <= Priority(worst)
=============================================================================
