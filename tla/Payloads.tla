------------------------------ MODULE Payloads -------------------------------
(***************************************************************************)
(* The reports of monitoring tools, read the way routes/api/reports reads  *)
(* them: one reader per format turns a body into signals.                  *)
(*                                                                         *)
(* A body is a record of the fields the readers look at, Missing where the *)
(* tool sent none.  Texts are names; their trimming is left out, an empty  *)
(* one is Blank.                                                           *)
(***************************************************************************)
EXTENDS Naturals, Sequences, SequencesExt

Missing == "missing"
Blank == "blank"

(* A signal says one service is down or up; `ignored' counts the parts     *)
(* that were left out.                                                     *)

NoReading == [signals |-> <<>>, ignored |-> 0]

Signalled(reading, name, state, words) ==
  [reading EXCEPT !.signals = Append(@, [service |-> name, state |-> state, words |-> words])]
Ignored(reading) == [reading EXCEPT !.ignored = @ + 1]

(* One alert: firing or resolved, about the service its label names.  The  *)
(* words of a resolved one are those of the problem, and are dropped.      *)
Take(reading, alert) ==
  CASE alert.service \in {Missing, Blank} -> Ignored(reading)
    [] alert.service \notin {Missing, Blank} /\ alert.status = "firing" ->
         Signalled(reading, alert.service, "down", alert.words)
    [] alert.service \notin {Missing, Blank} /\ alert.status = "resolved" ->
         Signalled(reading, alert.service, "up", Missing)
    [] OTHER -> Ignored(reading)

(* Alertmanager and the tools that send its format: known by its shape.    *)
IsAlertmanager(body) ==
  "alerts" \in DOMAIN body /\ \A i \in DOMAIN body.alerts : body.alerts[i].status # Missing
ReadAlertmanager(body) == FoldLeft(Take, NoReading, body.alerts)

(* Uptime Kuma: a heartbeat and a monitor, both null for its Test button.  *)
IsKuma(body) == "heartbeat" \in DOMAIN body /\ "monitor" \in DOMAIN body
ReadKuma(body) ==
  CASE body.heartbeat = "null" -> NoReading
    [] body.heartbeat # "null" /\ body.monitor = Missing -> Ignored(NoReading)
    [] body.heartbeat = "0" -> Signalled(NoReading, body.monitor, "down", "heartbeat")
    [] body.heartbeat = "1" -> Signalled(NoReading, body.monitor, "up", "heartbeat")
    [] OTHER -> Ignored(NoReading)

(* Statup's own format: one service and one state, each needed.            *)
IsStatup(body) == "service" \in DOMAIN body \/ "state" \in DOMAIN body
Text(body, field) ==
  IF field \in DOMAIN body /\ body[field] # Blank THEN body[field] ELSE Missing
StatupUsable(body) ==
  Text(body, "service") # Missing /\ Text(body, "state") \in {"down", "up"}
ReadStatup(body) ==
  Signalled(NoReading, body.service, body.state, Text(body, "message"))
=============================================================================
