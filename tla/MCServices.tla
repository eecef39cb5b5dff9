----------------------------- MODULE MCServices -----------------------------
(***************************************************************************)
(* The services as members and visitors meet them: the status shown        *)
(* (StatusBoard), the days of the strip (Strip) and the monitoring fields  *)
(* of their form (CheckForms). The three share no state that changes here, *)
(* so a behaviour takes the steps of one of them.                          *)
(***************************************************************************)
EXTENDS StatusBoard, Strip, CheckForms, TLC

MCEventStates ==
  {[kind |-> "incident", severity |-> "critical",
    lifecycle |-> "investigating", keepsUp |-> FALSE],
   [kind |-> "incident", severity |-> "minor",
    lifecycle |-> "monitoring", keepsUp |-> FALSE],
   [kind |-> "maintenance", severity |-> "minor",
    lifecycle |-> "in_progress", keepsUp |-> FALSE]}

Field(f, v) == [field |-> f, value |-> v]
MCTyping ==
  {Field("name", ""), Field("name", "other"), Field("kind", "http"), Field("kind", "tcp"),
   Field("kind", "none"), Field("url", <<"https", "host">>), Field("url", <<"host">>),
   Field("host", <<"nas">>), Field("host", <<"fd00", ":", ":", "1">>),
   Field("host", <<"[", "fd00", ":", "1", "]">>), Field("host", <<"nas", "/">>),
   Field("port", "22"), Field("port", "0"), Field("cert", TRUE), Field("after", <<61>>),
   Field("after", <<>>), Field("after", <<10>>)}

MCParts == {"[", "]", ":", "/", "22", "65535", "nas", "fd00", "1"}

(* How reqwest, musl and glibc word each trouble.                          *)
Link(io, text) == [io |-> io, text |-> text]
Outer == Link("other", {"error sending request"})
Unsaid == Link("other", {})
World(truth, status, web, port) == [truth |-> truth, status |-> status, web |-> web, port |-> port]
AllWell == World("answers", 200, <<>>, Unsaid)
MCWorlds ==
  {AllWell} \cup {World("answers", status, <<>>, Unsaid) : status \in {404, 499, 500}} \cup
  {World("certificate", 200, <<Outer, Link("other", {"invalid peer certificate", "certificate"})>>, Unsaid),
   World("redirects", 302, <<Outer>>, Unsaid), World("silent_server", 0, <<Outer>>, Unsaid),
   World("refused", 0, <<Outer, Link("refused", {})>>, Link("refused", {})),
   World("no_route", 0, <<Outer, Link("network_unreachable", {})>>, Link("network_down", {})),
   World("resolver_silent", 0,
         <<Outer, Link("other", {"dns error"}), Link("other", {"failed to lookup address", "try again"})>>,
         Link("other", {"failed to lookup address", "temporary failure in name resolution"})),
   World("no_such_name", 0,
         <<Outer, Link("other", {"dns error"}), Link("other", {"failed to lookup address", "name or service not known"})>>,
         Link("other", {"failed to lookup address"})),
   World("reset", 0, <<Outer, Link("other", {"connection reset", "try again"})>>, Unsaid)}

StripSymmetry == Permutations(Incidents)

VARIABLE part  \* the module whose steps are taken

allVars == <<part, boardVars, stripVars, fieldVars>>

MCInit ==
  /\ part \in {"board", "strip", "form"}
  /\ BoardInit /\ StripInit /\ FieldsInit
  /\ part # "form" => world = AllWell

MCNext ==
  \/ part = "board" /\ BoardNext /\ UNCHANGED <<part, stripVars, fieldVars>>
  \/ part = "strip" /\ StripNext /\ UNCHANGED <<part, boardVars, fieldVars>>
  \/ part = "form" /\ FieldsNext /\ UNCHANGED <<part, boardVars, stripVars>>

MCSpec == MCInit /\ [][MCNext]_allVars
=============================================================================
