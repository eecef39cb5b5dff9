------------------------------ MODULE MCEvents ------------------------------
(***************************************************************************)
(* Events from both sides: their states under concurrent requests and the  *)
(* schedule (EventLifecycle), and the forms, templates and API bodies they *)
(* are written from (EventForms). A behaviour takes the steps of one of    *)
(* them.                                                                   *)
(***************************************************************************)
EXTENDS EventLifecycle, EventForms, TLC

MCKinds == {"incident", "maintenance"}
ActorSymmetry == Permutations(Workers) \cup Permutations(Editors)

Change(f, v) == [field |-> f, value |-> v]
MCTyped ==
  {Change("title", "t"), Change("severity", "minor"), Change("kind", "maintenance"),
   Change("start", 6), Change("start", Junk), Change("end", 2), Change("end", 8),
   Change("began", 8), Change("began", 2), Change("step", "monitoring"),
   Change("keeps", TRUE), Change("next", "junk"), Change("repeats", TRUE),
   Change("save", TRUE), Change("category", "changelog"), Change("follows", 1)}

Body(kind, start, end, given) ==
  [title |-> "t", kind |-> kind, severity |-> IF given THEN "minor" ELSE Missing,
   category |-> IF given THEN "changelog" ELSE Missing, services |-> {}, start |-> start,
   end |-> end, began |-> IF given THEN 2 ELSE Blank, step |-> IF given THEN "monitoring" ELSE Missing,
   keeps |-> given, next |-> IF given THEN "30" ELSE "", follows |-> Blank, repeats |-> FALSE]
MCBodies ==
  {Body("incident", 6, 8, TRUE), Body("maintenance", 7, 9, TRUE), Body("maintenance", Blank, 8, TRUE),
   Body("publication", 6, 8, TRUE), Body("publication", Blank, Blank, FALSE)}

VARIABLE part  \* the module whose steps are taken

allVars == <<part, vars, formVars>>

MCInit ==
  /\ part \in {"lifecycle", "form"}
  /\ Init /\ FormInit

MCNext ==
  \/ part = "lifecycle" /\ Next /\ UNCHANGED <<part, formVars>>
  \/ part = "form" /\ FormNext /\ UNCHANGED <<part, vars>>

MCSpec == MCInit /\ [][MCNext]_allVars

=============================================================================
