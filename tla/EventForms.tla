----------------------------- MODULE EventForms ------------------------------
(***************************************************************************)
(* How an event is written: the form of a new event, opened blank, after a *)
(* maintenance or on a service found down; the form of an edit; a form     *)
(* that is refused and shown again; the templates a form starts from; and  *)
(* the same event published through the API.                               *)
(*                                                                         *)
(* A form is a record of what its fields hold.  Times are numbers: None    *)
(* for an empty field, Junk for a text that is no time, an odd number for  *)
(* a time the minutes of a form cannot say (it has seconds, or it is the   *)
(* second reading of an hour the clocks go back over).  Texts are left     *)
(* out, but whether the title may be taken.  The clock stands at Now: what *)
(* passing time does to events is EventLifecycle's and FollowUp's.         *)
(***************************************************************************)
EXTENDS Naturals, Sequences, FiniteSets

CONSTANTS Editors,
          Typed,        \* what an author may type: fields and values
          Bodies,       \* what a tool may publish
          MaxEvents,    \* bound on the events
          MaxTemplates, \* bound on the templates
          MaxActs       \* bound on what the editors and tools do

VARIABLES events, templates, form, saved, acts

formVars == <<events, templates, form, saved, acts>>

Blank == 0
Junk == 99
Now == 4
Missing == "missing"
FormKinds == {"incident", "maintenance", "publication"}

FormatInput(t) == t - (t % 2)
ParseInput(t) == IF t = Junk THEN Blank ELSE t
Minutes(e) == [e EXCEPT !.start = FormatInput(@), !.end = FormatInput(@)]

(* The fields an author types into; those of a time hold a number.  What a *)
(* tool sends is read first: its kind is one there is and its times are    *)
(* times, and it neither follows an event nor repeats.                     *)
TimeFields == {"start", "end", "began"}
TypedFields == TimeFields \cup {"title", "kind", "severity", "category", "services", "step", "keeps",
                          "follows", "next", "repeats", "save"}
ASSUME FormsAssumption ==
  /\ \A change \in Typed :
       /\ change.field \in TypedFields
       /\ change.field \in TimeFields => change.value \in Nat
  /\ \A body \in Bodies :
       /\ body.kind \in FormKinds /\ body.follows = Blank /\ body.repeats = FALSE
       /\ {body.start, body.end, body.began} \subseteq Nat \ {Junk}

-----------------------------------------------------------------------------
(* What a form shows                                                       *)

Unsent == [title |-> "", kind |-> Missing]
BlankForm(kind) ==
  [edit |-> Blank, title |-> "", kind |-> kind, severity |-> Missing,
   category |-> IF kind = "publication" THEN "info" ELSE Missing, services |-> {},
   start |-> Blank, end |-> Blank, locked |-> FALSE, began |-> Blank, step |-> Missing,
   keeps |-> FALSE, follows |-> Blank, next |-> "", repeats |-> FALSE, following |-> FALSE,
   template |-> Blank, save |-> FALSE, touched |-> FALSE, sent |-> Unsent, seen |-> Unsent]

(* A critical incident on a service found down, begun with its outage.     *)
OutageOn(s, started) ==
  [BlankForm("incident") EXCEPT !.severity = "critical", !.services = {s},
                                !.began = FormatInput(started)]

(* An announcement on what a maintenance brought.                          *)
ChangelogAfter(id) ==
  [BlankForm("publication") EXCEPT !.title = "what is new", !.category = "changelog",
                                   !.services = events[id].services, !.follows = id]

UnderWay(e) == e.kind = "maintenance" /\ e.started # Blank

(* An edit: a maintenance begun right away shows when it started.          *)
ShownStart(e) == IF e.start # Blank \/ e.kind # "maintenance" THEN e.start ELSE e.started
FromEvent(id) ==
  LET e == events[id] IN
  [BlankForm(e.kind) EXCEPT !.edit = id, !.title = "kept", !.severity = e.severity,
     !.category = e.category, !.services = e.services, !.follows = e.follows,
     !.start = FormatInput(ShownStart(e)), !.end = FormatInput(e.end),
     !.locked = UnderWay(e), !.seen = e]

(* What the fields of a form mean for its kind: the others are dropped.    *)
SeverityOf(f, kind) == IF kind = "incident" THEN f.severity ELSE Missing
CategoryOf(f, kind) ==
  CASE kind # "publication" -> Missing
    [] kind = "publication" /\ f.category = Missing -> "info"
    [] OTHER -> f.category
Planned(f, kind) == kind = "maintenance" /\ f.start # Blank
Began(f, kind) == IF kind = "incident" THEN ParseInput(f.began) ELSE Blank
OpeningStep(f, kind) == IF kind = "incident" THEN f.step ELSE Missing
KeepsServicesUp(f, kind) == kind = "maintenance" /\ f.keeps
NextUpdate(f, kind) == IF kind = "incident" THEN f.next ELSE ""
Rhythm(f, kind) == Planned(f, kind) /\ f.repeats

(* The event a form asks for.                                              *)
CreateInput(f) ==
  LET kind == IF f.kind = Missing THEN "incident" ELSE f.kind IN
  [title |-> f.title, kind |-> kind, severity |-> SeverityOf(f, kind),
   category |-> CategoryOf(f, kind), planned |-> Planned(f, kind),
   start |-> IF Planned(f, kind) THEN ParseInput(f.start) ELSE Blank,
   end |-> IF kind = "maintenance" THEN ParseInput(f.end) ELSE Blank,
   began |-> Began(f, kind), step |-> OpeningStep(f, kind),
   keeps |-> KeepsServicesUp(f, kind), services |-> f.services, follows |-> f.follows,
   next |-> NextUpdate(f, kind), repeats |-> Rhythm(f, kind)]

(* A refused form, shown again with what was typed.                        *)
FromInput(f) ==
  LET kind == IF f.kind = Missing THEN "incident" ELSE f.kind IN
  [f EXCEPT !.kind = kind, !.severity = SeverityOf(f, kind), !.category = CategoryOf(f, kind),
            !.step = OpeningStep(f, kind), !.keeps = KeepsServicesUp(f, kind),
            !.repeats = Rhythm(f, kind), !.template = Blank, !.save = FALSE,
            !.touched = FALSE, !.sent = CreateInput(f)]

-----------------------------------------------------------------------------
(* What keeps an event from being saved                                    *)

ScheduleError(kind, planned, start, end) ==
  /\ kind = "maintenance"
  /\ (planned /\ start = Blank) \/ (start # Blank /\ end # Blank /\ end <= start)

FollowsRefused(kind, id) ==
  kind = "publication" /\ id # Blank /\ (id \notin DOMAIN events \/ events[id].kind # "maintenance")
FollowedMaintenance(kind, id) == IF kind = "publication" THEN id ELSE Blank

CreationError(in) ==
  \/ in.title = ""
  \/ in.kind = "incident" /\ in.severity = Missing
  \/ in.step \in {"resolved"}
  \/ in.began > Now
  \/ ScheduleError(in.kind, in.planned, IF in.planned THEN in.start ELSE Now, in.end)

Refused(in) ==
  \/ in.next = "junk"
  \/ CreationError(in)
  \/ FollowsRefused(in.kind, in.follows)
  \/ in.repeats /\ in.end = Blank

(* The row of a new event.                                                 *)
InitialStarted(in) ==
  CASE in.kind = "maintenance" /\ in.planned -> Blank
    [] in.kind = "incident" /\ in.began # Blank -> in.began
    [] OTHER -> Now
Insert(in, from, body) ==
  [kind |-> in.kind, severity |-> in.severity, category |-> in.category,
   planned |-> in.planned, start |-> in.start, end |-> in.end, started |-> InitialStarted(in),
   step |-> in.step, keeps |-> in.keeps, services |-> in.services,
   follows |-> FollowedMaintenance(in.kind, in.follows), next |-> in.next,
   repeats |-> in.repeats, closed |-> FALSE, from |-> from, body |-> body]

-----------------------------------------------------------------------------
NoForm == [edit |-> Blank, kind |-> "closed"]
NoBody == [kind |-> "none"]
NothingSaved == [edit |-> Blank]

Open(ed) == form[ed] # NoForm
Act == acts < MaxActs /\ acts' = acts + 1

FormInit ==
  /\ events = <<>> /\ templates = <<>> /\ acts = 0
  /\ form = [ed \in Editors |-> NoForm] /\ saved = NothingSaved

(* The form of a new event: blank, after a maintenance, or on a service    *)
(* found down.                                                             *)
NewForm(ed) ==
  /\ ~Open(ed) /\ Act
  /\ \/ \E k \in FormKinds : form' = [form EXCEPT ![ed] = BlankForm(k)]
     \/ \E id \in DOMAIN events : /\ events[id].kind = "maintenance"
                                  /\ form' = [form EXCEPT ![ed] = ChangelogAfter(id)]
     \/ \E began \in {Blank, 3} : form' = [form EXCEPT ![ed] = OutageOn("s", began)]
  /\ UNCHANGED <<events, templates, saved>>

(* A template chosen in the menu fills the form.                           *)
UseTemplate(ed, t) ==
  /\ Open(ed) /\ form[ed].edit = Blank /\ t \in DOMAIN templates /\ templates[t].there
  /\ form[ed].template = Blank /\ Act
  /\ form' = [form EXCEPT ![ed].title = "from a template", ![ed].kind = templates[t].kind,
                          ![ed].severity = templates[t].severity,
                          ![ed].category = templates[t].category, ![ed].template = t,
                          ![ed].touched = TRUE]
  /\ UNCHANGED <<events, templates, saved>>

(* The author fills a field; the start of one under way cannot be.         *)
Type(ed, change) ==
  /\ Open(ed) /\ Act
  /\ form[ed].locked => change.field # "start"
  /\ form[ed].edit # Blank => change.field \in {"severity", "start", "end", "follows"}
  /\ form[ed][change.field] # change.value
  /\ form' = [form EXCEPT ![ed][change.field] = change.value, ![ed].touched = TRUE]
  /\ UNCHANGED <<events, templates, saved>>

NewTemplate(in) ==
  [kind |-> in.kind, severity |-> in.severity, category |-> in.category,
   there |-> TRUE, uses |-> 0]

(* Once published, a template used is counted and one asked for is saved.  *)
Counted(in, t) == ~Refused(in)
AfterCreate(f, in) ==
  LET used == [t \in DOMAIN templates |->
                 IF t = f.template /\ templates[t].there /\ Counted(in, t)
                 THEN [templates[t] EXCEPT !.uses = @ + 1] ELSE templates[t]]
  IN  IF f.save /\ Len(templates) < MaxTemplates /\ ~Refused(in)
      THEN Append(used, NewTemplate(in))
      ELSE used

CreateFromForm(ed) ==
  LET f == form[ed]
      in == CreateInput(f)
  IN
  /\ Open(ed) /\ f.edit = Blank /\ Len(events) < MaxEvents
  /\ templates' = AfterCreate(f, in)
  /\ IF Refused(in)
     THEN form' = [form EXCEPT ![ed] = FromInput(f)] /\ UNCHANGED events
     ELSE form' = [form EXCEPT ![ed] = NoForm]
          /\ events' = Append(events, Insert(in, IF f.template # Blank /\ templates[f.template].there
                                                 THEN f.template ELSE Blank, NoBody))
  /\ UNCHANGED <<saved, acts>>

DeleteTemplate(t) ==
  /\ t \in DOMAIN templates /\ templates[t].there /\ Act
  /\ templates' = [templates EXCEPT ![t].there = FALSE]
  /\ UNCHANGED <<events, form, saved>>

(* What a tool publishes: each kind keeps only the fields that fit it.     *)
IntoInput(body) ==
  LET incident == body.kind = "incident"
      maintenance == body.kind = "maintenance"
      planned == maintenance /\ body.start # Blank
  IN [title |-> body.title, kind |-> body.kind,
      severity |-> IF incident THEN body.severity ELSE Missing,
      category |-> CASE body.kind # "publication" -> Missing
                     [] body.kind = "publication" /\ body.category = Missing -> "info"
                     [] OTHER -> body.category,
      planned |-> planned,
      start |-> IF planned THEN body.start ELSE Blank,
      end |-> IF maintenance THEN body.end ELSE Blank,
      began |-> IF incident THEN body.began ELSE Blank,
      step |-> IF incident THEN body.step ELSE Missing,
      keeps |-> maintenance /\ body.keeps, services |-> body.services, follows |-> Blank,
      next |-> IF incident THEN body.next ELSE "", repeats |-> FALSE]

ApiCreate(body) ==
  LET in == IntoInput(body) IN
  /\ Len(events) < MaxEvents /\ Act /\ ~Refused(in)
  /\ events' = Append(events, Insert(in, Blank, body))
  /\ UNCHANGED <<templates, form, saved>>

-----------------------------------------------------------------------------
(* Edits                                                                   *)

EditForm(ed, id) ==
  /\ ~Open(ed) /\ Act /\ id \in DOMAIN events /\ ~events[id].closed
  /\ form' = [form EXCEPT ![ed] = FromEvent(id)]
  /\ UNCHANGED <<events, templates, saved>>

(* The kind and the announcement stay what they were.                      *)
UpdateInput(f, e) ==
  [severity |-> SeverityOf(f, e.kind), category |-> CategoryOf(f, e.kind),
   start |-> IF e.planned THEN ParseInput(f.start) ELSE Blank,
   end |-> IF e.kind = "maintenance" THEN ParseInput(f.end) ELSE Blank,
   services |-> f.services, follows |-> f.follows]

UpdateError(in, e) ==
  \/ e.kind = "incident" /\ in.severity = Missing
  \/ ScheduleError(e.kind, e.planned, IF e.planned THEN in.start ELSE e.started, in.end)
  \/ FollowsRefused(e.kind, in.follows)

UpdatedRow(in, e) ==
  [e EXCEPT !.severity = in.severity, !.category = in.category, !.start = in.start,
            !.end = in.end, !.services = in.services,
            !.follows = FollowedMaintenance(e.kind, in.follows)]

(* An announced maintenance that has not begun, given a new window: told.  *)
MovesItsTimesAlways(in, e) == e.planned /\ e.started = Blank
MovesItsTimes(in, e) ==
  e.planned /\ e.started = Blank /\ <<in.start, in.end>> # <<e.start, e.end>>

(* A refused edit is shown again, its start locked if it began meanwhile;  *)
(* one on an event closed meanwhile is an error.                           *)
Update(ed) ==
  LET f == form[ed]
      e == events[f.edit]
      in == UpdateInput(f, e)
  IN
  /\ Open(ed) /\ f.edit # Blank
  /\ CASE e.closed -> /\ form' = [form EXCEPT ![ed] = NoForm]
                       /\ UNCHANGED <<events, saved>>
       [] ~e.closed /\ UpdateError(in, e) ->
            /\ form' = [form EXCEPT ![ed] = [FromInput(f) EXCEPT !.locked = UnderWay(e),
                                                !.touched = TRUE]]
            /\ UNCHANGED <<events, saved>>
       [] OTHER -> /\ events' = [events EXCEPT ![f.edit] = UpdatedRow(in, e)]
                   /\ form' = [form EXCEPT ![ed] = NoForm]
                   /\ saved' = [edit |-> f.edit, before |-> e, after |-> UpdatedRow(in, e),
                                told |-> MovesItsTimes(in, e), touched |-> f.touched,
                                seen |-> f.seen]
  /\ UNCHANGED <<templates, acts>>

(* The author leaves the page.                                             *)
Leave(ed) ==
  /\ Open(ed)
  /\ form' = [form EXCEPT ![ed] = NoForm]
  /\ UNCHANGED <<events, templates, saved, acts>>

(* Meanwhile a maintenance starts, or an event is closed.                  *)
Starts(id) ==
  /\ id \in DOMAIN events /\ events[id].planned /\ events[id].started = Blank /\ Act
  /\ events' = [events EXCEPT ![id].started = Now]
  /\ UNCHANGED <<templates, form, saved>>
Closes(id) ==
  /\ id \in DOMAIN events /\ events[id].kind # "publication" /\ events[id].started # Blank
  /\ ~events[id].closed /\ Act
  /\ events' = [events EXCEPT ![id].closed = TRUE]
  /\ UNCHANGED <<templates, form, saved>>

FormNext ==
  \/ \E ed \in Editors :
       \/ NewForm(ed) \/ CreateFromForm(ed) \/ Update(ed) \/ Leave(ed)
       \/ \E t \in DOMAIN templates : UseTemplate(ed, t)
       \/ \E change \in Typed : Type(ed, change)
       \/ \E id \in DOMAIN events : EditForm(ed, id)
  \/ \E t \in DOMAIN templates : DeleteTemplate(t)
  \/ \E body \in Bodies : ApiCreate(body)
  \/ \E id \in DOMAIN events : Starts(id) \/ Closes(id)

FormSpec == FormInit /\ [][FormNext]_formVars

-----------------------------------------------------------------------------
(* Properties                                                              *)

(* What is kept of an event always fits its kind.                          *)
FitsItsKind ==
  \A id \in DOMAIN events :
    LET e == events[id] IN
    /\ e.severity # Missing <=> e.kind = "incident"
    /\ e.category # Missing <=> e.kind = "publication"
    /\ e.planned => e.kind = "maintenance" /\ e.start # Blank
    /\ e.keeps \/ e.end # Blank \/ e.repeats => e.kind = "maintenance"
    /\ e.step # Missing \/ e.next # "" => e.kind = "incident"
    /\ e.follows # Blank => events[e.follows].kind = "maintenance"
    /\ e.kind = "maintenance" /\ e.start # Blank /\ e.end # Blank => e.start < e.end

(* A form that was refused and is sent again as it is shown asks for the   *)
(* same event: nothing the author typed is lost (form.rs: from_input).     *)
RefusedFormKeepsWhatWasTyped ==
  \A ed \in Editors :
    Open(ed) /\ form[ed].edit = Blank /\ ~form[ed].touched /\ form[ed].sent # Unsent =>
      CreateInput(form[ed]) = form[ed].sent

(* An edit saved as it was opened leaves the event as it was, to the       *)
(* minute, even if it started meanwhile, and tells nobody of a new window  *)
(* unless the times were some that a form cannot say (form.rs: from_event, *)
(* moves_its_window).                                                      *)
UntouchedEditChangesNothing ==
  /\ saved.edit # Blank /\ ~saved.touched
  /\ saved.seen = [saved.before EXCEPT !.started = saved.seen.started]
  => /\ Minutes(saved.after) = Minutes(saved.before)
     /\ saved.told => saved.before # Minutes(saved.before)

(* A maintenance under way when its form was opened is written back with   *)
(* the start it was shown with, whatever else is edited, its form refused  *)
(* or another author's saved meanwhile (form.rs: start_locked).            *)
StartedKeepsItsStart ==
  saved.edit # Blank /\ UnderWay(saved.seen) =>
    FormatInput(saved.after.start) = FormatInput(saved.seen.start)

(* A key publishes what the form would publish from the same fields        *)
(* (api/events.rs: as the form does).                                      *)
KeysPublishAsTheForm ==
  \A id \in DOMAIN events :
    events[id].body # NoBody => CreateInput(events[id].body) = IntoInput(events[id].body)

(* The count of a template is the number of events published from it.      *)
TemplatesCountTheirEvents ==
  \A t \in DOMAIN templates :
    templates[t].uses = Cardinality({id \in DOMAIN events : events[id].from = t})

(* What the forms, the templates and the keys write is what was meant: an  *)
(* event that fits its kind, nothing typed lost, nothing untouched changed.*)
FormsAreFaithful ==
  /\ FitsItsKind /\ RefusedFormKeepsWhatWasTyped /\ UntouchedEditChangesNothing
  /\ StartedKeepsItsStart /\ KeysPublishAsTheForm /\ TemplatesCountTheirEvents
=============================================================================
