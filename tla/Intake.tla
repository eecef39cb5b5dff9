------------------------------- MODULE Intake --------------------------------
(***************************************************************************)
(* The services that come in by themselves or by the dozen: created by a   *)
(* tool with a key, by the import of a Kuma page, by the first setup; and  *)
(* the service a report of a monitoring tool then reaches.                 *)
(*                                                                         *)
(* Every way in reads the table of services, decides what is new, and then *)
(* creates one service at a time in two statements: a free slug is looked  *)
(* for, then the row is inserted (services/service_service.rs).  Nothing   *)
(* but the slug is unique in the table, so what two ways in do at once     *)
(* shows here.  `work' is what each of them has left to do.  An import or  *)
(* a setup may be cut short anywhere: the reader leaves, the server stops. *)
(*                                                                         *)
(* A name is a text with its lower case, its lower case for ASCII only and *)
(* the slug made from it.  A slug is that text and a number, 1 when it     *)
(* stands alone; names that end like a numbered slug are left out.         *)
(* `dropped', `met' and the run of a row are kept for the properties.      *)
(* Left out: services deleted meanwhile, descriptions, icons, the order of *)
(* the services, the journal.                                              *)
(***************************************************************************)
EXTENDS ApiKeys, Payloads, FiniteSets

CONSTANTS Names,        \* the names services may be given
          Slug(_),      \* the slug of a name
          Takes(_),     \* whether a service or a folder may have the name
          Workers,      \* the editors and administrators at work
          PageVersions, \* what the Kuma page may hold: groups of monitors
          SetupForms,   \* what the services step of the setup may send
          ReportBodies, \* what the tools may send
          MaxServices,  \* bound on the services
          MaxRuns       \* bound on the operations started and the changes made

VARIABLES
  services, \* the rows of services, in the order of their ids
  folders,  \* the rows of service_folders
  page,     \* the Kuma page
  last,     \* an import is remembered to be run again
  work,     \* what each worker and each call has under way
  runs,     \* how many operations were started and changes made
  met,      \* the pairs of operations that were under way together
  dropped,  \* the names that a rename took away
  heard     \* the last report: what was sent and what it reached

intake == <<services, folders, page, last, work, runs, met, dropped, heard>>
vars == <<keyring, calls, intake>>

NoSlug == <<"", 0>>
NoWork == [does |-> "nothing", run |-> 0, todo |-> <<>>, slug |-> NoSlug,
           group |-> 0, folder |-> 0, made |-> 0, checking |-> 0, about |-> <<>>]
NoReport == [body |-> <<>>, reading |-> NoReading, reached |-> <<>>]

Actors == Workers \cup Calls

-----------------------------------------------------------------------------
(* What the table answers                                                  *)

(* A tool means this service, by its name or its slug.                     *)
AnswersTo(s, name) == Lower(s.name) = Lower(name) \/ s.slug = <<Lower(name), 1>>

(* The first service of the list that answers takes the report.            *)
Target(name) ==
  LET them == {i \in DOMAIN services : AnswersTo(services[i], name)}
  IN  IF them = {} THEN 0 ELSE CHOOSE i \in them : \A j \in them : i <= j

SlugExists(slug) == \E i \in DOMAIN services : services[i].slug = slug

(* The plain slug, or the first number that is free.                       *)
UniqueSlug(name) ==
  LET free == {n \in 1..(Len(services) + 1) : ~SlugExists(<<Slug(name), n>>)}
  IN  <<Slug(name), CHOOSE n \in free : \A m \in free : n <= m>>

-----------------------------------------------------------------------------
(* The plan of an import                                                   *)

(* Groups of one name, whatever the case, become one.                      *)
MergeSameNames(groups) ==
  LET merge(merged, g) ==
        LET kept == {i \in DOMAIN merged : Lower(merged[i].name) = Lower(g.name)}
        IN  IF kept = {} THEN Append(merged, g)
            ELSE LET i == CHOOSE i \in kept : TRUE
                 IN  [merged EXCEPT ![i].monitors = @ \o g.monitors]
  IN  FoldLeft(merge, <<>>, groups)

(* The page, read again when the groups are sent.                          *)
ReadStatusPage == MergeSameNames(page)

FolderPlan(name) ==
  LET named == {f \in DOMAIN folders : folders[f].there /\ Lower(folders[f].name) = Lower(name)}
  IN  CASE ~Takes(name) -> [kind |-> "refused", id |-> 0]
        [] Takes(name) /\ named # {} ->
             [kind |-> "existing", id |-> CHOOSE f \in named : \A g \in named : f <= g]
        [] OTHER -> [kind |-> "new", id |-> 0]

(* A monitor is new unless a service answers to its name, or one planned   *)
(* earlier in the page will, by its name or by its slug.                   *)
FateOfRow(name, planned) ==
  CASE ~Takes(name) -> "refused"
    [] Takes(name) /\ Target(name) # 0 -> "exists"
    [] OTHER -> "new"
FateOf(name, planned) ==
  CASE ~Takes(name) -> "refused"
    [] Takes(name) /\ (Lower(name) \in planned \/ Target(name) # 0) -> "exists"
    [] OTHER -> "new"

(* One service to create per new monitor, in the order of the page.        *)
PlanImport(groups) ==
  LET monitors(i) == [j \in DOMAIN groups[i].monitors |->
                        [name |-> groups[i].monitors[j], group |-> i,
                         called |-> groups[i].name, folder |-> FolderPlan(groups[i].name)]]
      all == FlattenSeq([i \in DOMAIN groups |-> monitors(i)])
      plan(acc, m) ==
        IF FateOf(m.name, acc.planned) = "new"
        THEN [planned |-> acc.planned \cup {Lower(m.name), Slug(m.name)},
              todo |-> Append(acc.todo, m)]
        ELSE acc
  IN  FoldLeft(plan, [planned |-> {}, todo |-> <<>>], all).todo

Chosen(groups, ticked) == SelectSeq(groups, LAMBDA g : g.name \in ticked)
GroupNames == {g.name : g \in UNION {{p[i] : i \in DOMAIN p} : p \in PageVersions}}

-----------------------------------------------------------------------------
Init ==
  /\ KeysInit
  /\ services = <<>> /\ folders = <<>>
  /\ page \in PageVersions /\ last = FALSE
  /\ work = [w \in Actors |-> NoWork]
  /\ runs = 0 /\ met = {} /\ dropped = {} /\ heard = NoReport

(* An operation starts: it meets those under way.                          *)
Begin(w, does, todo, about) ==
  /\ work[w].does \in {"nothing", "imported", "set up"} /\ runs < MaxRuns
  /\ runs' = runs + 1
  /\ met' = met \cup {{work[v].run, runs + 1} :
                        v \in {v \in Actors : work[v].does \in {"import", "setup", "call"}}}
  /\ work' = [work EXCEPT ![w] = [NoWork EXCEPT !.does = does, !.run = runs + 1,
                                                !.todo = todo, !.about = about]]

(* An editor sends the groups ticked: the page is read again and planned   *)
(* against the services and folders as they are now.                       *)
ImportGroups(w, ticked) ==
  LET chosen == Chosen(ReadStatusPage, ticked) IN
  /\ Begin(w, "import", PlanImport(chosen), chosen)
  /\ UNCHANGED <<services, folders, page, last, dropped, heard>>

Head1(w) == work[w].todo[1]

(* The folder of the next service: found, created, or none.                *)
OpenFolder(w) ==
  /\ work[w].does = "import" /\ work[w].todo # <<>>
  /\ work[w].group # Head1(w).group
  /\ IF Head1(w).folder.kind = "new"
     THEN /\ folders' = Append(folders, [name |-> Head1(w).called, there |-> TRUE,
                                         run |-> work[w].run])
          /\ work' = [work EXCEPT ![w].group = Head1(w).group, ![w].folder = Len(folders) + 1]
     ELSE /\ work' = [work EXCEPT ![w].group = Head1(w).group,
                                  ![w].folder = Head1(w).folder.id]
          /\ UNCHANGED folders
  /\ UNCHANGED <<services, page, last, runs, met, dropped, heard>>

(* A free slug is looked for.                                              *)
FindSlug(w) ==
  /\ work[w].does \in {"import", "setup", "call"} /\ work[w].todo # <<>>
  /\ work[w].slug = NoSlug /\ work[w].checking = 0
  /\ work[w].does = "import" => work[w].group = Head1(w).group
  /\ Takes(Head1(w).name)
  /\ work' = [work EXCEPT ![w].slug = UniqueSlug(Head1(w).name)]
  /\ UNCHANGED <<services, folders, page, last, runs, met, dropped, heard>>

(* The check the setup's form asks for a name, whatever its case.          *)
Asked(form, name) == \E n \in form.checks : AsciiLower(n) = AsciiLower(name)

(* Whether the insert breaks no constraint of the table: the slug is still *)
(* free, and the folder still there.                                       *)
MayInsert(w) ==
  /\ ~SlugExists(work[w].slug)
  /\ work[w].folder # 0 => folders[work[w].folder].there

(* The operation stops on an error: what it created stays.                 *)
Stopped(w) == work' = [work EXCEPT ![w] = NoWork]

(* One service, inside its folder from the start.                          *)
InsertService(w) ==
  /\ work[w].slug # NoSlug /\ Len(services) < MaxServices
  /\ IF MayInsert(w)
     THEN /\ services' = Append(services,
               [name |-> Head1(w).name, slug |-> work[w].slug, folder |-> work[w].folder,
                by |-> work[w].does, run |-> work[w].run, check |-> FALSE, renamed |-> FALSE,
                late |-> w \in Calls /\ calls[w].late])
          /\ work' = [work EXCEPT ![w].todo = Tail(@), ![w].slug = NoSlug, ![w].made = @ + 1,
                        ![w].checking = IF work[w].does = "setup" /\ Asked(work[w].about, Head1(w).name)
                                        THEN Len(services) + 1 ELSE 0]
     ELSE /\ Stopped(w) /\ UNCHANGED services
  /\ UNCHANGED <<folders, page, last, runs, met, dropped, heard>>

Remembered(w) == last \/ work[w].made > 0

(* The import is over: it is remembered when it created something.         *)
ImportEnds(w) ==
  /\ work[w].does = "import" /\ work[w].todo = <<>>
  /\ last' = Remembered(w)
  /\ work' = [work EXCEPT ![w] = [NoWork EXCEPT !.does = "imported", !.run = work[w].run,
                                                !.about = work[w].about]]
  /\ UNCHANGED <<services, folders, page, runs, met, dropped, heard>>

(* The reader leaves or the server stops.                                  *)
Cut(w) ==
  /\ work[w].does \in {"import", "setup"}
  /\ Stopped(w)
  /\ UNCHANGED <<services, folders, page, last, runs, met, dropped, heard>>

KumaChanges(p) ==
  /\ p # page /\ runs < MaxRuns /\ runs' = runs + 1
  /\ page' = p
  /\ UNCHANGED <<services, folders, last, work, met, dropped, heard>>

(* An editor deletes a folder: its services stay, in none.                 *)
DeleteFolder(f) ==
  /\ f \in DOMAIN folders /\ folders[f].there /\ runs < MaxRuns /\ runs' = runs + 1
  /\ folders' = [folders EXCEPT ![f].there = FALSE]
  /\ services' = [i \in DOMAIN services |->
                    IF services[i].folder = f THEN [services[i] EXCEPT !.folder = 0]
                                              ELSE services[i]]
  /\ UNCHANGED <<page, last, work, met, dropped, heard>>

-----------------------------------------------------------------------------
(* The services step of the setup                                          *)

(* The names to create: once each, none already followed.                  *)
NewNames(form) ==
  LET keep(names, n) ==
        IF \/ \E i \in DOMAIN names : AsciiLower(names[i]) = AsciiLower(n)
           \/ \E i \in DOMAIN services : AsciiLower(services[i].name) = AsciiLower(n)
        THEN names ELSE Append(names, n)
  IN  FoldLeft(keep, <<>>, form.names)

Task(name) == [name |-> name, group |-> 0, called |-> NoName, folder |-> [kind |-> "refused", id |-> 0]]

SaveServices(w, form) ==
  LET names == NewNames(form) IN
  /\ Begin(w, "setup", [i \in DOMAIN names |-> Task(names[i])], form)
  /\ UNCHANGED <<services, folders, page, last, dropped, heard>>

(* The check of the service just created is saved in a statement of its    *)
(* own.                                                                    *)
SetCheck(w) ==
  /\ work[w].checking # 0
  /\ services' = [services EXCEPT ![work[w].checking].check = TRUE]
  /\ work' = [work EXCEPT ![w].checking = 0]
  /\ UNCHANGED <<folders, page, last, runs, met, dropped, heard>>

(* A name that no service may have stops the step where it stands.         *)
SetupRefused(w) ==
  /\ work[w].does = "setup" /\ work[w].todo # <<>> /\ work[w].checking = 0
  /\ ~Takes(Head1(w).name)
  /\ Stopped(w)
  /\ UNCHANGED <<services, folders, page, last, runs, met, dropped, heard>>

SetupEnds(w) ==
  /\ work[w].does = "setup" /\ work[w].todo = <<>> /\ work[w].checking = 0
  /\ work' = [work EXCEPT ![w] = [NoWork EXCEPT !.does = "set up", !.run = work[w].run,
                                                !.about = work[w].about]]
  /\ UNCHANGED <<services, folders, page, last, runs, met, dropped, heard>>

-----------------------------------------------------------------------------
(* Requests let in by their key                                            *)

Busy(c) == calls' = [calls EXCEPT ![c].at = "busy"]

(* A new service is public, outside any folder.                            *)
CallCreate(c, name) ==
  /\ calls[c].at = "in" /\ Takes(name)
  /\ Begin(c, "call", <<Task(name)>>, <<>>)
  /\ Busy(c)
  /\ UNCHANGED <<keyring, services, folders, page, last, dropped, heard>>

(* A new name: the slug stays the one the service was created with.        *)
CallUpdate(c, i, name) ==
  /\ calls[c].at = "in" /\ i \in DOMAIN services /\ Takes(name) /\ services[i].name # name
  /\ runs < MaxRuns /\ runs' = runs + 1
  /\ services' = [services EXCEPT ![i].name = name, ![i].renamed = TRUE]
  /\ dropped' = dropped \cup {Lower(services[i].name)}
  /\ Busy(c)
  /\ UNCHANGED <<keyring, folders, page, last, work, met, heard>>

(* The format is known by the fields of the body.                          *)
Read(body) ==
  CASE IsAlertmanager(body) -> ReadAlertmanager(body)
    [] ~IsAlertmanager(body) /\ IsKuma(body) -> ReadKuma(body)
    [] ~IsAlertmanager(body) /\ ~IsKuma(body) /\ IsStatup(body) /\ StatupUsable(body) ->
         ReadStatup(body)
    [] OTHER -> NoReading

(* A report: each signal goes to the first service that answers, or is     *)
(* refused.                                                                *)
Receive(c, body) ==
  LET reading == Read(body) IN
  /\ calls[c].at = "in" /\ runs < MaxRuns /\ runs' = runs + 1
  /\ heard' = [body |-> body, reading |-> reading,
               reached |-> [i \in DOMAIN reading.signals |-> Target(reading.signals[i].service)]]
  /\ Busy(c)
  /\ UNCHANGED <<keyring, services, folders, page, last, work, met, dropped>>

(* The answer is sent; a call that only reads has nothing to do before.    *)
CallEnds(c) ==
  /\ calls[c].at \in {"in", "busy"} /\ work[c].todo = <<>>
  /\ calls' = [calls EXCEPT ![c] = NoCall]
  /\ work' = [work EXCEPT ![c] = NoWork]
  /\ UNCHANGED <<keyring, services, folders, page, last, runs, met, dropped, heard>>

-----------------------------------------------------------------------------
(* The keys page, and a request presenting its key.                        *)
KeyStep ==
  \/ /\ \/ \E a \in Admins, n \in KeyNames : CreateKeyStart(a, n)
        \/ \E k \in 1..MaxKeys : Regenerate(k) \/ Revoke(k)
     /\ runs < MaxRuns /\ runs' = runs + 1
     /\ UNCHANGED <<services, folders, page, last, work, met, dropped, heard>>
  \/ /\ \/ \E a \in Admins : CreateKeyFinish(a)
        \/ \E c \in Calls : (\E x \in 0..secrets : Present(c, x)) \/ Touch(c)
        \/ MinutePasses
     /\ UNCHANGED intake

WorkStep(w) ==
  \/ FindSlug(w) \/ InsertService(w)
  \/ /\ w \in Workers
     /\ \/ OpenFolder(w) \/ ImportEnds(w) \/ Cut(w)
        \/ SetCheck(w) \/ SetupRefused(w) \/ SetupEnds(w)

Start ==
  \/ \E w \in Workers : \/ \E t \in SUBSET GroupNames \ {{}} : ImportGroups(w, t)
                         \/ \E f \in SetupForms : SaveServices(w, f)
  \/ \E p \in PageVersions : KumaChanges(p)
  \/ \E f \in DOMAIN folders : DeleteFolder(f)

CallStep(c) ==
  \/ \E n \in Names : CallCreate(c, n)
  \/ \E i \in DOMAIN services, n \in Names : CallUpdate(c, i, n)
  \/ \E b \in ReportBodies : Receive(c, b)
  \/ CallEnds(c)

Next ==
  \/ KeyStep
  \/ (\E w \in Actors : WorkStep(w)) /\ UNCHANGED <<keyring, calls>>
  \/ Start /\ UNCHANGED <<keyring, calls>>
  \/ \E c \in Calls : CallStep(c)

Spec == Init /\ [][Next]_vars

-----------------------------------------------------------------------------
(* Properties                                                              *)

Met(r, s) == {r, s} \in met

(* The shape of the state; no two services share a slug, and a service     *)
(* stands in a folder that exists.                                         *)
TypeOK ==
  /\ KeysTypeOK
  /\ Len(services) <= MaxServices /\ runs \in 0..MaxRuns
  /\ \A i, j \in DOMAIN services : services[i].slug = services[j].slug => i = j
  /\ \A i \in DOMAIN services : services[i].folder # 0 => folders[services[i].folder].there
  /\ \A w \in Actors : work[w].does = "nothing" => work[w] = NoWork

(* Once an import is over, Kuma's report on any monitor of the groups      *)
(* ticked finds a service, unless its name was given away since            *)
(* (kuma_import/import.rs: under the same names).                          *)
ReportsFindWhatWasImported ==
  \A w \in Workers : work[w].does = "imported" =>
    \A i \in DOMAIN work[w].about : \A j \in DOMAIN work[w].about[i].monitors :
      LET m == work[w].about[i].monitors[j]
          read == ReadKuma([heartbeat |-> "0", monitor |-> m])
      IN  Takes(m) /\ Lower(m) \notin dropped => Target(read.signals[1].service) # 0

(* Running an import or the setup's step again adds only what is new, even *)
(* after one that was cut short: two services for one name come only from  *)
(* operations that were under way together.                                *)
AddsOnlyWhatIsNew ==
  \A i, j \in DOMAIN services :
    LET s == services[i]
        t == services[j]
    IN  i < j /\ ~s.renamed /\ ~t.renamed =>
          \/ Met(s.run, t.run)
          \/ /\ t.by = "import" => ~AnswersTo(s, t.name)
             /\ t.by = "setup" => AsciiLower(s.name) # AsciiLower(t.name)

(* A folder's name is created once by imports that follow one another.     *)
FoldersOnce ==
  \A f, g \in DOMAIN folders :
    f < g /\ folders[f].there /\ folders[g].there /\ Lower(folders[f].name) = Lower(folders[g].name)
      => Met(folders[f].run, folders[g].run)

(* When the setup's step succeeds, each service it created is checked      *)
(* exactly when its form asked so (routes/setup.rs: create_services).      *)
ChecksGoWithTheirNames ==
  \A w \in Workers : work[w].does = "set up" =>
    \A i \in DOMAIN services :
      services[i].run = work[w].run /\ ~services[i].renamed =>
        (services[i].check <=> \E n \in work[w].about.checks :
                                 AsciiLower(n) = AsciiLower(services[i].name))

(* A request that came after a key was revoked or given another secret     *)
(* creates nothing with the old one (api_key_service.rs: the old secret    *)
(* stops working at once).                                                 *)
StoppedSecretsStayOut ==
  /\ \A i \in DOMAIN services : ~services[i].late
  /\ \A c \in Calls : ~calls[c].late

(* Every alert of a report ends in one place: a signal about a service     *)
(* that is named, or the count of those ignored.                           *)
EveryAlertCounts ==
  "alerts" \in DOMAIN heard.body =>
    /\ Len(heard.reading.signals) + heard.reading.ignored = Len(heard.body.alerts)
    /\ \A i \in DOMAIN heard.reading.signals :
         heard.reading.signals[i].service \notin {Missing, Blank}

(* However often and however far imports and setups run, the services are  *)
(* there once, found by their reports and checked as asked; keys that      *)
(* stopped create nothing, and every alert is told or counted.             *)
ImportsAddOnlyWhatIsNew ==
  /\ KeysInUseAreTold /\ ReportsFindWhatWasImported /\ AddsOnlyWhatIsNew /\ FoldersOnce
  /\ ChecksGoWithTheirNames /\ StoppedSecretsStayOut /\ EveryAlertCounts
=============================================================================
