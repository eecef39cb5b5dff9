----------------------------- MODULE CheckForms ------------------------------
(***************************************************************************)
(* The monitoring fields of a service form: how a saved check is shown,    *)
(* what the fields typed are read as, what the Test button finds before    *)
(* anything is saved, and what a check of the saved address finds later.   *)
(*                                                                         *)
(* A host is a sequence of its parts: names, colons and brackets.  A port  *)
(* target is the host, a colon and the port, as it is stored.  What the    *)
(* network does is a world: whose fault it is that an address does not     *)
(* answer, and the chain of errors the network libraries word it with.     *)
(***************************************************************************)
EXTENDS Naturals, Sequences, SequencesExt

CONSTANTS Editors,     \* members with a service form open
          Typing,      \* changes to one field of the form
          Parts,       \* what a target is written of: names, ports, colons, brackets
          Worlds,      \* what the network does
          DefaultAfter, MaxAfter, \* minutes before an outage: default, largest
          MaxActs      \* bound on what the editors do

VARIABLES saved,   \* the service: its name, its check and its delay
          form,    \* what each editor has before them
          told,    \* what the last test or check said, to each
          world, acts

fieldVars == <<saved, form, told, world, acts>>

NoCheck == [kind |-> "none", target |-> <<>>, cert |-> FALSE]
NoForm == [step |-> "closed"]
Nothing == [asked |-> NoCheck, tone |-> "none", after |-> 0]
Check(kind, target, cert) == [kind |-> kind, target |-> target, cert |-> cert]

-----------------------------------------------------------------------------
(* The fields                                                              *)

Blank == [name |-> "name", kind |-> "none", url |-> <<>>, host |-> <<>>, port |-> "",
          cert |-> FALSE, after |-> <<>>]

ASSUME FieldsAssumption ==
  /\ MaxAfter \in Nat /\ DefaultAfter \in 1..MaxAfter /\ MaxActs \in Nat
  /\ {"[", "]", ":", "22", "65535"} \subseteq Parts
  /\ \A change \in Typing :
       /\ change.field \in DOMAIN Blank
       /\ change.field = "host" => change.value \in Seq(Parts)

(* The brackets around a host go, however many there are.                  *)
WithoutBrackets(host) ==
  LET kept == {i \in DOMAIN host : /\ \E j \in 1..i : host[j] # "["
                                   /\ \E j \in i..Len(host) : host[j] # "]"}
  IN  IF kept = {} THEN <<>>
      ELSE SubSeq(host, CHOOSE i \in kept : \A j \in kept : i <= j,
                        CHOOSE i \in kept : \A j \in kept : j <= i)

(* A stored target is cut at its last colon.                               *)
SplitTargetAtFirst(target) ==
  LET cut == CHOOSE i \in DOMAIN target : target[i] = ":" /\ \A j \in 1..(i - 1) : target[j] # ":"
  IN  [host |-> WithoutBrackets(SubSeq(target, 1, cut - 1)), port |-> target[cut + 1]]
SplitTarget(target) ==
  [host |-> WithoutBrackets(SubSeq(target, 1, Len(target) - 2)), port |-> target[Len(target)]]
JoinTarget(host, port) ==
  LET bare == WithoutBrackets(host)
  IN  (IF Contains(bare, ":") THEN <<"[">> \o bare \o <<"]">> ELSE bare) \o <<":", port>>

(* The fields a saved service opens the form with.                         *)
FromSaved(s) ==
  LET delay == [Blank EXCEPT !.name = s.name, !.kind = s.check.kind, !.after = <<s.after>>]
      parts == SplitTarget(s.check.target)
  IN
  CASE s.check.kind = "http" -> [delay EXCEPT !.url = s.check.target, !.cert = s.check.cert]
    [] s.check.kind = "tcp" -> [delay EXCEPT !.host = parts.host, !.port = parts.port]
    [] OTHER -> delay

PortAllowed(port) == port \in {"22", "65535"}
WebTargetAllowed(url) == url # <<>> /\ Head(url) \in {"http", "https"} /\ Len(url) = 2
PortTargetAllowed(target) ==
  LET host == SubSeq(target, 1, Len(target) - 2) IN
  /\ host # <<>> /\ PortAllowed(target[Len(target)]) /\ ~Contains(host, "/")
  /\ Contains(host, ":") => host[1] = "[" /\ host[Len(host)] = "]"

(* What to check, read from the fields of the chosen kind alone.           *)
ParseCheck(f) ==
  CASE f.kind = "http" -> Check("http", f.url, f.cert)
    [] f.kind = "tcp" -> Check("tcp", JoinTarget(f.host, f.port), FALSE)
    [] OTHER -> NoCheck
CheckAllowed(f) ==
  CASE f.kind = "http" -> WebTargetAllowed(f.url)
    [] f.kind = "tcp" -> /\ f.host # <<>> /\ PortAllowed(f.port)
                         /\ PortTargetAllowed(JoinTarget(f.host, f.port))
    [] OTHER -> TRUE

OutageAfter(f) == IF f.after = <<>> THEN DefaultAfter ELSE Head(f.after)
DelayAllowed(f) == f.after # <<>> => Head(f.after) \in 1..MaxAfter

(* The delay is only read of a service that is monitored.                  *)
MonitoringAllowed(f) == CheckAllowed(f) /\ (f.kind # "none" => DelayAllowed(f))
Allowed(f) == MonitoringAllowed(f) /\ f.name # ""

-----------------------------------------------------------------------------
(* What a check finds                                                      *)

(* The words a failed lookup is known by, anywhere in the chain.           *)
Lookups == {"dns error", "failed to lookup address", "name or service not known"}
Silences == {"try again", "temporary failure in name resolution"}
Texts(chain) == UNION {chain[i].text : i \in DOMAIN chain}
ClassifyLookup(texts) ==
  CASE texts \cap Lookups = {} -> "unreachable"
    [] texts \cap Lookups # {} /\ texts \cap Silences # {} -> "name_server_silent"
    [] OTHER -> "name_not_found"

ClassifyIoKind(io) ==
  CASE io = "refused" -> "refused" [] io = "timed_out" -> "timed_out"
    [] io \in {"network_unreachable", "network_down"} -> "no_route"
    [] OTHER -> "none"

(* The first cause that says why; a failed lookup on the whole chain.      *)
Says(link) == ClassifyIoKind(link.io) # "none" \/ "certificate" \in link.text
ClassifyChain(chain) ==
  LET saying == {i \in DOMAIN chain : Says(chain[i])}
      first == chain[CHOOSE i \in saying : \A j \in saying : i <= j]
  IN
  IF saying = {} THEN ClassifyLookup(Texts(chain))
  ELSE IF ClassifyIoKind(first.io) # "none" THEN ClassifyIoKind(first.io) ELSE "certificate"
ClassifyHttp(w) ==
  CASE w.truth = "silent_server" -> "timed_out"
    [] w.truth = "redirects" -> "too_many_redirects"
    [] OTHER -> ClassifyChain(w.web)
ClassifyIo(link) ==
  IF ClassifyIoKind(link.io) # "none" THEN ClassifyIoKind(link.io) ELSE ClassifyLookup(link.text)

(* How the libraries word each trouble: a network that cannot be reached   *)
(* has a kind of its own, which the first of its chain to say why has, and *)
(* only a name server that is silent has the words of a lookup together    *)
(* with those of one that may be tried again.                              *)
LosesTheNetwork(link) == ClassifyIoKind(link.io) = "no_route"
SaysSilence(texts) == texts \cap Lookups # {} /\ texts \cap Silences # {}
ASSUME WorldsAreWorded ==
  \A w \in Worlds :
    /\ Len(w.web) \in Nat /\ DOMAIN w.web = 1..Len(w.web)
    /\ w.truth = "no_route" =>
         /\ LosesTheNetwork(w.port)
         /\ \E i \in DOMAIN w.web :
              LosesTheNetwork(w.web[i]) /\ \A j \in 1..(i - 1) : ~Says(w.web[j])
    /\ w.truth # "no_route" =>
         ~LosesTheNetwork(w.port) /\ \A i \in DOMAIN w.web : ~LosesTheNetwork(w.web[i])
    /\ w.truth = "resolver_silent" <=>
         SaysSilence(Texts(w.web)) /\ \A i \in DOMAIN w.web : ~Says(w.web[i])
    /\ w.truth = "resolver_silent" <=>
         SaysSilence(w.port.text) /\ ClassifyIoKind(w.port.io) = "none"

FirstServerError == 500
ClassifyStatus(status) == IF status >= FirstServerError THEN "server_error" ELSE "answered"

(* A certificate refused is accepted of an internal tool.                  *)
ProbeHttp(cert, w) ==
  IF w.truth = "answers" \/ (w.truth = "certificate" /\ cert)
  THEN ClassifyStatus(w.status) ELSE ClassifyHttp(w)
ProbeTcp(w) ==
  CASE w.truth \in {"answers", "certificate", "redirects"} -> "answered"
    [] w.truth = "silent_server" -> "timed_out"
    [] OTHER -> ClassifyIo(w.port)
Examine(check, w) ==
  IF check.kind = "http" THEN ProbeHttp(check.cert, w) ELSE ProbeTcp(w)

Outcome(finding) == IF finding = "answered" THEN "answered" ELSE "failed"
IsNetworkLoss(finding) == finding \in {"name_server_silent", "no_route"}

Verdict(finding) == IF finding = "answered" THEN "ok" ELSE "crit"

-----------------------------------------------------------------------------
(* The editors                                                             *)

Act == acts < MaxActs /\ acts' = acts + 1

FieldsInit ==
  /\ saved = [name |-> "name", check |-> NoCheck, after |-> DefaultAfter]
  /\ form = [e \in Editors |-> NoForm] /\ told = [e \in Editors |-> Nothing]
  /\ world \in Worlds /\ acts = 0

EditForm(e) ==
  /\ form[e] = NoForm /\ Act
  /\ form' = [form EXCEPT ![e] =
       [step |-> "open", fields |-> FromSaved(saved), of |-> saved, touched |-> FALSE,
        refused |-> FALSE]]
  /\ UNCHANGED <<saved, told, world>>

Type(e, change) ==
  /\ form[e].step = "open" /\ form[e].fields[change.field] # change.value /\ Act
  /\ form' = [form EXCEPT ![e].fields[change.field] = change.value, ![e].touched = TRUE,
                          ![e].refused = FALSE]
  /\ UNCHANGED <<saved, told, world>>

(* The Test button runs the check the form describes and saves nothing.    *)
TestCheck(e) ==
  LET f == form[e].fields IN
  /\ form[e].step = "open" /\ f.kind # "none" /\ MonitoringAllowed(f) /\ Act
  /\ told' = [told EXCEPT ![e] = [asked |-> ParseCheck(f), tone |-> Verdict(Examine(ParseCheck(f), world)),
                                  after |-> OutageAfter(f)]]
  /\ UNCHANGED <<saved, form, world>>

(* The form is read whole before anything is saved; a refusal shows it     *)
(* again as typed.  The name, the check and the delay are then three       *)
(* statements, and another editor's may come in between.                   *)
Save(e) ==
  LET f == form[e].fields IN
  /\ form[e].step = "open" /\ Act
  /\ IF Allowed(f)
     THEN /\ saved' = [saved EXCEPT !.name = f.name]
          /\ form' = [form EXCEPT ![e].step = "named"]
     ELSE /\ form' = [form EXCEPT ![e].refused = TRUE]
          /\ UNCHANGED saved
  /\ UNCHANGED <<told, world>>
SetCheck(e) ==
  LET f == form[e].fields IN
  /\ form[e].step = "named"
  /\ saved' = [saved EXCEPT !.check = ParseCheck(f)]
  /\ form' = [form EXCEPT ![e].step = IF f.kind = "none" THEN "saved" ELSE "checked"]
  /\ UNCHANGED <<told, world, acts>>
SetOutageAfter(e) ==
  /\ form[e].step = "checked"
  /\ saved' = [saved EXCEPT !.after = OutageAfter(form[e].fields)]
  /\ form' = [form EXCEPT ![e].step = "saved"]
  /\ UNCHANGED <<told, world, acts>>
Leave(e) ==
  /\ form[e].step \in {"open", "saved"}
  /\ form' = [form EXCEPT ![e] = NoForm]
  /\ told' = [told EXCEPT ![e] = Nothing]
  /\ UNCHANGED <<saved, world, acts>>

FieldsNext ==
  \/ \E e \in Editors :
       \/ EditForm(e) \/ TestCheck(e) \/ Save(e) \/ SetCheck(e) \/ SetOutageAfter(e) \/ Leave(e)
       \/ \E change \in Typing : Type(e, change)

FieldsSpec == FieldsInit /\ [][FieldsNext]_fieldVars

-----------------------------------------------------------------------------
(* Properties                                                              *)

(* A form saved as it was shown saves the check and the delay it was       *)
(* opened on, whatever the address: a port target split into its fields    *)
(* and joined again is the same target (checks.rs: split_target,           *)
(* join_target).                                                           *)
UntouchedFormSavesTheSame ==
  \A e \in Editors : form[e] # NoForm /\ ~form[e].touched =>
    /\ Allowed(form[e].fields)
    /\ ParseCheck(form[e].fields) = form[e].of.check
    /\ OutageAfter(form[e].fields) = form[e].of.after

(* What the Test button says of a check, green or red, is what the rounds  *)
(* will count of it once it is saved (checks.rs: "green for what the       *)
(* monitoring counts as an answer, red for a failure").                    *)
TestSaysWhatRoundsCount ==
  \A e \in Editors : told[e] # Nothing /\ told[e].asked = saved.check =>
    (told[e].tone = "ok" <=> Outcome(Examine(saved.check, world)) = "answered")

(* A failure of Statup's own network, a name server that does not answer   *)
(* or no route at all, is known for one from the chain of errors, and no   *)
(* other failure is taken for one (probe.rs: is_network_loss).             *)
OwnNetworkIsKnown ==
  saved.check # NoCheck =>
    (IsNetworkLoss(Examine(saved.check, world)) <=> world.truth \in {"resolver_silent", "no_route"})

(* The monitoring fields mean one thing to the form, to its Test button    *)
(* and to the rounds (checks.rs, probe.rs).                                *)
MonitoringFieldsAreRight == UntouchedFormSavesTheSame /\ TestSaysWhatRoundsCount /\ OwnNetworkIsKnown
=============================================================================
