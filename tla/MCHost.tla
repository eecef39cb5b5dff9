------------------------------- MODULE MCHost -------------------------------
(***************************************************************************)
(* An instance and what fills it: its database, uploads, backups and       *)
(* restores (Instance), and the import, the first setup and the calls of   *)
(* API keys its services come from (Intake). A behaviour takes the steps   *)
(* of one of the two.                                                      *)
(***************************************************************************)
EXTENDS Instance, TLC

CONSTANTS IntakeWorkers, IntakeAdmins  \* interchangeable

SmallSchedules ==
  {[frequency |-> "daily", keep |-> 2, wanted |-> FALSE],
   [frequency |-> "off", keep |-> 1, wanted |-> TRUE]}

(* Names that differ by their case, by an accent's case, or only once they *)
(* are slugs.                                                              *)
MCNames == {"Web Site", "WEB SITE", "web-site", "Mail", "long"}
MCLower(n) ==
  CASE n \in {"Web Site", "WEB SITE"} -> "web site"
    [] n = "Mail" -> "mail"
    [] n \in {"Prod", "prod"} -> "prod"
    [] n \in {"bot", "BOT"} -> "bot"
    [] OTHER -> n
MCAsciiLower(n) == MCLower(n)
MCSlug(n) == IF MCLower(n) = "web site" THEN "web-site" ELSE MCLower(n)
MCTakes(n) == n \notin {"long", "blank"}

PageOne == <<[name |-> "Prod", monitors |-> <<"Web Site", "web-site">>],
             [name |-> "prod", monitors |-> <<"WEB SITE", "long", "Mail">>]>>
PageTwo == <<[name |-> "blank", monitors |-> <<"Mail", "Web Site">>],
             [name |-> "prod", monitors |-> <<"web-site", "Web Site">>]>>

MCForms == {[names |-> <<"Mail", "WEB SITE", "long">>, checks |-> {}],
            [names |-> <<"Web Site", "Mail", "WEB SITE">>, checks |-> {"WEB SITE"}]}

Alert(status, service) == [status |-> status, service |-> service, words |-> "cpu"]
MCBodies ==
  {[alerts |-> <<Alert("firing", "Web Site"), Alert("resolved", "missing"), Alert("unknown", "Mail")>>],
   [alerts |-> <<Alert("resolved", "web-site"), Alert("firing", "blank")>>],
   [heartbeat |-> "0", monitor |-> "Mail"], [heartbeat |-> "null", monitor |-> "missing"],
   [heartbeat |-> "2", monitor |-> "Mail"],
   [service |-> "Mail", state |-> "up", message |-> "blank"], [service |-> "Mail", state |-> "blank"]}

HostSymmetry == Permutations(IntakeWorkers) \cup Permutations(IntakeAdmins)

VARIABLES
  part,  \* the module whose steps are taken
  inKeys, inMaking, inSecrets, inStopped, inCalls, inServices, inFolders,
  inPage, inLast, inWork, inRuns, inMet, inDropped, inHeard

In == INSTANCE Intake WITH
  Workers <- IntakeWorkers, Calls <- {"c1"}, Admins <- IntakeAdmins,
  KeyNames <- {"bot", "BOT"}, Lower <- MCLower, AsciiLower <- MCAsciiLower,
  Slug <- MCSlug, Takes <- MCTakes, Names <- MCNames,
  PageVersions <- {PageOne, PageTwo}, SetupForms <- MCForms,
  ReportBodies <- MCBodies, MaxKeys <- 2, MaxSecrets <- 2, MaxServices <- 4,
  MaxRuns <- 3, keys <- inKeys, making <- inMaking, secrets <- inSecrets,
  stopped <- inStopped, calls <- inCalls, services <- inServices,
  folders <- inFolders, page <- inPage, last <- inLast, work <- inWork,
  runs <- inRuns, met <- inMet, dropped <- inDropped, heard <- inHeard

intakeVars == <<inKeys, inMaking, inSecrets, inStopped, inCalls, inServices,
  inFolders, inPage, inLast, inWork, inRuns, inMet, inDropped, inHeard>>
allVars == <<part, vars, intakeVars>>

MCInit ==
  /\ part \in {"instance", "intake"}
  /\ Init /\ In!Init
  /\ part # "instance" => db = NoDatabase
  /\ part # "intake" => inPage = PageOne

MCNext ==
  \/ part = "instance" /\ Next /\ UNCHANGED <<part, intakeVars>>
  \/ part = "intake" /\ In!Next /\ UNCHANGED <<part, vars>>

MCSpec == MCInit /\ [][MCNext]_allVars

-----------------------------------------------------------------------------
(* Properties                                                              *)

(* Run again, an import or the setup adds only what is new, groups of one  *)
(* name are one folder and a report finds what was imported; keys in use   *)
(* never share a name, a stopped secret creates nothing, and every alert   *)
(* of a grouped body counts once (fate_of, merge_same_names,               *)
(* find_by_name_or_slug, api_key_service, take).                           *)
ImportsAddOnlyWhatIsNew == part = "intake" => In!ImportsAddOnlyWhatIsNew

=============================================================================
