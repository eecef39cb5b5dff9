------------------------------ MODULE Catalogue ------------------------------
(***************************************************************************)
(* The catalogue: services, the folders they stand in, the groups of       *)
(* readers, and who sees each service.                                     *)
(*                                                                         *)
(* A setting says who sees a service or a folder: everyone, the members,   *)
(* or only some groups and some readers by name.  A service that follows   *)
(* its folder carries a copy of the folder's setting, and the read rule    *)
(* never looks at folders (repositories/folder_repo.rs), so every write    *)
(* that touches a folder must hand the copy down.  Every repository        *)
(* function is one transaction, hence one action here; the two handlers    *)
(* that read in one statement and write in another (the service form and   *)
(* the deletion of a service) are two actions each, with the state they    *)
(* carry in between in `held'.                                             *)
(*                                                                         *)
(* Left out: names and slugs, the order of services and folders, the       *)
(* journal.  Row ids are never reused (AUTOINCREMENT), so a deleted        *)
(* service does not come back under its id: `born' remembers them.         *)
(***************************************************************************)
EXTENDS FiniteSets, Naturals

CONSTANTS Services, Folders, Groups, Users, Events,
          Posted  \* the settings the forms post

VARIABLES
  known,    \* the services that exist
  born,     \* the service ids ever given
  setting,  \* who sees each service: services.visibility and its access rows
  folderOf, \* the folder of each service, or NoFolder
  follows,  \* the services that follow their folder
  dirs,     \* the folders that exist
  dir,      \* who sees each folder
  groups,   \* the groups that exist
  belongs,  \* the members of each group
  standing, \* each account: an active reader, a disabled one, or the team
  named,    \* the services each event concerns
  posted,   \* the events published
  held      \* the handler caught between its read and its write

rows == <<known, born, setting, folderOf, follows>>
team == <<dirs, dir, groups, belongs>>
news == <<named, posted>>
catalogue == <<rows, team, standing, news, held>>

NoFolder == "none"
Idle == [does |-> "nothing"]

Setting == [mode : {"everyone", "members", "groups"},
            groups : SUBSET Groups, members : SUBSET Users]

EVERYONE == [mode |-> "everyone", groups |-> {}, members |-> {}]

(* The readers a grant may name: active, and not of the team.              *)
ActiveReaders == {u \in Users : standing[u] = "reader"}

(* The fields of a form: grants only count for a restricted choice.        *)
FromForm(mode, gs, us) ==
  IF mode = "groups" THEN [mode |-> mode, groups |-> gs, members |-> us]
                     ELSE [EVERYONE EXCEPT !.mode = mode]

(* What replace_grants keeps of the grants asked for: the groups that      *)
(* exist and the active readers.                                           *)
ReplaceGrants(a) ==
  [a EXCEPT !.groups = a.groups \cap groups, !.members = a.members \cap ActiveReaders]

(* The active readers a setting reaches.                                   *)
ReadersReached(a) ==
  {u \in ActiveReaders : u \in a.members \/ \E g \in a.groups \cap groups : u \in belongs[g]}

(* A restricted choice needs a group that exists or an active reader.      *)
Check(a) ==
  a.mode = "groups" => ReadersReached(a) # {} \/ a.groups \cap groups # {}

(* The forms post what FromForm makes of their fields.                     *)
ASSUME PostedByForms ==
  Posted \subseteq {FromForm(m, gs, us) : m \in {"everyone", "members", "groups"},
                                         gs \in SUBSET Groups, us \in SUBSET Users}

(* No folder has the id that stands for none.                              *)
ASSUME NoFolderIsNone == NoFolder \notin Folders

TypeOK ==
  /\ known \subseteq born /\ born \subseteq Services
  /\ setting \in [Services -> Setting]
  /\ folderOf \in [Services -> dirs \cup {NoFolder}]
  /\ follows \subseteq {s \in known : folderOf[s] # NoFolder}
  /\ dirs \subseteq Folders /\ groups \subseteq Groups
  /\ dir \in [Folders -> Setting]
  /\ belongs \in [Groups -> SUBSET Users]
  /\ standing \in [Users -> {"reader", "disabled", "staff"}]
  /\ posted \subseteq Events /\ named \in [Events -> SUBSET known]
  /\ \A s \in Services : setting[s].groups \subseteq groups

Init ==
  /\ known = {} /\ born = {} /\ follows = {}
  /\ setting = [s \in Services |-> EVERYONE]
  /\ folderOf = [s \in Services |-> NoFolder]
  /\ dirs = {} /\ dir = [f \in Folders |-> EVERYONE]
  /\ groups = {} /\ belongs = [g \in Groups |-> {}]
  /\ standing = [u \in Users |-> "reader"]
  /\ posted = {} /\ named = [e \in Events |-> {}]
  /\ held = Idle

-----------------------------------------------------------------------------
(* Services                                                                *)

(* A row with its grants, written in one transaction.                      *)
CreateFor(s, a) ==
  /\ s \notin born
  /\ born' = born \cup {s} /\ known' = known \cup {s}
  /\ setting' = [setting EXCEPT ![s] = ReplaceGrants(a)]
  /\ UNCHANGED <<folderOf, follows, team, standing, news, held>>

(* The form of a new service: refused when it restricts it to nobody.      *)
CreateService(s, a) == Check(a) /\ CreateFor(s, a)

(* The API, the first setup and an import create public services.          *)
CreatePublic(s) == CreateFor(s, EVERYONE)

(* A service created inside a folder, following it from the start.         *)
CreateInFolder(f, s) ==
  /\ f \in dirs /\ s \notin born
  /\ born' = born \cup {s} /\ known' = known \cup {s}
  /\ folderOf' = [folderOf EXCEPT ![s] = f]
  /\ follows' = follows \cup {s}
  /\ setting' = [setting EXCEPT ![s] = dir[f]]
  /\ UNCHANGED <<team, standing, news, held>>

(* The form of a service: its folder is read, and the choice checked       *)
(* against it.                                                             *)
SaveEditStart(s, a, inherit) ==
  /\ held = Idle /\ s \in known
  /\ IF inherit THEN folderOf[s] # NoFolder /\ a = EVERYONE ELSE Check(a)
  /\ held' = [does |-> "edit", id |-> s, folder |-> folderOf[s],
              inherit |-> inherit, audience |-> a]
  /\ UNCHANGED <<rows, team, standing, news>>

(* A setting made on the service is its own: it stops following.           *)
SetVisibility(s, a) ==
  /\ setting' = IF s \in known THEN [setting EXCEPT ![s] = ReplaceGrants(a)] ELSE setting
  /\ follows' = follows \ {s}
  /\ UNCHANGED folderOf

(* The service follows the folder it was in when the form was read, unless *)
(* it has left it since: then nothing is written.                          *)
Follow(f, s) ==
  LET there == s \in known /\ folderOf[s] = f IN
  /\ follows' = IF there THEN follows \cup {s} ELSE follows
  /\ setting' = IF there THEN [setting EXCEPT ![s] = dir[f]] ELSE setting
  /\ UNCHANGED folderOf

(* The form saved: the folder's setting, or its own.  A service deleted    *)
(* since it was read is written nowhere.                                   *)
SaveEditFinish ==
  /\ held.does = "edit"
  /\ IF held.inherit THEN Follow(held.folder, held.id)
                     ELSE SetVisibility(held.id, held.audience)
  /\ held' = Idle
  /\ UNCHANGED <<known, born, team, standing, news>>

HasEvents(s) == \E e \in posted : s \in named[e]

(* Deleting a service: refused when an event names it.                     *)
DeleteStart(s) ==
  /\ held = Idle /\ s \in known /\ ~HasEvents(s)
  /\ held' = [does |-> "delete", id |-> s]
  /\ UNCHANGED <<rows, team, standing, news>>

(* event_services restricts the deletion of the service it names.          *)
RestrictedNever(s) == FALSE
Restricted(s) == HasEvents(s)

(* The row goes, unless an event was published on it since: the database   *)
(* then refuses.                                                           *)
DeleteFinish ==
  /\ held.does = "delete"
  /\ LET s == held.id IN
     IF Restricted(s) THEN UNCHANGED <<rows, news>>
     ELSE /\ known' = known \ {s} /\ follows' = follows \ {s}
          /\ setting' = [setting EXCEPT ![s] = EVERYONE]
          /\ folderOf' = [folderOf EXCEPT ![s] = NoFolder]
          /\ named' = [e \in Events |-> named[e] \ {s}]
          /\ UNCHANGED <<born, posted>>
  /\ held' = Idle
  /\ UNCHANGED <<team, standing>>

-----------------------------------------------------------------------------
(* Folders                                                                 *)

CreateFolder(f) ==
  /\ f \notin dirs /\ dirs' = dirs \cup {f}
  /\ dir' = [dir EXCEPT ![f] = EVERYONE]
  /\ UNCHANGED <<rows, groups, belongs, standing, news, held>>

(* The copy handed down to the services that follow the folder.            *)
Followers(f, fs) == {s \in fs : folderOf[s] = f}
CopyMode(f, a, fs) ==
  [s \in Services |-> IF s \in Followers(f, fs) THEN [setting[s] EXCEPT !.mode = a.mode]
                                                ELSE setting[s]]
CopySetting(f, a, fs) ==
  [s \in Services |-> IF s \in Followers(f, fs) THEN a ELSE setting[s]]

(* A folder already restricted to nobody keeps its setting, so that it can *)
(* still be renamed; the members no longer readers are left out of it.     *)
Shown(a) == [a EXCEPT !.members = a.members \cap ActiveReaders]
Checked(f, a) == Check(Shown(dir[f])) => Check(a)

SaveFolder(f, a) ==
  /\ f \in dirs /\ Checked(f, a)
  /\ dir' = [dir EXCEPT ![f] = ReplaceGrants(a)]
  /\ setting' = CopySetting(f, ReplaceGrants(a), follows)
  /\ UNCHANGED <<known, born, folderOf, follows, dirs, groups, belongs, standing, news, held>>

(* Whether two settings open to exactly the same groups and members.       *)
SameSetSkipped(a, b) == TRUE
SameSet(a, b) == a.groups = b.groups /\ a.members = b.members

(* A service moved into a folder follows it when everyone saw it, or when  *)
(* it already had exactly the folder's setting.                            *)
JoinsAsFollower(s, f) ==
  \/ setting[s].mode = "everyone"
  \/ setting[s].mode = dir[f].mode /\ SameSet(setting[s], dir[f])

AddServices(f, ss) ==
  LET joining == {s \in ss \cap known : folderOf[s] # f}
      heirs == {s \in joining : JoinsAsFollower(s, f)}
      now == (follows \ joining) \cup heirs
  IN /\ f \in dirs /\ joining # {}
     /\ follows' = now
     /\ folderOf' = [s \in Services |-> IF s \in joining THEN f ELSE folderOf[s]]
     /\ setting' = [s \in Services |->
          IF s \in now /\ (s \in joining \/ folderOf[s] = f) THEN dir[f] ELSE setting[s]]
     /\ UNCHANGED <<known, born, team, standing, news, held>>

(* Out of the folder, with the copy of its setting.                        *)
RemoveService(f, s) ==
  /\ f \in dirs /\ s \in known /\ folderOf[s] = f
  /\ folderOf' = [folderOf EXCEPT ![s] = NoFolder]
  /\ follows' = follows \ {s}
  /\ UNCHANGED <<known, born, setting, team, standing, news, held>>

DeleteFolder(f) ==
  /\ f \in dirs /\ dirs' = dirs \ {f}
  /\ dir' = [dir EXCEPT ![f] = EVERYONE]
  /\ folderOf' = [s \in Services |-> IF folderOf[s] = f THEN NoFolder ELSE folderOf[s]]
  /\ follows' = {s \in follows : folderOf[s] # f}
  /\ UNCHANGED <<known, born, setting, groups, belongs, standing, news, held>>

-----------------------------------------------------------------------------
(* Groups                                                                  *)

CreateGroup(g) ==
  /\ g \notin groups /\ groups' = groups \cup {g}
  /\ UNCHANGED <<rows, dirs, dir, belongs, standing, news, held>>

AddMembers(g, us) ==
  LET joining == (us \cap ActiveReaders) \ belongs[g] IN
  /\ g \in groups /\ joining # {}
  /\ belongs' = [belongs EXCEPT ![g] = @ \cup joining]
  /\ UNCHANGED <<rows, dirs, dir, groups, standing, news, held>>

RemoveMember(g, u) ==
  /\ g \in groups /\ u \in belongs[g]
  /\ belongs' = [belongs EXCEPT ![g] = @ \ {u}]
  /\ UNCHANGED <<rows, dirs, dir, groups, standing, news, held>>

Without(a, g) == [a EXCEPT !.groups = @ \ {g}]

(* The memberships and every access to the group go with it.               *)
DeleteGroup(g) ==
  /\ g \in groups /\ groups' = groups \ {g}
  /\ belongs' = [belongs EXCEPT ![g] = {}]
  /\ dir' = [f \in Folders |-> Without(dir[f], g)]
  /\ setting' = [s \in Services |-> Without(setting[s], g)]
  /\ UNCHANGED <<known, born, folderOf, follows, dirs, standing, news, held>>

(* Opening restricted folders and services to a group; the followers of a  *)
(* folder copy it.                                                         *)
OpenTo(g, fs, ss) ==
  LET opened == {f \in fs \cap dirs : dir[f].mode = "groups" /\ g \notin dir[f].groups}
      own == {s \in (ss \cap known) \ follows :
                setting[s].mode = "groups" /\ g \notin setting[s].groups}
      With(a) == [a EXCEPT !.groups = @ \cup {g}]
  IN /\ g \in groups /\ opened \cup own # {}
     /\ dir' = [f \in Folders |-> IF f \in opened THEN With(dir[f]) ELSE dir[f]]
     /\ setting' = [s \in Services |->
          IF s \in own THEN With(setting[s])
          ELSE IF s \in follows /\ folderOf[s] \in opened THEN With(dir[folderOf[s]])
          ELSE setting[s]]
     /\ UNCHANGED <<known, born, folderOf, follows, dirs, groups, belongs, standing, news, held>>

CloseFolder(g, f) ==
  /\ g \in groups /\ f \in dirs /\ g \in dir[f].groups
  /\ dir' = [dir EXCEPT ![f] = Without(@, g)]
  /\ setting' = CopySetting(f, Without(dir[f], g), follows)
  /\ UNCHANGED <<known, born, folderOf, follows, dirs, groups, belongs, standing, news, held>>

(* A service's own access; a follower keeps its folder's.                  *)
CloseService(g, s) ==
  /\ g \in groups /\ s \in known \ follows /\ g \in setting[s].groups
  /\ setting' = [setting EXCEPT ![s] = Without(@, g)]
  /\ UNCHANGED <<known, born, folderOf, follows, team, standing, news, held>>

-----------------------------------------------------------------------------
(* What other components change                                            *)

(* Roles and disabled accounts (module Accounts): grants and memberships   *)
(* stay in their tables.                                                   *)
ChangeStanding(u, new) ==
  /\ standing[u] # new
  /\ standing' = [standing EXCEPT ![u] = new]
  /\ UNCHANGED <<rows, team, news, held>>

(* An event published or edited names services that exist (module          *)
(* EventLifecycle has its life).                                           *)
NameServices(e, ss) ==
  /\ ss \subseteq known /\ (e \in posted => ss # named[e])
  /\ posted' = posted \cup {e}
  /\ named' = [named EXCEPT ![e] = ss]
  /\ UNCHANGED <<rows, team, standing, held>>

Change ==
  \/ \E s \in Services, a \in Posted : CreateService(s, a)
  \/ \E s \in Services : CreatePublic(s)
  \/ \E f \in Folders, s \in Services : CreateInFolder(f, s)
  \/ \E s \in Services, a \in Posted, i \in BOOLEAN : SaveEditStart(s, a, i)
  \/ SaveEditFinish
  \/ \E s \in Services : DeleteStart(s)
  \/ DeleteFinish
  \/ \E f \in Folders : CreateFolder(f)
  \/ \E f \in Folders, a \in Posted : SaveFolder(f, a)
  \/ \E f \in Folders, ss \in SUBSET Services : AddServices(f, ss)
  \/ \E f \in Folders, s \in Services : RemoveService(f, s)
  \/ \E f \in Folders : DeleteFolder(f)
  \/ \E g \in Groups : CreateGroup(g)
  \/ \E g \in Groups, us \in SUBSET Users : AddMembers(g, us)
  \/ \E g \in Groups, u \in Users : RemoveMember(g, u)
  \/ \E g \in Groups : DeleteGroup(g)
  \/ \E g \in Groups, fs \in SUBSET Folders, ss \in SUBSET Services : OpenTo(g, fs, ss)
  \/ \E g \in Groups, f \in Folders : CloseFolder(g, f)
  \/ \E g \in Groups, s \in Services : CloseService(g, s)
  \/ \E u \in Users, new \in {"reader", "disabled", "staff"} : ChangeStanding(u, new)
  \/ \E e \in Events, ss \in SUBSET Services : NameServices(e, ss)

-----------------------------------------------------------------------------
(* Properties                                                              *)

(* A service that follows its folder carries exactly the folder's setting: *)
(* the read rule never looks at folders, so a copy gone stale would show   *)
(* the service to the wrong people.                                        *)
FollowersMatchFolder ==
  \A s \in follows : setting[s] = dir[folderOf[s]]

(* Whether someone sees a service: an account, or a visitor who has none.  *)
MaySee(u, s) ==
  \/ setting[s].mode = "everyone"
  \/ u \in Users /\ standing[u] # "disabled"
     /\ \/ standing[u] = "staff" \/ setting[s].mode = "members"
        \/ u \in setting[s].members \/ \E g \in setting[s].groups : u \in belongs[g]

(* Moving a service into a folder, out of it, or deleting its folder never *)
(* shows it to anyone more.                                                *)
MovingShowsToNobodyNew ==
  [][\A s \in known \cap known' : folderOf'[s] # folderOf[s] =>
       \A u \in Users \cup {"visitor"} : MaySee(u, s)' => MaySee(u, s)]_catalogue

(* An event loses a service only when someone edits it: a service that     *)
(* disappeared from the list would open the event to everyone.             *)
EventsKeepTheirServices ==
  [][\A e \in posted : named'[e] # named[e] => known \subseteq known']_catalogue
=============================================================================
