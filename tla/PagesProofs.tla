---------------------------- MODULE PagesProofs ----------------------------
(***************************************************************************)
(* Proofs about Catalogue and Pages, for any sets of services, folders,    *)
(* groups, readers and events, and any settings the forms may post.        *)
(***************************************************************************)
EXTENDS Pages, FiniteSetTheorems, TLAPS

-----------------------------------------------------------------------------
(* The inductive invariant                                                 *)

(* A folder opens to groups that exist, as a service does.                 *)
FolderGroupsExist == \A f \in Folders : dir[f].groups \subseteq groups

(* What a handler carries from its read to its write.                      *)
HeldOK ==
  /\ held.does = "edit" =>
       /\ held.id \in Services /\ held.inherit \in BOOLEAN /\ held.audience \in Posted
       /\ held.inherit => held.folder # NoFolder
  /\ held.does = "delete" => held.id \in Services

CatalogueInv == TypeOK /\ FolderGroupsExist /\ HeldOK /\ FollowersMatchFolder

-----------------------------------------------------------------------------
(* Settings                                                                *)

\* The forms post settings.
LEMMA PostedAreSettings == Posted \subseteq Setting
<1> SUFFICES ASSUME NEW a \in Posted PROVE a \in Setting
  OBVIOUS
<1>1. PICK m \in {"everyone", "members", "groups"}, gs \in SUBSET Groups, us \in SUBSET Users :
        a = FromForm(m, gs, us)
  BY PostedByForms
<1> QED BY <1>1 DEF FromForm, EVERYONE, Setting

\* The setting of a new folder opens it to everyone, by no group.
LEMMA EveryoneIsASetting == EVERYONE \in Setting /\ EVERYONE.groups = {}
BY DEF EVERYONE, Setting

\* replace_grants writes a setting whose groups exist.
LEMMA GrantsKept ==
  ASSUME NEW a \in Setting
  PROVE  ReplaceGrants(a) \in Setting /\ ReplaceGrants(a).groups \subseteq groups
BY DEF ReplaceGrants, Setting

\* Without a group, a setting is a setting that no longer opens to it.
LEMMA WithoutIsASetting ==
  ASSUME NEW a \in Setting, NEW g
  PROVE  Without(a, g) \in Setting /\ Without(a, g).groups = a.groups \ {g}
BY DEF Without, Setting

-----------------------------------------------------------------------------
(* The catalogue keeps its invariant                                       *)

LEMMA InitialCatalogue == Init => CatalogueInv
BY EveryoneIsASetting
   DEF Init, CatalogueInv, TypeOK, FolderGroupsExist, HeldOK, FollowersMatchFolder, Idle

\* A service created on its own.
LEMMA CreateKeeps ==
  ASSUME CatalogueInv, NEW s \in Services, NEW a \in Setting, CreateFor(s, a)
  PROVE  CatalogueInv'
<1> USE DEF CatalogueInv
<1>1. TypeOK'
  BY GrantsKept DEF CreateFor, TypeOK, team, news
<1>2. (FolderGroupsExist /\ HeldOK)'
  BY DEF CreateFor, FolderGroupsExist, HeldOK, team
<1>3. FollowersMatchFolder'
  BY DEF CreateFor, FollowersMatchFolder, TypeOK, team
<1> QED BY <1>1, <1>2, <1>3

\* A service created in a folder starts with the folder's setting.
LEMMA CreateInFolderKeeps ==
  ASSUME CatalogueInv, NEW f \in Folders, NEW s \in Services, CreateInFolder(f, s)
  PROVE  CatalogueInv'
<1> USE DEF CatalogueInv
<1>1. TypeOK'
  BY NoFolderIsNone DEF CreateInFolder, TypeOK, FolderGroupsExist, team, news
<1>2. (FolderGroupsExist /\ HeldOK)'
  BY DEF CreateInFolder, FolderGroupsExist, HeldOK, team
<1>3. FollowersMatchFolder'
  BY DEF CreateInFolder, FollowersMatchFolder, TypeOK, team
<1> QED BY <1>1, <1>2, <1>3

\* The form of a service read.
LEMMA EditStartKeeps ==
  ASSUME CatalogueInv, NEW s \in Services, NEW a \in Posted, NEW i \in BOOLEAN,
         SaveEditStart(s, a, i)
  PROVE  CatalogueInv'
<1> USE DEF CatalogueInv
<1>1. (TypeOK /\ FolderGroupsExist /\ FollowersMatchFolder)'
  BY DEF SaveEditStart, TypeOK, FolderGroupsExist, FollowersMatchFolder, rows, team, news
<1>2. HeldOK'
  BY DEF SaveEditStart, HeldOK
<1> QED BY <1>1, <1>2

\* The form of a service saved: it follows the folder it is in, and carries
\* its setting, or it stops following.
LEMMA EditFinishKeeps ==
  ASSUME CatalogueInv, SaveEditFinish
  PROVE  CatalogueInv'
<1> USE DEF CatalogueInv
<1>1. /\ held.id \in Services /\ held.audience \in Setting
      /\ held.inherit => held.folder # NoFolder
  BY PostedAreSettings DEF SaveEditFinish, HeldOK
<1>2. (FolderGroupsExist /\ HeldOK)'
  BY DEF SaveEditFinish, FolderGroupsExist, HeldOK, Idle, team
<1>3. CASE held.inherit
  <2>1. CASE held.id \in known /\ folderOf[held.id] = held.folder
    <3>1. held.folder \in dirs
      BY <1>1, <1>3, <2>1 DEF TypeOK
    <3>2. TypeOK'
      BY <1>1, <1>3, <2>1, <3>1 DEF SaveEditFinish, Follow, TypeOK, FolderGroupsExist, team, news
    <3>3. FollowersMatchFolder'
      BY <1>1, <1>3, <2>1, <3>1 DEF SaveEditFinish, Follow, TypeOK, FollowersMatchFolder, team
    <3> QED BY <1>2, <3>2, <3>3
  <2>2. CASE ~(held.id \in known /\ folderOf[held.id] = held.folder)
    BY <1>2, <1>3, <2>2 DEF SaveEditFinish, Follow, TypeOK, FollowersMatchFolder, team, news
  <2> QED BY <2>1, <2>2
<1>4. CASE ~held.inherit
  <2>1. TypeOK'
    BY <1>1, <1>4, GrantsKept DEF SaveEditFinish, SetVisibility, TypeOK, team, news
  <2>2. FollowersMatchFolder'
    BY <1>1, <1>4 DEF SaveEditFinish, SetVisibility, TypeOK, FollowersMatchFolder, team
  <2> QED BY <1>2, <2>1, <2>2
<1> QED BY <1>3, <1>4

\* A service deleted, in two steps.
LEMMA DeleteKeeps ==
  ASSUME CatalogueInv, DeleteFinish \/ \E s \in Services : DeleteStart(s)
  PROVE  CatalogueInv'
<1> USE DEF CatalogueInv
<1>1. ASSUME NEW s \in Services, DeleteStart(s) PROVE CatalogueInv'
  BY <1>1 DEF DeleteStart, TypeOK, FolderGroupsExist, HeldOK, FollowersMatchFolder, rows, team, news
<1>2. CASE DeleteFinish
  <2>1. held.id \in Services
    BY <1>2 DEF DeleteFinish, HeldOK
  <2>2. (FolderGroupsExist /\ HeldOK)'
    BY <1>2 DEF DeleteFinish, FolderGroupsExist, HeldOK, Idle, team
  <2>3. CASE Restricted(held.id)
    BY <1>2, <2>2, <2>3 DEF DeleteFinish, TypeOK, FollowersMatchFolder, rows, team, news
  <2>4. CASE ~Restricted(held.id)
    <3>1. TypeOK'
      BY <1>2, <2>1, <2>4, EveryoneIsASetting DEF DeleteFinish, TypeOK, team
    <3>2. FollowersMatchFolder'
      BY <1>2, <2>1, <2>4 DEF DeleteFinish, TypeOK, FollowersMatchFolder, team
    <3> QED BY <2>2, <3>1, <3>2
  <2> QED BY <2>3, <2>4
<1> QED BY <1>1, <1>2

\* A folder created, saved or deleted hands its setting down or lets its
\* services go.
LEMMA FolderKeeps ==
  ASSUME CatalogueInv, NEW f \in Folders,
         \/ CreateFolder(f) \/ DeleteFolder(f)
         \/ \E a \in Posted : SaveFolder(f, a)
  PROVE  CatalogueInv'
<1> USE DEF CatalogueInv
<1>1. CASE CreateFolder(f)
  <2>1. TypeOK'
    BY <1>1, EveryoneIsASetting DEF CreateFolder, TypeOK, rows, news
  <2>2. (FolderGroupsExist /\ HeldOK)'
    BY <1>1, EveryoneIsASetting DEF CreateFolder, FolderGroupsExist, HeldOK, TypeOK
  <2>3. FollowersMatchFolder'
    BY <1>1 DEF CreateFolder, FollowersMatchFolder, TypeOK, rows
  <2> QED BY <2>1, <2>2, <2>3
<1>2. CASE DeleteFolder(f)
  <2>1. TypeOK'
    BY <1>2, EveryoneIsASetting DEF DeleteFolder, TypeOK, news
  <2>2. (FolderGroupsExist /\ HeldOK)'
    BY <1>2, EveryoneIsASetting DEF DeleteFolder, FolderGroupsExist, HeldOK, TypeOK
  <2>3. FollowersMatchFolder'
    BY <1>2 DEF DeleteFolder, FollowersMatchFolder, TypeOK
  <2> QED BY <2>1, <2>2, <2>3
<1>3. ASSUME NEW a \in Posted, SaveFolder(f, a) PROVE CatalogueInv'
  <2>1. /\ ReplaceGrants(a) \in Setting /\ ReplaceGrants(a).groups \subseteq groups
    BY PostedAreSettings, GrantsKept
  <2>2. TypeOK'
    BY <1>3, <2>1 DEF SaveFolder, CopySetting, Followers, TypeOK, news
  <2>3. (FolderGroupsExist /\ HeldOK)'
    BY <1>3, <2>1 DEF SaveFolder, FolderGroupsExist, HeldOK, TypeOK
  <2>4. FollowersMatchFolder'
    BY <1>3 DEF SaveFolder, CopySetting, Followers, FollowersMatchFolder, TypeOK
  <2> QED BY <2>2, <2>3, <2>4
<1> QED BY <1>1, <1>2, <1>3

\* Services moved into a folder follow it with its setting, or keep theirs.
LEMMA MoveKeeps ==
  ASSUME CatalogueInv, NEW f \in Folders,
         \/ \E ss \in SUBSET Services : AddServices(f, ss)
         \/ \E s \in Services : RemoveService(f, s)
  PROVE  CatalogueInv'
<1> USE DEF CatalogueInv
<1>1. ASSUME NEW ss \in SUBSET Services, AddServices(f, ss) PROVE CatalogueInv'
  <2>1. TypeOK'
    BY <1>1, NoFolderIsNone DEF AddServices, TypeOK, FolderGroupsExist, team, news
  <2>2. (FolderGroupsExist /\ HeldOK)'
    BY <1>1 DEF AddServices, FolderGroupsExist, HeldOK, team
  <2>3. FollowersMatchFolder'
    BY <1>1 DEF AddServices, FollowersMatchFolder, TypeOK, team
  <2> QED BY <2>1, <2>2, <2>3
<1>2. ASSUME NEW s \in Services, RemoveService(f, s) PROVE CatalogueInv'
  <2>1. TypeOK'
    BY <1>2 DEF RemoveService, TypeOK, team, news
  <2>2. (FolderGroupsExist /\ HeldOK)'
    BY <1>2 DEF RemoveService, FolderGroupsExist, HeldOK, team
  <2>3. FollowersMatchFolder'
    BY <1>2 DEF RemoveService, FollowersMatchFolder, TypeOK, team
  <2> QED BY <2>1, <2>2, <2>3
<1> QED BY <1>1, <1>2

\* Groups and their members.
LEMMA GroupKeeps ==
  ASSUME CatalogueInv, NEW g \in Groups,
         \/ CreateGroup(g) \/ DeleteGroup(g)
         \/ \E us \in SUBSET Users : AddMembers(g, us)
         \/ \E u \in Users : RemoveMember(g, u)
  PROVE  CatalogueInv'
<1> USE DEF CatalogueInv
<1>1. CASE CreateGroup(g)
  BY <1>1 DEF CreateGroup, TypeOK, FolderGroupsExist, HeldOK, FollowersMatchFolder, rows, news
<1>2. CASE DeleteGroup(g)
  <2>1. \A s \in Services : /\ Without(setting[s], g) \in Setting
                            /\ Without(setting[s], g).groups = setting[s].groups \ {g}
    BY WithoutIsASetting DEF TypeOK
  <2>2. \A f \in Folders : /\ Without(dir[f], g) \in Setting
                           /\ Without(dir[f], g).groups = dir[f].groups \ {g}
    BY WithoutIsASetting DEF TypeOK
  <2>3. TypeOK'
    BY <1>2, <2>1, <2>2 DEF DeleteGroup, TypeOK, news
  <2>4. (FolderGroupsExist /\ HeldOK)'
    BY <1>2, <2>2 DEF DeleteGroup, FolderGroupsExist, HeldOK
  <2>5. FollowersMatchFolder'
    BY <1>2 DEF DeleteGroup, FollowersMatchFolder, TypeOK
  <2> QED BY <2>3, <2>4, <2>5
<1>3. ASSUME NEW us \in SUBSET Users, AddMembers(g, us) PROVE CatalogueInv'
  BY <1>3 DEF AddMembers, TypeOK, FolderGroupsExist, HeldOK, FollowersMatchFolder, rows, news
<1>4. ASSUME NEW u \in Users, RemoveMember(g, u) PROVE CatalogueInv'
  BY <1>4 DEF RemoveMember, TypeOK, FolderGroupsExist, HeldOK, FollowersMatchFolder, rows, news
<1> QED BY <1>1, <1>2, <1>3, <1>4

\* A group opened to folders and services: followers get the folder's new
\* setting and not one of their own.
LEMMA OpenKeeps ==
  ASSUME CatalogueInv, NEW g \in Groups, NEW fs \in SUBSET Folders,
         NEW ss \in SUBSET Services, OpenTo(g, fs, ss)
  PROVE  CatalogueInv'
<1> USE DEF CatalogueInv
<1> DEFINE With(a) == [a EXCEPT !.groups = @ \cup {g}]
<1>1. \A a \in Setting : With(a) \in Setting /\ With(a).groups = a.groups \cup {g}
  BY DEF Setting
<1>2. \A f \in Folders : dir'[f] \in {dir[f], With(dir[f])}
  BY DEF OpenTo
<1>3. \A s \in Services :
        \/ setting'[s] \in {setting[s], With(setting[s])}
        \/ s \in follows /\ folderOf[s] \in Folders /\ setting'[s] = With(dir[folderOf[s]])
  BY DEF OpenTo, TypeOK
<1>4. g \in groups
  BY DEF OpenTo
<1>5. setting' \in [Services -> Setting] /\ dir' \in [Folders -> Setting]
  BY <1>1, <1>2, <1>3 DEF OpenTo, TypeOK
<1> HIDE DEF With
<1>6. \A s \in Services : setting'[s].groups \subseteq groups
  BY <1>1, <1>3, <1>4 DEF TypeOK, FolderGroupsExist
<1>7. \A f \in Folders : dir'[f].groups \subseteq groups
  BY <1>1, <1>2, <1>4 DEF TypeOK, FolderGroupsExist
<1>8. (TypeOK /\ FolderGroupsExist /\ HeldOK)'
  BY <1>5, <1>6, <1>7 DEF OpenTo, TypeOK, FolderGroupsExist, HeldOK, news
<1>9. FollowersMatchFolder'
  BY DEF OpenTo, FollowersMatchFolder, TypeOK
<1> QED BY <1>8, <1>9

\* A group closed to a folder and its followers, or to one service.
LEMMA CloseKeeps ==
  ASSUME CatalogueInv, NEW g \in Groups,
         \/ \E f \in Folders : CloseFolder(g, f)
         \/ \E s \in Services : CloseService(g, s)
  PROVE  CatalogueInv'
<1> USE DEF CatalogueInv
<1>1. ASSUME NEW f \in Folders, CloseFolder(g, f) PROVE CatalogueInv'
  <2>1. /\ Without(dir[f], g) \in Setting
        /\ Without(dir[f], g).groups \subseteq groups
    BY WithoutIsASetting DEF TypeOK, FolderGroupsExist
  <2>2. TypeOK'
    BY <1>1, <2>1 DEF CloseFolder, CopySetting, Followers, TypeOK, news
  <2>3. (FolderGroupsExist /\ HeldOK)'
    BY <1>1, <2>1 DEF CloseFolder, FolderGroupsExist, HeldOK, TypeOK
  <2>4. FollowersMatchFolder'
    BY <1>1 DEF CloseFolder, CopySetting, Followers, FollowersMatchFolder, TypeOK
  <2> QED BY <2>2, <2>3, <2>4
<1>2. ASSUME NEW s \in Services, CloseService(g, s) PROVE CatalogueInv'
  <2>1. /\ Without(setting[s], g) \in Setting
        /\ Without(setting[s], g).groups \subseteq groups
    BY WithoutIsASetting DEF TypeOK
  <2>2. TypeOK'
    BY <1>2, <2>1 DEF CloseService, TypeOK, team, news
  <2>3. (FolderGroupsExist /\ HeldOK /\ FollowersMatchFolder)'
    BY <1>2 DEF CloseService, FolderGroupsExist, HeldOK, FollowersMatchFolder, TypeOK, team
  <2> QED BY <2>2, <2>3
<1> QED BY <1>1, <1>2

\* Roles, and the services an event names.
LEMMA OutsideKeeps ==
  ASSUME CatalogueInv,
         \/ \E u \in Users, new \in {"reader", "disabled", "staff"} : ChangeStanding(u, new)
         \/ \E e \in Events, ss \in SUBSET Services : NameServices(e, ss)
  PROVE  CatalogueInv'
<1> USE DEF CatalogueInv
<1>1. ASSUME NEW u \in Users, NEW new \in {"reader", "disabled", "staff"}, ChangeStanding(u, new)
      PROVE  CatalogueInv'
  BY <1>1 DEF ChangeStanding, TypeOK, FolderGroupsExist, HeldOK, FollowersMatchFolder,
              rows, team, news
<1>2. ASSUME NEW e \in Events, NEW ss \in SUBSET Services, NameServices(e, ss)
      PROVE  CatalogueInv'
  BY <1>2 DEF NameServices, TypeOK, FolderGroupsExist, HeldOK, FollowersMatchFolder,
              rows, team
<1> QED BY <1>1, <1>2

\* Every change of the catalogue keeps its invariant.
LEMMA ChangeKeeps == CatalogueInv /\ Change => CatalogueInv'
<1> SUFFICES ASSUME CatalogueInv, Change PROVE CatalogueInv'
  OBVIOUS
<1>1. ASSUME NEW s \in Services, NEW a \in Posted, CreateService(s, a) PROVE CatalogueInv'
  BY <1>1, CreateKeeps, PostedAreSettings DEF CreateService
<1>2. ASSUME NEW s \in Services, CreatePublic(s) PROVE CatalogueInv'
  BY <1>2, CreateKeeps, EveryoneIsASetting DEF CreatePublic
<1>3. ASSUME NEW f \in Folders, NEW s \in Services, CreateInFolder(f, s) PROVE CatalogueInv'
  BY <1>3, CreateInFolderKeeps
<1>4. ASSUME NEW s \in Services, NEW a \in Posted, NEW i \in BOOLEAN, SaveEditStart(s, a, i)
      PROVE  CatalogueInv'
  BY <1>4, EditStartKeeps
<1> QED BY <1>1, <1>2, <1>3, <1>4, EditFinishKeeps, DeleteKeeps, FolderKeeps, MoveKeeps,
           GroupKeeps, OpenKeeps, CloseKeeps, OutsideKeeps DEF Change

\* So does every request for a page, which only reads.
LEMMA RequestKeeps == CatalogueInv /\ [Next]_vars => CatalogueInv'
<1> SUFFICES ASSUME CatalogueInv, [Next]_vars PROVE CatalogueInv'
  OBVIOUS
<1> USE DEF CatalogueInv
<1>1. CASE Meanwhile
  BY <1>1, ChangeKeeps DEF Meanwhile
<1>2. ASSUME NEW what, NEW u, NEW public, Begin(what, u, public) PROVE CatalogueInv'
  BY <1>2 DEF Begin, TypeOK, FolderGroupsExist, HeldOK, FollowersMatchFolder, rows, team, news
<1>3. CASE End
  BY <1>3 DEF End, TypeOK, FolderGroupsExist, HeldOK, FollowersMatchFolder, Idle, rows, team, news
<1>4. CASE UNCHANGED vars
  BY <1>4 DEF vars, catalogue, TypeOK, FolderGroupsExist, HeldOK, FollowersMatchFolder,
              rows, team, news
<1> QED BY <1>1, <1>2, <1>3, <1>4 DEF Next

\* The catalogue keeps its invariant whatever is edited and read at once.
LEMMA CatalogueInvariant == Spec => []CatalogueInv
<1>1. PagesInit => CatalogueInv
  BY InitialCatalogue DEF PagesInit
<1> QED BY <1>1, RequestKeeps, PTL DEF Spec

\* Types: services, folders, groups and events name only rows that exist, and
\* only a service that stands in a folder follows one.
THEOREM TypeCorrect == Spec => []TypeOK
BY CatalogueInvariant, PTL DEF CatalogueInv

\* A service that follows its folder carries exactly the folder's setting,
\* for any number of folders, services and groups: no write of folder_repo.rs,
\* service_repo.rs or group_repo.rs leaves a stale copy behind, not even the form
\* of a service whose folder changed while it was open.
THEOREM CopiesNeverStale == Spec => []FollowersMatchFolder
BY CatalogueInvariant, PTL DEF CatalogueInv

-----------------------------------------------------------------------------
(* What a step may never do                                                *)

\* add_services: a service that starts to follow its folder was open to
\* everyone or had exactly the folder's setting.
LEMMA HeirsLoseNothing ==
  ASSUME CatalogueInv, NEW f \in Folders, NEW s \in Services, JoinsAsFollower(s, f)
  PROVE  setting[s].mode = "everyone" \/ setting[s] = dir[f]
BY DEF CatalogueInv, TypeOK, JoinsAsFollower, SameSet, Setting

\* Moving services into a folder opens none of them to anyone more.
LEMMA AddingOpensNothing ==
  ASSUME CatalogueInv, NEW f \in Folders, NEW ss \in SUBSET Services, AddServices(f, ss),
         NEW s \in known, folderOf'[s] # folderOf[s],
         NEW u, MaySee(u, s)'
  PROVE  MaySee(u, s)
<1>1. s \in Services /\ standing' = standing /\ belongs' = belongs
  BY DEF CatalogueInv, TypeOK, AddServices, team
<1>2. setting'[s] = setting[s] \/ (setting'[s] = dir[f] /\ JoinsAsFollower(s, f))
  BY <1>1 DEF AddServices
<1>3. CASE setting[s].mode = "everyone"
  BY <1>3 DEF MaySee
<1>4. CASE setting'[s] = setting[s]
  BY <1>1, <1>4 DEF MaySee
<1> QED BY <1>1, <1>2, <1>3, <1>4, HeirsLoseNothing

\* Only these steps move a service that exists before and after, and only the
\* first of them changes who sees it.
LEMMA WhoMoves ==
  ASSUME CatalogueInv, Change, NEW s \in known \cap known', folderOf'[s] # folderOf[s]
  PROVE  \/ \E f \in Folders, ss \in SUBSET Services : AddServices(f, ss)
         \/ UNCHANGED <<setting, standing, belongs>>
<1>0. s \in Services /\ s \in born
  BY DEF CatalogueInv, TypeOK
<1>1. ASSUME NEW f \in Folders, NEW x \in Services, CreateInFolder(f, x) PROVE FALSE
  BY <1>0, <1>1 DEF CreateInFolder, CatalogueInv, TypeOK
<1>2. ASSUME DeleteFinish PROVE FALSE
  BY <1>0, <1>2 DEF DeleteFinish, CatalogueInv, TypeOK, HeldOK, rows
<1>3. ASSUME SaveEditFinish PROVE FALSE
  BY <1>3 DEF SaveEditFinish, Follow, SetVisibility
<1>4. ASSUME NEW f \in Folders, NEW x \in Services, RemoveService(f, x)
      PROVE  UNCHANGED <<setting, standing, belongs>>
  BY <1>4 DEF RemoveService, team
<1>5. ASSUME NEW f \in Folders, DeleteFolder(f)
      PROVE  UNCHANGED <<setting, standing, belongs>>
  BY <1>5 DEF DeleteFolder
<1> QED BY <1>1, <1>2, <1>3, <1>4, <1>5
        DEF Change, CreateService, CreatePublic, CreateFor, SaveEditStart, DeleteStart,
            CreateFolder, SaveFolder, CreateGroup, AddMembers, RemoveMember, DeleteGroup,
            OpenTo, CloseFolder, CloseService, ChangeStanding, NameServices, rows

\* Moving a service into a folder, out of it, or deleting its folder never shows
\* it to anyone more, whatever settings the two have.
THEOREM MovesOpenNothing == Spec => MovingShowsToNobodyNew
<1> DEFINE Moves == \A s \in known \cap known' : folderOf'[s] # folderOf[s] =>
                      \A u \in Users \cup {"visitor"} : MaySee(u, s)' => MaySee(u, s)
<1>1. CatalogueInv /\ [Next]_vars => [Moves]_catalogue
  <2> SUFFICES ASSUME CatalogueInv, [Next]_vars, NEW s \in known \cap known',
                      folderOf'[s] # folderOf[s], NEW u, MaySee(u, s)'
               PROVE  MaySee(u, s)
    BY DEF Moves
  <2>1. Change
    BY DEF Next, Begin, End, Meanwhile, vars, catalogue, rows
  <2>2. CASE \E f \in Folders, ss \in SUBSET Services : AddServices(f, ss)
    BY <2>2, AddingOpensNothing
  <2>3. CASE UNCHANGED <<setting, standing, belongs>>
    BY <2>3 DEF MaySee
  <2> QED BY <2>1, <2>2, <2>3, WhoMoves
<1> QED BY <1>1, CatalogueInvariant, PTL DEF Spec, MovingShowsToNobodyNew

\* An event loses a service only when someone edits it: the deletion of a
\* service, decided on an older read, never takes one from a published event.
THEOREM DeletionsSpareEvents == Spec => EventsKeepTheirServices
<1> DEFINE Kept == \A e \in posted : named'[e] # named[e] => known \subseteq known'
<1>1. CatalogueInv /\ [Next]_vars => [Kept]_catalogue
  <2> SUFFICES ASSUME CatalogueInv, [Next]_vars, NEW e \in posted, named'[e] # named[e]
               PROVE  known \subseteq known'
    BY DEF Kept
  <2>1. Change
    BY DEF Next, Begin, End, Meanwhile, vars, catalogue, news
  <2>2. ASSUME DeleteFinish PROVE FALSE
    <3>1. ~HasEvents(held.id) /\ named' = [x \in Events |-> named[x] \ {held.id}]
      BY <2>2 DEF DeleteFinish, Restricted, news
    <3>2. e \in Events /\ named[e] \ {held.id} = named[e]
      BY <3>1 DEF HasEvents, CatalogueInv, TypeOK
    <3> QED BY <3>1, <3>2
  <2>3. ASSUME NEW x \in Events, NEW ss \in SUBSET Services, NameServices(x, ss)
        PROVE  known \subseteq known'
    BY <2>3 DEF NameServices, rows
  <2> QED BY <2>1, <2>2, <2>3
          DEF Change, CreateService, CreatePublic, CreateFor, CreateInFolder, SaveEditStart,
              SaveEditFinish, DeleteStart, CreateFolder, SaveFolder, AddServices, RemoveService,
              DeleteFolder, CreateGroup, AddMembers, RemoveMember, DeleteGroup, OpenTo,
              CloseFolder, CloseService, ChangeStanding, news
<1> QED BY <1>1, CatalogueInvariant, PTL DEF Spec, EventsKeepTheirServices

-----------------------------------------------------------------------------
(* Pages                                                                   *)

(* What a scope must be for a page to stay within what is open: without a  *)
(* filter, everything that exists is open; with one, all it lets through.  *)
Covers(scope, open) ==
  /\ scope.all \in BOOLEAN
  /\ scope.all => known \subseteq open
  /\ ~scope.all => scope.ids \subseteq open

(* An event may be told when it names nothing or something open.           *)
MayTell(e, open) == named[e] = {} \/ named[e] \cap open # {}

RowsWithin(found, open) ==
  \A r \in found : r.services \subseteq open /\ MayTell(r.event, open)

(* What may be shown of the request under way, and the invariant of its    *)
(* scope: seen only grows while it reads, and what is created since is new.*)
OpenFor(r) == seen \cup IF r.scope.all THEN born \ r.had ELSE {}

ScopeCovered ==
  held.does = "read" =>
    /\ held.what \in {"pages", "feed", "embed", "private embed", "team"}
    /\ held.what = "team" => held.scope.all
    /\ held.scope.all => held.had \subseteq born
    /\ Covers(held.scope, OpenFor(held))

\* The services a scope lets through.
LEMMA ListedIsOpen ==
  ASSUME NEW scope, NEW open, Covers(scope, open)
  PROVE  {s \in known : SeesService(scope, s)} \subseteq open
BY DEF Covers, SeesService

\* The rows of every list of events.
LEMMA ListsAreWithin ==
  ASSUME TypeOK, NEW scope, NEW open, Covers(scope, open),
         NEW es, es \subseteq PushScope(scope)
  PROVE  RowsWithin(FetchScoped(scope, es), open)
<1> SUFFICES ASSUME NEW e \in es
             PROVE  RestrictTo(scope, named[e]) \subseteq open /\ MayTell(e, open)
  BY DEF RowsWithin, FetchScoped
<1>1. e \in Events /\ named[e] \subseteq known
  BY DEF PushScope, TypeOK
<1>2. RestrictTo(scope, named[e]) \subseteq open
  BY <1>1 DEF RestrictTo, SeesService, Covers
<1>3. MayTell(e, open)
  BY <1>1 DEF PushScope, Covers, MayTell
<1> QED BY <1>2, <1>3

\* One event read for its page, its panel or its calendar file.
LEMMA FoundIsWithin ==
  ASSUME TypeOK, NEW scope, NEW open, Covers(scope, open), NEW e \in Events
  PROVE  RowsWithin(FindWithServices(scope, e), open)
<1> SUFFICES ASSUME e \in posted, SeesEvent(scope, named[e])
             PROVE  /\ {s \in named[e] : SeesService(scope, s)} \subseteq open
                    /\ MayTell(e, open)
  BY DEF RowsWithin, FindWithServices
<1>1. named[e] \subseteq known
  BY DEF TypeOK
<1> QED BY <1>1 DEF SeesEvent, SeesService, Covers, MayTell

\* A page made of open services and of rows within.
LEMMA PageIsWithin ==
  ASSUME NEW ss, NEW found, NEW open, ss \subseteq open, RowsWithin(found, open)
  PROVE  Within(Page(ss, found), open)
BY DEF Within, Page, RowsWithin, MayTell

LEMMA BothAreWithin ==
  ASSUME NEW p, NEW q, NEW open, Within(p, open), Within(q, open)
  PROVE  Within(Both(p, q), open)
BY DEF Within, Both

LEMMA JoinedRows ==
  ASSUME NEW a, NEW b, NEW open, RowsWithin(a, open), RowsWithin(b, open)
  PROVE  RowsWithin(a \cup b, open)
BY DEF RowsWithin

\* Filtering by a service finds or counts an event only when it is visible.
LEMMA FilterReveals ==
  ASSUME TypeOK, NEW scope, NEW open, Covers(scope, open), NEW s \in Services,
         ListPageOf(scope, s) # {} \/ CountFiltered(scope, s) > 0
  PROVE  s \in open
<1>1. PushScope(scope) \cap PushServiceFilter(scope, s) # {}
  <2> SUFFICES ASSUME PushScope(scope) \cap PushServiceFilter(scope, s) = {} PROVE FALSE
    OBVIOUS
  <2>1. CountFiltered(scope, s) = 0
    BY FS_EmptySet DEF CountFiltered
  <2>2. ListPageOf(scope, s) = {}
    BY DEF ListPageOf, FetchScoped
  <2> QED BY <2>1, <2>2
<1>2. PICK e \in Events : s \in named[e] /\ SeesService(scope, s)
  BY <1>1 DEF PushServiceFilter
<1> QED BY <1>2 DEF TypeOK, SeesService, Covers

\* The status, in the banner and in the embed.
LEMMA BannerIsWithin ==
  ASSUME TypeOK, NEW scope, NEW open, Covers(scope, open)
  PROVE  Within(StatusBanner(scope), open)
<1>1. RowsWithin(ListOpenForBanner(scope) \cup ListOpenMaintenance(scope), open)
  BY ListsAreWithin, JoinedRows DEF ListOpenForBanner, ListOpenMaintenance
<1> QED BY <1>1, ListedIsOpen, PageIsWithin DEF StatusBanner, ListVisible

LEMMA DashboardIsWithin ==
  ASSUME TypeOK, NEW scope, NEW open, Covers(scope, open)
  PROVE  Within(Dashboard(scope), open)
<1>1. RowsWithin({}, open)
  BY DEF RowsWithin
<1>2. Within(ServicesModule(scope), open)
  BY <1>1, ListedIsOpen, PageIsWithin DEF ServicesModule
<1>3. Within(RecentActivity(scope), open)
  BY ListsAreWithin, PageIsWithin DEF RecentActivity, ListRecentActivity
<1>4. RowsWithin(ListOpenMaintenance(scope) \cup ListFinishedMaintenance(scope), open)
  BY ListsAreWithin, JoinedRows DEF ListOpenMaintenance, ListFinishedMaintenance
<1>5. Within(ScheduledMaintenances(scope), open)
  BY <1>4, PageIsWithin DEF ScheduledMaintenances
<1> QED BY <1>2, <1>3, <1>5, BannerIsWithin, BothAreWithin DEF Dashboard

LEMMA EventListIsWithin ==
  ASSUME TypeOK, NEW scope, NEW open, Covers(scope, open)
  PROVE  Within(EventList(scope), open)
<1> DEFINE asked == {s \in Services : ListPageOf(scope, s) # {} \/ CountFiltered(scope, s) > 0}
<1>1. asked \subseteq open
  BY FilterReveals
<1>2. ListVisible(scope) \cup asked \subseteq open
  BY <1>1, ListedIsOpen DEF ListVisible
<1>3. RowsWithin(ListPage(scope), open)
  BY ListsAreWithin DEF ListPage
<1> HIDE DEF asked
<1>4. Within(Page(ListVisible(scope) \cup asked, ListPage(scope)), open)
  BY <1>2, <1>3, PageIsWithin
<1> QED BY <1>4 DEF EventList, asked

\* The page, the side panel and the calendar file of an event.
LEMMA EventPagesAreWithin ==
  ASSUME TypeOK, NEW scope, NEW open, Covers(scope, open)
  PROVE  /\ Within(EventPage(scope), open) /\ Within(EventDrawer(scope), open)
         /\ Within(Calendar(scope), open)
<1>1. RowsWithin(UNION {FindWithServices(scope, e) : e \in Events}, open)
  BY FoundIsWithin DEF RowsWithin
<1>2. Within(EventPage(scope), open) /\ Within(Calendar(scope), open)
  BY <1>1, PageIsWithin DEF EventPage, Calendar
<1>3. Within(Page({s \in known : SeesService(scope, s)}, {}), open)
  BY ListedIsOpen, PageIsWithin DEF RowsWithin
<1> QED BY <1>2, <1>3, BothAreWithin DEF EventDrawer

\* The side panel of a service, with the event that holds its state.
LEMMA PanelIsWithin ==
  ASSUME TypeOK, NEW scope, NEW open, Covers(scope, open)
  PROVE  Within(ServicePanel(scope), open)
<1> DEFINE shown == {s \in known : SeesService(scope, s)}
<1>1. shown \subseteq open /\ FallenTogether(scope) \subseteq open
  BY ListedIsOpen DEF FallenTogether
<1>2. \A s \in shown : RowsWithin(ListPageOf(scope, s), open)
  BY ListsAreWithin DEF ListPageOf
<1> HIDE DEF shown
<1>3. RowsWithin(UNION {ListPageOf(scope, s) : s \in shown}, open)
  BY <1>2 DEF RowsWithin
<1>4. Within(Page(shown \cup FallenTogether(scope), UNION {ListPageOf(scope, s) : s \in shown}), open)
  BY <1>1, <1>3, PageIsWithin
<1>5. Within([services |-> {}, events |-> StateDrivers(shown)], open)
  BY <1>1 DEF Within, StateDrivers
<1> QED BY <1>4, <1>5, BothAreWithin DEF ServicePanel, shown

\* Whatever the request reads now is within what is open.
LEMMA CoveredIsHidden == TypeOK /\ ScopeCovered => PagesHideTheHidden
<1> SUFFICES ASSUME TypeOK, ScopeCovered, held.does = "read"
             PROVE  Within(Reveals(held), OpenFor(held))
  BY DEF PagesHideTheHidden, OpenFor
<1> DEFINE scope == held.scope
           open == OpenFor(held)
<1>1. Covers(scope, open)
  BY DEF ScopeCovered
<1>2. CASE held.what = "pages"
  <2>1. Within(Both(Both(Both(Dashboard(scope), EventList(scope)), ServicePanel(scope)),
                    Both(Both(EventPage(scope), EventDrawer(scope)), Calendar(scope))), open)
    <3> HIDE DEF scope, open
    <3> QED BY <1>1, BothAreWithin, DashboardIsWithin, EventListIsWithin, PanelIsWithin,
               EventPagesAreWithin
  <2> QED BY <1>2, <2>1 DEF Reveals
<1>3. CASE held.what = "feed"
  <2>1. Within(Feed(scope), open)
    BY <1>1, ListsAreWithin, PageIsWithin DEF Feed, ListForFeed
  <2> QED BY <1>3, <2>1 DEF Reveals
<1>4. CASE held.what \in {"embed", "private embed"}
  BY <1>1, <1>4, BannerIsWithin DEF Reveals, Embed
<1>5. CASE held.what = "team"
  <2>1. known \subseteq open
    BY <1>1, <1>5 DEF ScopeCovered, Covers
  <2>2. Within(TeamPages, open)
    BY <2>1 DEF TeamPages, StateDrivers, Within
  <2> QED BY <1>5, <2>2 DEF Reveals
<1> QED BY <1>2, <1>3, <1>4, <1>5 DEF ScopeCovered

\* Who may see a service: an account that is not disabled sees, and the team
\* sees everything.
LEMMA ScopeIsOpen ==
  ASSUME CatalogueInv, NEW u \in Users \cup {Visitor},
         u \in Users => standing[u] # "disabled"
  PROVE  /\ VisibleIds(u) \subseteq NowOpenTo(u)
         /\ CanPublish(u) => known \subseteq NowOpenTo(u)
<1>1. u # Member /\ (u # Visitor => u \in Users)
  BY NotAccounts DEF Visitor, Member
<1> QED BY <1>1 DEF VisibleIds, NowOpenTo, OpenNow, MaySee, CanPublish

\* So a scope, read now, covers what is open now.
LEMMA ScopeCovers ==
  ASSUME CatalogueInv, NEW u \in Users \cup {Visitor},
         u \in Users => standing[u] # "disabled"
  PROVE  Covers(ScopeOf(u), NowOpenTo(u))
BY ScopeIsOpen DEF ScopeOf, Narrowed, All, Covers

LEMMA MemberScopeCovers == Covers(MemberScope, NowOpenTo(Member))
BY DEF MemberScope, Narrowed, MemberVisibleIds, NowOpenTo, OpenNow, All, Covers

\* A request begins with a scope that covers.
LEMMA BeginCovers ==
  ASSUME CatalogueInv, NEW what \in {"pages", "feed", "embed", "private embed", "team"},
         NEW u \in Users \cup {Visitor}, NEW public \in BOOLEAN, Begin(what, u, public)
  PROVE  ScopeCovered'
<1>1. Visitor \notin Users
  BY NotAccounts
<1>2. Covers(ScopeFor(what, u), NowOpenTo(Audience(what, u)))
  <2>1. CASE what = "feed"
    BY <1>1, <2>1, ScopeCovers DEF ScopeFor, Audience
  <2>2. CASE what = "private embed"
    BY <2>2, MemberScopeCovers DEF ScopeFor, Audience
  <2>3. CASE what \notin {"feed", "private embed"}
    BY <2>3, ScopeCovers DEF ScopeFor, Audience, Begin
  <2> QED BY <2>1, <2>2, <2>3
<1>3. what = "team" => ScopeFor(what, u).all
  BY DEF Begin, ScopeFor, ScopeOf, All
<1>4. known' = known /\ born' = born /\ seen' = NowOpenTo(Audience(what, u))
  BY DEF Begin, rows
<1> DEFINE scope == ScopeFor(what, u)
<1>5. held' = [does |-> "read", what |-> what, for |-> Audience(what, u), scope |-> scope,
               had |-> IF scope.all THEN born ELSE {}]
  BY DEF Begin
<1> HIDE DEF scope
<1>6. /\ held'.what = what /\ held'.scope = scope
      /\ scope.all => held'.had = born
  BY <1>5
<1>7. /\ scope.all \in BOOLEAN
      /\ scope.all => known' \subseteq seen'
      /\ ~scope.all => scope.ids \subseteq seen'
  BY <1>2, <1>4 DEF Covers, scope
<1>8. what = "team" => scope.all
  BY <1>3 DEF scope
<1>9. Covers(held.scope, OpenFor(held))'
  BY <1>6, <1>7 DEF Covers, OpenFor
<1> QED BY <1>4, <1>6, <1>8, <1>9 DEF ScopeCovered

\* A change of the catalogue leaves the request under way alone, and starts
\* none; what it creates was never there.
LEMMA ChangeAside ==
  ASSUME CatalogueInv, Change
  PROVE  /\ held' = held \/ (held.does # "read" /\ held'.does # "read")
         /\ born \subseteq born'
         /\ known' \subseteq known \cup (born' \ born)
<1>1. ASSUME NEW s \in Services, NEW a \in Posted, NEW i \in BOOLEAN, SaveEditStart(s, a, i)
      PROVE  held.does # "read" /\ held'.does # "read"
  BY <1>1 DEF SaveEditStart, Idle
<1>2. ASSUME NEW s \in Services, DeleteStart(s)
      PROVE  held.does # "read" /\ held'.does # "read"
  BY <1>2 DEF DeleteStart, Idle
<1>3. ASSUME SaveEditFinish \/ DeleteFinish PROVE held.does # "read" /\ held'.does # "read"
  BY <1>3 DEF SaveEditFinish, DeleteFinish, Idle
<1>4. held' = held \/ (held.does # "read" /\ held'.does # "read")
  BY <1>1, <1>2, <1>3
     DEF Change, CreateService, CreatePublic, CreateFor, CreateInFolder,
         CreateFolder, SaveFolder, AddServices, RemoveService,
         DeleteFolder, CreateGroup, AddMembers, RemoveMember, DeleteGroup, OpenTo,
         CloseFolder, CloseService, ChangeStanding, NameServices
<1>5. born \subseteq born' /\ known' \subseteq known \cup (born' \ born)
  <2>1. ASSUME NEW s \in Services, s \notin born, born' = born \cup {s}, known' = known \cup {s}
        PROVE  born \subseteq born' /\ known' \subseteq known \cup (born' \ born)
    BY <2>1
  <2>2. ASSUME DeleteFinish PROVE born' = born /\ known' \subseteq known
    BY <2>2 DEF DeleteFinish, rows
  <2> QED BY <2>1, <2>2
          DEF Change, CreateService, CreatePublic, CreateFor, CreateInFolder, SaveEditStart,
              SaveEditFinish, DeleteStart, CreateFolder, SaveFolder, AddServices, RemoveService,
              DeleteFolder, CreateGroup, AddMembers, RemoveMember, DeleteGroup, OpenTo,
              CloseFolder, CloseService, ChangeStanding, NameServices, rows
<1> QED BY <1>4, <1>5

\* While a request reads, what is seen grows with what changes.
LEMMA MeanwhileCovers ==
  ASSUME CatalogueInv, ScopeCovered, Meanwhile
  PROVE  ScopeCovered'
<1> SUFFICES ASSUME held'.does = "read" PROVE ScopeCovered'
  BY DEF ScopeCovered
<1>1. /\ held' = held /\ held.does = "read" /\ seen \subseteq seen'
      /\ born \subseteq born' /\ known' \subseteq known \cup (born' \ born)
  BY ChangeAside DEF Meanwhile
<1>2. CASE held.scope.all
  <2>1. known' \subseteq seen' \cup (born' \ held.had)
    BY <1>1, <1>2 DEF ScopeCovered, Covers, OpenFor
  <2> QED BY <1>1, <1>2, <2>1 DEF ScopeCovered, Covers, OpenFor
<1>3. CASE ~held.scope.all
  <2>1. held.scope.ids \subseteq seen'
    BY <1>1, <1>3 DEF ScopeCovered, Covers, OpenFor
  <2> QED BY <1>1, <1>3, <2>1 DEF ScopeCovered, Covers, OpenFor
<1> QED BY <1>2, <1>3

\* Whatever the team changes while a page, a feed, an embed or a panel is being
\* read, it names no service and tells of no event that the people it reaches
\* could not see at some moment of the request, for any catalogue and any
\* interleaving of its statements with the edits.
THEOREM NothingHiddenIsShown == Spec => []PagesHideTheHidden
<1>1. PagesInit => ScopeCovered
  <2>1. PagesInit => held.does = "nothing"
    BY DEF PagesInit, Init, Idle
  <2> QED BY <2>1 DEF ScopeCovered
<1>2. CatalogueInv /\ ScopeCovered /\ [Next]_vars => ScopeCovered'
  <2> SUFFICES ASSUME CatalogueInv, ScopeCovered, [Next]_vars PROVE ScopeCovered'
    OBVIOUS
  <2>1. CASE End
    BY <2>1 DEF End, Idle, ScopeCovered
  <2>2. CASE UNCHANGED vars
    BY <2>2 DEF vars, catalogue, rows, ScopeCovered, Covers, OpenFor
  <2> QED BY <2>1, <2>2, BeginCovers, MeanwhileCovers DEF Next
<1>3. CatalogueInv /\ ScopeCovered => PagesHideTheHidden
  BY CoveredIsHidden DEF CatalogueInv
<1> QED BY <1>1, <1>2, <1>3, CatalogueInvariant, PTL DEF Spec
=============================================================================
