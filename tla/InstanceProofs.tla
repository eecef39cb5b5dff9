--------------------------- MODULE InstanceProofs ---------------------------
(***************************************************************************)
(* Proofs about Instance, for any releases, schedules and savers and for   *)
(* any number of files, backups, days, restores and crashes.               *)
(***************************************************************************)
EXTENDS Instance, TLAPS

-----------------------------------------------------------------------------
(* The inductive invariant                                                 *)

(* What the tasks hold.                                                    *)
FileRef == File \cup {NoFile}
Copied == {d \in Database : d.schema \in Versions /\ d.sessions = {}}
BackupWords == {Words(kind) : kind \in {"Manual", "Automatic", "BeforeUpgrade", "BeforeRestore"}}
BackupFile == [words : BackupWords, at : Nat \ {0}, db : Copied, files : SUBSET File]

Choice == {"true", "false"}
SaverState ==
  {Idle} \cup [pc : {"checked", "written"}, then : Choice]
    \cup [pc : {"file"}, logo : FileRef, then : Choice \cup {"nothing"}]
    \cup [pc : {"previous", "stored"}, logo : FileRef, then : Choice \cup {"nothing"},
          previous : FileRef]
IconState == {Idle} \cup [pc : {"adding", "removing"}, file : File]
CopyState ==
  {Idle} \cup [pc : {"due"}, keep : KeepRange \cup {0}]
    \cup [pc : {"snapshot"}, keep : KeepRange \cup {0}, db : Copied]
WebState ==
  {Idle} \cup [pc : {"reading"}]
    \cup [pc : {"staged", "copied", "emptied", "refilled"}, file : BackupFile, safe : {FALSE}]
HostState ==
  {Idle} \cup [pc : {"endangered", "staged", "copied", "emptied"}, file : BackupFile,
               safe : BOOLEAN]
Memories ==
  [ended : SUBSET (0..MaxInputs), replaced : SUBSET [db : Database, files : SUBSET File],
   whole : BOOLEAN, tried : -1..MaxDay, tries : Nat]

ServerTyped ==
  /\ binary \in Versions
  /\ server \in {"down", "opening", "migrating", "up"}
  /\ memory \in [public : BOOLEAN, logo : FileRef]
  /\ today \in 0..MaxDay /\ inputs \in 0..MaxInputs
  /\ made \in [files : 0..MaxFiles, backups : Nat]
DataTyped == db \in Database /\ uploads \subseteq File
FolderTyped == folder \subseteq BackupFile
TasksTyped ==
  /\ saving \in [Savers -> SaverState] /\ icon \in IconState
  /\ copying \in [Writer -> CopyState] /\ web \in WebState /\ host \in HostState
SeenTyped == seen \in Memories

Typed == ServerTyped /\ DataTyped /\ FolderTyped /\ TasksTyped /\ SeenTyped

(* Requests and tasks die with the server, and the host restores only      *)
(* while it is stopped.                                                    *)
NothingRuns ==
  /\ \A s \in Savers : saving[s] = Idle
  /\ icon = Idle /\ web = Idle /\ copying["auto"] = Idle
StoppedOK ==
  /\ ~Up => NothingRuns
  /\ host # Idle => server = "down"
  /\ server # "down" => db.there

(* A restore that is about to replace a database has backed it up.         *)
BackedUp ==
  host.pc = "staged" /\ host.safe =>
    \E file \in OfKind(folder, "BeforeRestore") :
      file.db = ForgetSessions(db) /\ file.files = uploads

(* Sessions have the rank of the input that opened them.                   *)
SessionsCounted == seen.ended \subseteq 0..inputs /\ db.sessions \subseteq 0..inputs

(* The turn tried last is behind the last try that is recorded.            *)
TurnsOK ==
  /\ seen.tries <= 1 /\ seen.tried <= db.attempted
  /\ ~db.there => db.attempted = -1 /\ seen.tried = -1
  /\ host # Idle /\ ~host.safe => seen.tried = -1

(* Every database there is: the file, the backups and the copies in hand.  *)
HasFile(task) == task.pc \in {"staged", "copied", "emptied", "refilled", "endangered"}
Held ==
  {db} \cup {file.db : file \in folder}
    \cup {copying[w].db : w \in {v \in Writer : copying[v].pc = "snapshot"}}
    \cup {task.file.db : task \in {t \in {web, host} : HasFile(t)}}

(* The numbers of files that are, or were meant to be, a logo or an icon.  *)
Storing == {s \in Savers : saving[s].pc \in {"file", "previous", "stored"}}
Replacing == {s \in Savers : saving[s].pc \in {"previous", "stored"}}
Logos ==
  {l \in FileRef :
     \/ \E d \in Held : l = d.logo
     \/ \E s \in Storing : l = saving[s].logo
     \/ \E s \in Replacing : l = saving[s].previous}
Icons ==
  {i \in File :
     \/ \E d \in Held : i \in d.icons
     \/ icon # Idle /\ i = icon.file}

(* A file is given its number once, for a logo or for an icon.             *)
Apart ==
  /\ \A l \in Logos : l <= made.files /\ l \notin Icons
  /\ \A i \in Icons : i <= made.files

(* Nothing removes the file of a logo or an icon that is there or on its   *)
(* way.                                                                    *)
Pending(s) == saving[s].pc \in {"file", "previous"} /\ saving[s].logo # NoFile
Replaces(s) == saving[s].pc \in {"previous", "stored"} /\ saving[s].previous # NoFile
LogosSafe ==
  /\ \A s \in Savers : Pending(s) => saving[s].logo \in uploads /\ saving[s].logo # db.logo
  /\ \A s, t \in Savers : Pending(s) /\ Pending(t) /\ s # t => saving[s].logo # saving[t].logo
  /\ \A s, t \in Savers : Replaces(s) /\ Pending(t) => saving[s].previous # saving[t].logo
  /\ \A s \in Savers : Replaces(s) /\ saving[s].pc = "stored" => saving[s].previous # db.logo
IconsSafe ==
  /\ icon # Idle => icon.file \notin db.icons
  /\ icon.pc = "adding" => icon.file \in uploads
FilesSafe == seen.whole => FileNames(db) \subseteq uploads /\ LogosSafe /\ IconsSafe

(* A restore under way is known to have broken the pictures.               *)
RestoresTold ==
  /\ web.pc \in {"copied", "emptied"} => ~seen.whole
  /\ host.pc \in {"copied", "emptied"} => ~seen.whole

InstanceInv ==
  /\ Typed /\ StoppedOK
  /\ ServesItsOwnSchema
  /\ ReplacedDataIsKept /\ BackedUp
  /\ SessionsCounted /\ SignedOutStaysOut
  /\ TurnsOK
  /\ Apart /\ FilesSafe /\ RestoresTold

-----------------------------------------------------------------------------
(* Databases and backups                                                   *)

LEMMA Databases ==
  ASSUME binary \in Versions
  PROVE  /\ NoDatabase \in Database /\ InUse \in Database
         /\ \A d \in Database : ForgetSessions(d) \in Database
         /\ \A d \in Database : Reconcile(d) \in Database
         /\ \A d \in Database : RunMigrations(d) \in Database
<1> USE InstanceAssumption, BackupFilesAssumption DEF Database
<1>1. NoDatabase \in Database
  BY DEF NoDatabase, NoFile, Frequency
<1>2. InUse \in Database
  <2>1. [NoDatabase EXCEPT !.there = TRUE, !.schema = 1] \in Database
    BY <1>1
  <2>2. [NoDatabase EXCEPT !.there = TRUE, !.schema = 1, !.account = TRUE] \in Database
    BY <2>1
  <2>3. {0} \in SUBSET (0..MaxInputs)
    OBVIOUS
  <2>4. [NoDatabase EXCEPT !.there = TRUE, !.schema = 1, !.account = TRUE, !.sessions = {0}] \in Database
    BY <2>2, <2>3
  <2> QED BY <2>4 DEF InUse
<1>3. ASSUME NEW d \in Database PROVE ForgetSessions(d) \in Database
  BY <1>3 DEF ForgetSessions
<1>4. ASSUME NEW d \in Database PROVE Reconcile(d) \in Database
  BY <1>4 DEF Reconcile
<1>5. ASSUME NEW d \in Database PROVE RunMigrations(d) \in Database
  BY <1>5 DEF RunMigrations
<1> QED BY <1>1, <1>2, <1>3, <1>4, <1>5

-----------------------------------------------------------------------------

\* The last due day is not ahead of today.
LEMMA LastDueType ==
  ASSUME NEW frequency \in Frequency, NEW day \in 0..MaxDay
  PROVE  LastDue(frequency, day) \in -1..MaxDay /\ LastDue(frequency, day) <= day
<1>1. WeekLength \in Nat \ {0}
  BY BackupFilesAssumption
<1>2. day % WeekLength \in 0..(WeekLength - 1) /\ day % WeekLength <= day
  BY <1>1, InstanceAssumption
<1> QED BY <1>2, InstanceAssumption DEF LastDue, Frequency

-----------------------------------------------------------------------------
(* Types                                                                   *)

\* What a saver holds, by where it stands.
LEMMA SaverHolds ==
  ASSUME NEW x \in SaverState
  PROVE  /\ x.pc \in {"idle", "checked", "written", "file", "previous", "stored"}
         /\ x.pc = "idle" => x = Idle
         /\ x.pc \in {"checked", "written"} => x \in [pc : {"checked", "written"}, then : Choice]
         /\ x.pc = "file" => x \in [pc : {"file"}, logo : FileRef, then : Choice \cup {"nothing"}]
         /\ x.pc \in {"previous", "stored"} =>
              x \in [pc : {"previous", "stored"}, logo : FileRef,
                     then : Choice \cup {"nothing"}, previous : FileRef]
BY DEF SaverState, Idle

LEMMA WebHolds ==
  ASSUME NEW x \in WebState
  PROVE  /\ x.pc \in {"idle", "reading", "staged", "copied", "emptied", "refilled"}
         /\ x.pc = "idle" => x = Idle
         /\ x.pc \in {"staged", "copied", "emptied", "refilled"} =>
              x \in [pc : {"staged", "copied", "emptied", "refilled"}, file : BackupFile,
                     safe : {FALSE}]
<1>1. CASE x = Idle
  BY <1>1 DEF Idle
<1>2. CASE x \in [pc : {"reading"}]
  BY <1>2
<1>3. CASE x \in [pc : {"staged", "copied", "emptied", "refilled"}, file : BackupFile,
                  safe : {FALSE}]
  BY <1>3
<1> QED BY <1>1, <1>2, <1>3 DEF WebState

LEMMA HostHolds ==
  ASSUME NEW x \in HostState
  PROVE  /\ x.pc \in {"idle", "endangered", "staged", "copied", "emptied"}
         /\ x.pc = "idle" => x = Idle
         /\ x.pc # "idle" =>
              x \in [pc : {"endangered", "staged", "copied", "emptied"}, file : BackupFile,
                     safe : BOOLEAN]
BY DEF HostState, Idle

LEMMA CopyHolds ==
  ASSUME NEW x \in CopyState
  PROVE  /\ x.pc \in {"idle", "due", "snapshot"}
         /\ x.pc = "idle" => x = Idle
         /\ x.pc = "due" => x \in [pc : {"due"}, keep : KeepRange \cup {0}]
         /\ x.pc = "snapshot" =>
              x \in [pc : {"snapshot"}, keep : KeepRange \cup {0}, db : Copied]
BY DEF CopyState, Idle

LEMMA IconHolds ==
  ASSUME NEW x \in IconState
  PROVE  /\ x.pc \in {"idle", "adding", "removing"}
         /\ x.pc = "idle" => x = Idle
         /\ x.pc # "idle" => x \in [pc : {"adding", "removing"}, file : File]
BY DEF IconState, Idle

LEMMA ServerTypes == Typed /\ Next => ServerTyped'
<1> SUFFICES ASSUME Typed, Next PROVE ServerTyped'
  OBVIOUS
<1> USE InstanceAssumption DEF Typed, ServerTyped
<1>1. CASE ServerStep
  <2>1. CASE OpenDatabase \/ (\E v \in Versions : Install(v)) \/ NewServer \/ PassDay
    BY <2>1 DEF OpenDatabase, Install, NewServer, PassDay, Counted
  <2>2. CASE BackUpBeforeUpgrade
    BY <2>2 DEF BackUpBeforeUpgrade
  <2>3. CASE StartServing
    <3>1. PublicMode(db) \in BOOLEAN /\ db.logo \in FileRef
      BY DEF PublicMode, DataTyped, Database, FileRef
    <3> QED BY <2>3, <3>1 DEF StartServing, Loaded
  <2>4. CASE End
    BY <2>4 DEF End, Counted, FileRef
  <2> QED BY <1>1, <2>1, <2>2, <2>3, <2>4 DEF ServerStep
<1>2. CASE MemberStep
  BY <1>2 DEF MemberStep, SignUp, SignOut, Write, Counted
<1>3. CASE SettingsStep
  <2>1. PICK s \in Savers :
          \/ \E public \in {"true", "false"}, withLogo \in BOOLEAN : SaveGeneral(s, public, withLogo)
          \/ RemoveLogo(s) \/ ReadPreviousLogo(s) \/ StoreLogo(s) \/ ShowLogo(s)
          \/ StorePublicMode(s) \/ ShowPublicMode(s)
    BY <1>3 DEF SettingsStep
  <2>2. saving[s] \in SaverState
    BY DEF TasksTyped
  <2>3. CASE \E public \in {"true", "false"}, withLogo \in BOOLEAN : SaveGeneral(s, public, withLogo)
    BY <2>3 DEF SaveGeneral, Counted
  <2>4. CASE RemoveLogo(s) \/ ReadPreviousLogo(s) \/ StoreLogo(s) \/ StorePublicMode(s)
    BY <2>4 DEF RemoveLogo, ReadPreviousLogo, StoreLogo, StorePublicMode, Counted
  <2>5. CASE ShowLogo(s)
    <3>1. saving[s].logo \in FileRef
      BY <2>2, <2>5, SaverHolds DEF ShowLogo
    <3> QED BY <2>5, <3>1 DEF ShowLogo
  <2>6. CASE ShowPublicMode(s)
    BY <2>6 DEF ShowPublicMode
  <2> QED BY <2>1, <2>3, <2>4, <2>5, <2>6
<1>4. CASE IconStep
  BY <1>4 DEF IconStep, UploadIcon, RecordIcon, RemoveIconFile, DeleteIcon, Counted
<1>5. CASE BackupStep
  <2>1. CASE RunDue
    BY <2>1 DEF RunDue
  <2>4. CASE HostBackup
    BY <2>4 DEF HostBackup, Counted
  <2>5. ASSUME NEW schedule \in Schedules, SaveSchedule(schedule) PROVE ServerTyped'
    BY <2>5 DEF SaveSchedule, Counted
  <2>2. ASSUME NEW w \in Writer, TakeSnapshot(w) \/ FailBackup(w) PROVE ServerTyped'
    BY <2>2 DEF TakeSnapshot, FailBackup
  <2>3. ASSUME NEW w \in Writer, NameBackup(w) PROVE ServerTyped'
    BY <2>3 DEF NameBackup, Written
  <2> QED BY <1>5, <2>1, <2>2, <2>3, <2>4, <2>5 DEF BackupStep
<1>6. CASE RestoreStep
  <2>1. CASE RefreshState
    <3>1. PublicMode(db) \in BOOLEAN /\ db.logo \in FileRef
      BY DEF PublicMode, DataTyped, Database, FileRef
    <3> QED BY <2>1, <3>1 DEF RefreshState, Loaded
  <2>2. CASE WebRestore \/ WebCopyInto \/ WebEmpty \/ WebRefill \/ WebFails
    BY <2>2 DEF WebRestore, WebCopyInto, WebEmpty, WebRefill, WebFails, Counted
  <2>3. CASE BackUpBeforeRestore
    BY <2>3 DEF BackUpBeforeRestore, Written
  <2>4. CASE HostCopyInto \/ HostEmpty \/ HostRefill \/ HostFails \/ HostDies \/ ResetPassword
    BY <2>4 DEF HostCopyInto, HostEmpty, HostRefill, HostFails, HostDies, ResetPassword, Counted
  <2>5. ASSUME NEW file \in folder, RestoreFrom(file) \/ HostRestore(file) PROVE ServerTyped'
    BY <2>5 DEF RestoreFrom, HostRestore, Counted
  <2> QED BY <1>6, <2>1, <2>2, <2>3, <2>4, <2>5 DEF RestoreStep
<1> QED BY <1>1, <1>2, <1>3, <1>4, <1>5, <1>6 DEF Next

LEMMA DataTypes == Typed /\ Next => DataTyped'
<1> SUFFICES ASSUME Typed, Next PROVE DataTyped'
  OBVIOUS
<1>0. /\ binary \in Versions /\ db \in Database /\ uploads \subseteq File
      /\ inputs \in 0..MaxInputs /\ today \in 0..MaxDay
      /\ made \in [files : 0..MaxFiles, backups : Nat]
  BY DEF Typed, ServerTyped, DataTyped
<1> USE <1>0, InstanceAssumption DEF DataTyped
<1>1. CASE ServerStep
  <2>1. CASE OpenDatabase
    BY <2>1 DEF OpenDatabase, Database
  <2>2. CASE StartServing
    BY <2>2, Databases DEF StartServing
  <2>3. CASE NewServer
    BY <2>3, Databases DEF NewServer
  <2>4. CASE BackUpBeforeUpgrade \/ End \/ PassDay \/ \E v \in Versions : Install(v)
    BY <2>4 DEF BackUpBeforeUpgrade, End, PassDay, Install
  <2> QED BY <1>1, <2>1, <2>2, <2>3, <2>4 DEF ServerStep
<1>2. CASE MemberStep
  <2>1. CASE SignUp
    <3>1. db.sessions \cup {inputs'} \in SUBSET (0..MaxInputs)
      BY <2>1 DEF SignUp, Counted, Database
    <3> QED BY <2>1, <3>1 DEF SignUp, Database
  <2>2. CASE Write
    <3>1. inputs' \in 0..MaxInputs
      BY <2>2 DEF Write, Counted
    <3> QED BY <2>2, <3>1 DEF Write, Database
  <2>3. ASSUME NEW i \in db.sessions, SignOut(i) PROVE DataTyped'
    <3>1. db.sessions \ {i} \in SUBSET (0..MaxInputs)
      BY DEF Database
    <3> QED BY <2>3, <3>1 DEF SignOut, Database
  <2> QED BY <1>2, <2>1, <2>2, <2>3 DEF MemberStep
<1>3. CASE SettingsStep
  <2>1. PICK s \in Savers :
          \/ \E public \in {"true", "false"}, withLogo \in BOOLEAN : SaveGeneral(s, public, withLogo)
          \/ RemoveLogo(s) \/ ReadPreviousLogo(s) \/ StoreLogo(s) \/ ShowLogo(s)
          \/ StorePublicMode(s) \/ ShowPublicMode(s)
    BY <1>3 DEF SettingsStep
  <2>2. saving[s] \in SaverState
    BY DEF Typed, TasksTyped
  <2>3. CASE \E public \in {"true", "false"}, withLogo \in BOOLEAN : SaveGeneral(s, public, withLogo)
    BY <2>3 DEF SaveGeneral, File
  <2>4. CASE RemoveLogo(s) \/ ReadPreviousLogo(s) \/ ShowPublicMode(s)
    BY <2>4 DEF RemoveLogo, ReadPreviousLogo, ShowPublicMode
  <2>5. CASE StoreLogo(s)
    <3>1. saving[s].logo \in File \cup {NoFile}
      BY <2>2, <2>5, SaverHolds DEF StoreLogo, FileRef
    <3> QED BY <2>5, <3>1 DEF StoreLogo, Database
  <2>6. CASE ShowLogo(s)
    BY <2>6 DEF ShowLogo
  <2>7. CASE StorePublicMode(s)
    <3>1. saving[s].then \in {"unset", "true", "false"}
      BY <2>2, <2>7, SaverHolds DEF StorePublicMode, Choice
    <3> QED BY <2>7, <3>1 DEF StorePublicMode, Database
  <2> QED BY <2>1, <2>3, <2>4, <2>5, <2>6, <2>7
<1>4. CASE IconStep
  <2>1. CASE UploadIcon \/ RemoveIconFile
    BY <2>1 DEF UploadIcon, RemoveIconFile, File
  <2>2. CASE RecordIcon
    <3>1. icon.file \in File
      BY <2>2 DEF RecordIcon, Typed, TasksTyped, IconState, Idle
    <3>2. db.icons \cup {icon.file} \in SUBSET File
      BY <3>1 DEF Database
    <3> QED BY <2>2, <3>2 DEF RecordIcon, Database
  <2>3. ASSUME NEW f \in File, DeleteIcon(f) PROVE DataTyped'
    <3>1. db.icons \ {f} \in SUBSET File
      BY DEF Database
    <3> QED BY <2>3, <3>1 DEF DeleteIcon, Database
  <2> QED BY <1>4, <2>1, <2>2, <2>3 DEF IconStep
<1>5. CASE BackupStep
  <2>1. CASE RunDue
    <3>1. today \in -1..MaxDay
      OBVIOUS
    <3> QED BY <2>1, <3>1 DEF RunDue, Database
  <2>2. CASE HostBackup
    BY <2>2 DEF HostBackup
  <2>3. ASSUME NEW w \in Writer, TakeSnapshot(w) \/ NameBackup(w) \/ FailBackup(w) PROVE DataTyped'
    <3>1. CASE TakeSnapshot(w)
      BY <3>1 DEF TakeSnapshot
    <3>2. CASE NameBackup(w)
      <4>1. [db EXCEPT !.failed = FALSE] \in Database
        BY DEF Database
      <4>2. db' \in {db, [db EXCEPT !.failed = FALSE]} /\ uploads' = uploads
        BY <3>2 DEF NameBackup
      <4> QED BY <4>1, <4>2
    <3>3. CASE FailBackup(w)
      BY <3>3 DEF FailBackup, Database
    <3> QED BY <2>3, <3>1, <3>2, <3>3
  <2>4. ASSUME NEW schedule \in Schedules, SaveSchedule(schedule) PROVE DataTyped'
    <3>1. /\ schedule.frequency \in Frequency /\ schedule.keep \in KeepRange
          /\ schedule.wanted \in BOOLEAN
      OBVIOUS
    <3>2. (db.failed /\ schedule.frequency # "off") \in BOOLEAN
      OBVIOUS
    <3>3. [db EXCEPT !.frequency = schedule.frequency, !.keep = schedule.keep] \in Database
      BY <3>1 DEF Database
    <3>4. [db EXCEPT !.frequency = schedule.frequency, !.keep = schedule.keep,
                     !.wanted = schedule.wanted] \in Database
      BY <3>1, <3>3 DEF Database
    <3> QED BY <2>4, <3>1, <3>2, <3>4 DEF SaveSchedule, Database
  <2> QED BY <1>5, <2>1, <2>2, <2>3, <2>4 DEF BackupStep
<1>6. CASE RestoreStep
  <2>1. CASE RefreshState
    BY <2>1, Databases DEF RefreshState
  <2>2. CASE WebRestore \/ WebEmpty \/ WebFails \/ BackUpBeforeRestore \/ HostEmpty \/ HostDies
    BY <2>2 DEF WebRestore, WebEmpty, WebFails, BackUpBeforeRestore, HostEmpty, HostDies
  <2>3. ASSUME NEW task, task.file \in BackupFile, CopyInto(task) PROVE db' \in Database
    <3>1. Staged(task.file) \in Database
      BY <2>3, Databases DEF Staged, BringUpToDate, BackupFile, Copied
    <3> QED BY <2>3, <3>1 DEF CopyInto, Database
  <2>4. ASSUME NEW file \in BackupFile, Refilled(file) PROVE uploads' \subseteq File
    BY <2>4 DEF Refilled, BackupFile
  <2>5. CASE WebCopyInto \/ WebRefill
    <3>1. web.file \in BackupFile
      BY <2>5, WebHolds DEF WebCopyInto, WebRefill, Typed, TasksTyped
    <3> QED BY <2>3, <2>4, <2>5, <3>1 DEF WebCopyInto, WebRefill
  <2>6. CASE HostCopyInto \/ HostRefill
    <3>1. host.file \in BackupFile
      BY <2>6, HostHolds DEF HostCopyInto, HostRefill, Typed, TasksTyped
    <3> QED BY <2>3, <2>4, <2>6, <3>1 DEF HostCopyInto, HostRefill
  <2>7. CASE HostFails
    BY <2>7, Databases DEF HostFails
  <2>8. CASE ResetPassword
    <3>1. /\ RunMigrations(db) \in Database
          /\ inputs' \in 0..MaxInputs
      BY <2>8, Databases DEF ResetPassword, Counted
    <3> QED BY <2>8, <3>1 DEF ResetPassword, Database
  <2>9. ASSUME NEW file \in folder, RestoreFrom(file) \/ HostRestore(file) PROVE DataTyped'
    <3>1. [db EXCEPT !.there = TRUE] \in Database
      BY DEF Database
    <3> QED BY <2>9, <3>1 DEF RestoreFrom, HostRestore
  <2> QED BY <1>6, <2>1, <2>2, <2>5, <2>6, <2>7, <2>8, <2>9 DEF RestoreStep
<1> QED BY <1>1, <1>2, <1>3, <1>4, <1>5, <1>6 DEF Next

\* A backup of a migrated database is a backup file.
LEMMA BackupTypes ==
  ASSUME NEW kind \in {"Manual", "Automatic", "BeforeUpgrade", "BeforeRestore"},
         NEW d \in Database, d.schema # 0, NEW files \in SUBSET File, made.backups \in Nat
  PROVE  Backup(kind, d, files) \in BackupFile /\ ForgetSessions(d) \in Copied
<1>1. ForgetSessions(d) \in Copied
  <2>1. /\ d.schema \in Versions
        /\ ForgetSessions(d).schema = d.schema
        /\ ForgetSessions(d).sessions = {}
    BY DEF Database, ForgetSessions
  <2>2. ForgetSessions(d) \in Database
    BY DEF Database, ForgetSessions
  <2> QED BY <2>1, <2>2 DEF Copied
<1>2. Words(kind) \in BackupWords
  BY DEF BackupWords
<1> QED BY <1>1, <1>2 DEF Backup, BackupFile

LEMMA FolderTypes == Typed /\ Next => FolderTyped'
<1> SUFFICES ASSUME Typed, Next PROVE FolderTyped'
  OBVIOUS
<1>0. /\ binary \in Versions /\ db \in Database /\ uploads \in SUBSET File
      /\ folder \subseteq BackupFile /\ made.backups \in Nat
      /\ copying \in [Writer -> CopyState]
  BY DEF Typed, ServerTyped, DataTyped, FolderTyped, TasksTyped
<1> USE <1>0 DEF FolderTyped
<1>1. CASE ServerStep
  <2>1. CASE BackUpBeforeUpgrade
    <3>1. CASE folder' = folder
      BY <3>1
    <3>2. CASE HasPending
      <4>1. Backup("BeforeUpgrade", db, uploads) \in BackupFile
        BY <3>2, BackupTypes DEF HasPending
      <4> QED BY <2>1, <4>1 DEF BackUpBeforeUpgrade, Rotated
    <3> QED BY <2>1, <3>1, <3>2 DEF BackUpBeforeUpgrade
  <2>2. CASE OpenDatabase \/ StartServing \/ End \/ NewServer \/ PassDay
               \/ \E v \in Versions : Install(v)
    BY <2>2 DEF OpenDatabase, StartServing, End, NewServer, PassDay, Install
  <2> QED BY <1>1, <2>1, <2>2 DEF ServerStep
<1>2. CASE MemberStep
  BY <1>2 DEF MemberStep, SignUp, SignOut, Write
<1>3. CASE SettingsStep
  BY <1>3 DEF SettingsStep, SaveGeneral, RemoveLogo, ReadPreviousLogo, StoreLogo, ShowLogo,
              StorePublicMode, ShowPublicMode
<1>4. CASE IconStep
  BY <1>4 DEF IconStep, UploadIcon, RecordIcon, RemoveIconFile, DeleteIcon
<1>5. CASE BackupStep
  <2>1. CASE RunDue \/ HostBackup \/ \E schedule \in Schedules : SaveSchedule(schedule)
    BY <2>1 DEF RunDue, HostBackup, SaveSchedule
  <2>2. ASSUME NEW w \in Writer, TakeSnapshot(w) \/ FailBackup(w) PROVE FolderTyped'
    BY <2>2 DEF TakeSnapshot, FailBackup
  <2>3. ASSUME NEW w \in Writer, NameBackup(w) PROVE FolderTyped'
    <3>1. copying[w].db \in Copied
      BY <2>3, CopyHolds DEF NameBackup
    <3>2. copying[w].db \in Database /\ copying[w].db.schema # 0
      BY <3>1, InstanceAssumption DEF Copied
    <3>3. /\ Backup("Automatic", copying[w].db, uploads) \in BackupFile
          /\ Backup("Manual", copying[w].db, uploads) \in BackupFile
      BY <3>2, BackupTypes
    <3> QED BY <2>3, <3>3 DEF NameBackup, Written, Rotated
  <2> QED BY <1>5, <2>1, <2>2, <2>3 DEF BackupStep
<1>6. CASE RestoreStep
  <2>1. CASE BackUpBeforeRestore
    <3>1. Backup("BeforeRestore", db, uploads) \in BackupFile
      BY <2>1, BackupTypes DEF BackUpBeforeRestore, CanCopy
    <3> QED BY <2>1, <3>1 DEF BackUpBeforeRestore, Written
  <2>2. CASE WebRestore \/ WebCopyInto \/ WebEmpty \/ WebRefill \/ RefreshState \/ WebFails
    BY <2>2 DEF WebRestore, WebCopyInto, WebEmpty, WebRefill, RefreshState, WebFails
  <2>3. CASE HostCopyInto \/ HostEmpty \/ HostRefill \/ HostFails \/ HostDies \/ ResetPassword
    BY <2>3 DEF HostCopyInto, HostEmpty, HostRefill, HostFails, HostDies, ResetPassword
  <2>4. ASSUME NEW file \in folder, RestoreFrom(file) \/ HostRestore(file) PROVE FolderTyped'
    BY <2>4 DEF RestoreFrom, HostRestore
  <2> QED BY <1>6, <2>1, <2>2, <2>3, <2>4 DEF RestoreStep
<1> QED BY <1>1, <1>2, <1>3, <1>4, <1>5, <1>6 DEF Next

\* A restore leaves the tasks that are not its own alone.
LEMMA RestoreFrame ==
  RestoreStep => UNCHANGED <<binary, server, memory, saving, icon, copying, today>> \/ RefreshState
<1> SUFFICES ASSUME RestoreStep, ~RefreshState
             PROVE  UNCHANGED <<binary, server, memory, saving, icon, copying, today>>
  OBVIOUS
<1>1. CASE WebRestore \/ WebCopyInto \/ WebEmpty \/ WebRefill \/ WebFails
  BY <1>1 DEF WebRestore, WebCopyInto, WebEmpty, WebRefill, WebFails
<1>2. CASE BackUpBeforeRestore \/ HostCopyInto \/ HostEmpty \/ HostRefill
  BY <1>2 DEF BackUpBeforeRestore, HostCopyInto, HostEmpty, HostRefill
<1>3. CASE HostFails \/ HostDies \/ ResetPassword
  BY <1>3 DEF HostFails, HostDies, ResetPassword
<1>4. CASE \E file \in folder : RestoreFrom(file) \/ HostRestore(file)
  BY <1>4 DEF RestoreFrom, HostRestore
<1> QED BY <1>1, <1>2, <1>3, <1>4 DEF RestoreStep

LEMMA TasksTypes == Typed /\ Next => TasksTyped'
<1> SUFFICES ASSUME Typed, Next PROVE TasksTyped'
  OBVIOUS
<1>0. /\ db \in Database /\ uploads \subseteq File /\ folder \subseteq BackupFile
      /\ made \in [files : 0..MaxFiles, backups : Nat]
      /\ saving \in [Savers -> SaverState] /\ icon \in IconState
      /\ copying \in [Writer -> CopyState] /\ web \in WebState /\ host \in HostState
  BY DEF Typed, ServerTyped, DataTyped, FolderTyped, TasksTyped
<1>i. Idle \in SaverState /\ Idle \in IconState /\ Idle \in CopyState /\ Idle \in WebState
        /\ Idle \in HostState
  BY DEF SaverState, IconState, CopyState, WebState, HostState
<1>1. CASE ServerStep
  <2>1. CASE OpenDatabase \/ BackUpBeforeUpgrade \/ StartServing \/ PassDay
               \/ \E v \in Versions : Install(v)
    BY <1>0, <2>1 DEF TasksTyped, OpenDatabase, BackUpBeforeUpgrade, StartServing, PassDay, Install
  <2>2. CASE End
    BY <1>0, <1>i, <2>2 DEF TasksTyped, End
  <2>3. CASE NewServer
    BY <1>0, <1>i, <2>3 DEF TasksTyped, NewServer
  <2> QED BY <1>1, <2>1, <2>2, <2>3 DEF ServerStep
<1>2. CASE MemberStep
  BY <1>0, <1>2 DEF TasksTyped, MemberStep, SignUp, SignOut, Write
<1>3. CASE SettingsStep
  <2>1. PICK s \in Savers :
          \/ \E public \in {"true", "false"}, withLogo \in BOOLEAN : SaveGeneral(s, public, withLogo)
          \/ RemoveLogo(s) \/ ReadPreviousLogo(s) \/ StoreLogo(s) \/ ShowLogo(s)
          \/ StorePublicMode(s) \/ ShowPublicMode(s)
    BY <1>3 DEF SettingsStep
  <2>2. saving[s] \in SaverState
    BY <1>0
  <2>3. SUFFICES \E state \in SaverState : saving' = [saving EXCEPT ![s] = state]
    <3>1. UNCHANGED <<icon, copying, web, host>>
      BY <2>1 DEF SaveGeneral, RemoveLogo, ReadPreviousLogo, StoreLogo, ShowLogo,
                  StorePublicMode, ShowPublicMode
    <3> QED BY <1>0, <3>1 DEF TasksTyped
  <2>4. CASE \E public \in {"true", "false"}, withLogo \in BOOLEAN : SaveGeneral(s, public, withLogo)
    <3>1. PICK public \in Choice, withLogo \in BOOLEAN : SaveGeneral(s, public, withLogo)
      BY <2>4 DEF Choice
    <3>2. CASE withLogo
      <4>1. made'.files \in FileRef
        BY <1>0, <3>1, <3>2, InstanceAssumption DEF SaveGeneral, FileRef, File
      <4>2. [pc |-> "file", logo |-> made'.files, then |-> public] \in SaverState
        BY <4>1 DEF SaverState
      <4> QED BY <3>1, <3>2, <4>2 DEF SaveGeneral, Saver
    <3>3. CASE ~withLogo
      <4>1. [pc |-> "checked", then |-> public] \in SaverState
        BY DEF SaverState
      <4> QED BY <3>1, <3>3, <4>1 DEF SaveGeneral, Saver
    <3> QED BY <3>2, <3>3
  <2>5. CASE RemoveLogo(s)
    <3>1. [pc |-> "file", logo |-> NoFile, then |-> "nothing"] \in SaverState
      BY DEF SaverState, FileRef
    <3> QED BY <2>5, <3>1 DEF RemoveLogo, Saver
  <2>6. CASE ReadPreviousLogo(s)
    <3>1. saving[s] \in [pc : {"file"}, logo : FileRef, then : Choice \cup {"nothing"}]
      BY <2>2, <2>6, SaverHolds DEF ReadPreviousLogo
    <3>2. db.logo \in FileRef
      BY <1>0 DEF Database, FileRef
    <3>3. [pc |-> "previous", logo |-> saving[s].logo, then |-> saving[s].then,
           previous |-> db.logo] \in SaverState
      BY <3>1, <3>2 DEF SaverState
    <3> QED BY <2>6, <3>3 DEF ReadPreviousLogo, Saver
  <2>7. CASE StoreLogo(s)
    <3>1. saving[s] \in [pc : {"previous", "stored"}, logo : FileRef,
                         then : Choice \cup {"nothing"}, previous : FileRef]
      BY <2>2, <2>7, SaverHolds DEF StoreLogo
    <3>2. [saving[s] EXCEPT !.pc = "stored"] \in SaverState
      BY <3>1 DEF SaverState
    <3> QED BY <2>7, <3>2 DEF StoreLogo, Saver
  <2>8. CASE ShowLogo(s)
    <3>1. saving[s] \in [pc : {"previous", "stored"}, logo : FileRef,
                         then : Choice \cup {"nothing"}, previous : FileRef]
      BY <2>2, <2>8, SaverHolds DEF ShowLogo
    <3>2. saving[s].then # "nothing" => [pc |-> "checked", then |-> saving[s].then] \in SaverState
      BY <3>1 DEF SaverState
    <3> QED BY <1>i, <2>8, <3>2 DEF ShowLogo, Saver
  <2>9. CASE StorePublicMode(s)
    <3>1. saving[s] \in [pc : {"checked", "written"}, then : Choice]
      BY <2>2, <2>9, SaverHolds DEF StorePublicMode
    <3>2. [saving[s] EXCEPT !.pc = "written"] \in SaverState
      BY <3>1 DEF SaverState
    <3> QED BY <2>9, <3>2 DEF StorePublicMode, Saver
  <2>10. CASE ShowPublicMode(s)
    BY <1>i, <2>10 DEF ShowPublicMode, Saver
  <2> QED BY <2>1, <2>4, <2>5, <2>6, <2>7, <2>8, <2>9, <2>10
<1>4. CASE IconStep
  <2>1. icon' \in IconState
    <3>1. CASE UploadIcon
      <4>1. made'.files \in File
        BY <1>0, <3>1, InstanceAssumption DEF UploadIcon, File
      <4> QED BY <3>1, <4>1 DEF UploadIcon, IconState
    <3>2. CASE RecordIcon \/ RemoveIconFile
      BY <1>i, <3>2 DEF RecordIcon, RemoveIconFile
    <3>3. ASSUME NEW f \in File, DeleteIcon(f) PROVE icon' \in IconState
      BY <3>3 DEF DeleteIcon, IconState
    <3> QED BY <1>4, <3>1, <3>2, <3>3 DEF IconStep
  <2>2. UNCHANGED <<saving, copying, web, host>>
    BY <1>4 DEF IconStep, UploadIcon, RecordIcon, RemoveIconFile, DeleteIcon
  <2> QED BY <1>0, <2>1, <2>2 DEF TasksTyped
<1>5. CASE BackupStep
  <2>1. CASE RunDue
    <3>1. [pc |-> "due", keep |-> db.keep] \in CopyState
      BY <1>0 DEF Database, CopyState
    <3> QED BY <1>0, <2>1, <3>1 DEF TasksTyped, RunDue, Copying, Writer
  <2>2. CASE HostBackup
    <3>1. [pc |-> "due", keep |-> 0] \in CopyState
      BY DEF CopyState
    <3> QED BY <1>0, <2>2, <3>1 DEF TasksTyped, HostBackup, Copying, Writer
  <2>3. ASSUME NEW w \in Writer, TakeSnapshot(w) PROVE TasksTyped'
    <3>1. copying[w] \in [pc : {"due"}, keep : KeepRange \cup {0}]
      BY <1>0, <2>3, CopyHolds DEF TakeSnapshot
    <3>2. ForgetSessions(db) \in Copied
      BY <1>0, <2>3, BackupTypes DEF TakeSnapshot, CanCopy
    <3>3. [pc |-> "snapshot", keep |-> copying[w].keep, db |-> ForgetSessions(db)] \in CopyState
      BY <3>1, <3>2 DEF CopyState
    <3> QED BY <1>0, <2>3, <3>3 DEF TasksTyped, TakeSnapshot, Copying
  <2>4. ASSUME NEW w \in Writer, NameBackup(w) \/ FailBackup(w) PROVE TasksTyped'
    <3>1. copying' = [copying EXCEPT ![w] = Idle] /\ UNCHANGED <<saving, icon, web, host>>
      BY <2>4 DEF NameBackup, FailBackup, Copying
    <3> QED BY <1>0, <1>i, <3>1 DEF TasksTyped
  <2>5. ASSUME NEW schedule \in Schedules, SaveSchedule(schedule) PROVE TasksTyped'
    BY <1>0, <2>5 DEF TasksTyped, SaveSchedule
  <2> QED BY <1>5, <2>1, <2>2, <2>3, <2>4, <2>5 DEF BackupStep
<1>6. CASE RestoreStep
  <2>0. SUFFICES web' \in WebState /\ host' \in HostState
    <3>1. UNCHANGED <<saving, icon, copying>>
      <4>1. CASE RefreshState
        BY <4>1 DEF RefreshState
      <4>2. CASE ~RefreshState
        BY <1>6, <4>2, RestoreFrame
      <4> QED BY <4>1, <4>2
    <3> QED BY <1>0, <3>1 DEF TasksTyped
  <2>1. CASE WebRestore \/ RefreshState \/ WebFails
    <3>1. [pc |-> "reading"] \in WebState
      BY DEF WebState
    <3> QED BY <1>0, <1>i, <2>1, <3>1 DEF WebRestore, RefreshState, WebFails
  <2>2. CASE WebCopyInto \/ WebEmpty \/ WebRefill
    <3>1. web \in [pc : {"staged", "copied", "emptied", "refilled"}, file : BackupFile,
                   safe : {FALSE}]
      BY <1>0, <2>2, WebHolds DEF WebCopyInto, WebEmpty, WebRefill
    <3>2. host' = host /\ \E pc \in {"copied", "emptied", "refilled"} : web' = [web EXCEPT !.pc = pc]
      BY <2>2 DEF WebCopyInto, WebEmpty, WebRefill
    <3> QED BY <1>0, <3>1, <3>2 DEF WebState
  <2>3. CASE HostRefill \/ HostFails \/ HostDies \/ ResetPassword
    BY <1>0, <1>i, <2>3 DEF HostRefill, HostFails, HostDies, ResetPassword
  <2>4. CASE BackUpBeforeRestore \/ HostCopyInto \/ HostEmpty
    <3>1. host \in [pc : {"endangered", "staged", "copied", "emptied"}, file : BackupFile,
                    safe : BOOLEAN]
      BY <1>0, <2>4, HostHolds DEF BackUpBeforeRestore, HostCopyInto, HostEmpty
    <3>2. web' = web /\ \E pc \in {"staged", "copied", "emptied"} : host' = [host EXCEPT !.pc = pc]
      BY <2>4 DEF BackUpBeforeRestore, HostCopyInto, HostEmpty
    <3> QED BY <1>0, <3>1, <3>2 DEF HostState
  <2>5. ASSUME NEW file \in folder, RestoreFrom(file) PROVE web' \in WebState /\ host' \in HostState
    <3>1. [pc |-> "staged", file |-> file, safe |-> FALSE] \in WebState
      BY <1>0 DEF WebState
    <3> QED BY <1>0, <1>i, <2>5, <3>1 DEF RestoreFrom
  <2>6. ASSUME NEW file \in folder, HostRestore(file) PROVE web' \in WebState /\ host' \in HostState
    <3>1. db.there \in BOOLEAN
      BY <1>0 DEF Database
    <3>2. [pc |-> FirstStep(db), file |-> file, safe |-> db.there] \in HostState
      BY <1>0, <3>1 DEF HostState, FirstStep
    <3> QED BY <1>0, <2>6, <3>2 DEF HostRestore
  <2> QED BY <1>6, <2>1, <2>2, <2>3, <2>4, <2>5, <2>6 DEF RestoreStep
<1> QED BY <1>1, <1>2, <1>3, <1>4, <1>5, <1>6 DEF Next

\* The memories take no other kind of value.
LEMMA SeenTypes == Typed /\ Next => SeenTyped'
<1> SUFFICES ASSUME Typed, Next PROVE SeenTyped'
  OBVIOUS
<1>0. /\ db \in Database /\ uploads \in SUBSET File /\ seen \in Memories
      /\ today \in 0..MaxDay
      /\ web \in WebState /\ host \in HostState
  BY DEF Typed, ServerTyped, DataTyped, TasksTyped, SeenTyped
<1>w. ASSUME NEW b \in BOOLEAN PROVE [seen EXCEPT !.whole = b] \in Memories
  BY <1>0 DEF Memories
<1>t. ASSUME NEW b \in BOOLEAN PROVE [seen EXCEPT !.whole = b, !.tried = -1] \in Memories
  <2>1. -1 \in -1..MaxDay
    BY InstanceAssumption
  <2> QED BY <1>0, <2>1 DEF Memories
<1> USE DEF SeenTyped
<1>1. CASE ServerStep
  <2>1. CASE End
    <3>1. (seen.whole /\ web.pc # "emptied") \in BOOLEAN
      OBVIOUS
    <3> QED BY <1>w, <2>1, <3>1 DEF End
  <2>2. CASE NewServer
    BY <1>t, <2>2 DEF NewServer
  <2>3. CASE OpenDatabase \/ BackUpBeforeUpgrade \/ StartServing \/ PassDay
               \/ \E v \in Versions : Install(v)
    BY <1>0, <2>3 DEF OpenDatabase, BackUpBeforeUpgrade, StartServing, PassDay, Install
  <2> QED BY <1>1, <2>1, <2>2, <2>3 DEF ServerStep
<1>2. CASE MemberStep
  <2>1. CASE SignUp \/ Write
    BY <1>0, <2>1 DEF SignUp, Write
  <2>2. ASSUME NEW i \in db.sessions, SignOut(i) PROVE SeenTyped'
    <3>1. seen.ended \cup {i} \in SUBSET (0..MaxInputs)
      BY <1>0 DEF Memories, Database
    <3> QED BY <1>0, <2>2, <3>1 DEF SignOut, Memories
  <2> QED BY <1>2, <2>1, <2>2 DEF MemberStep
<1>3. CASE SettingsStep
  BY <1>0, <1>3 DEF SettingsStep, SaveGeneral, RemoveLogo, ReadPreviousLogo, StoreLogo, ShowLogo,
              StorePublicMode, ShowPublicMode
<1>4. CASE IconStep
  BY <1>0, <1>4 DEF IconStep, UploadIcon, RecordIcon, RemoveIconFile, DeleteIcon
<1>5. CASE BackupStep
  <2>1. CASE RunDue
    <3> DEFINE due == LastDue(db.frequency, today)
               again == IF due = seen.tried THEN seen.tries + 1 ELSE 1
    <3>1. due \in -1..MaxDay
      BY <1>0, LastDueType DEF Database
    <3>2. again \in Nat
      BY <1>0 DEF Memories
    <3>3. seen' = [seen EXCEPT !.tried = due, !.tries = again]
      BY <1>0, <2>1 DEF RunDue, Memories
    <3> HIDE DEF due, again
    <3> QED BY <1>0, <3>1, <3>2, <3>3 DEF Memories
  <2>2. CASE HostBackup \/ \E schedule \in Schedules : SaveSchedule(schedule)
    BY <1>0, <2>2 DEF HostBackup, SaveSchedule
  <2>3. ASSUME NEW w \in Writer, TakeSnapshot(w) \/ NameBackup(w) \/ FailBackup(w) PROVE SeenTyped'
    BY <1>0, <2>3 DEF TakeSnapshot, NameBackup, FailBackup
  <2> QED BY <1>5, <2>1, <2>2, <2>3 DEF BackupStep
<1>6. CASE RestoreStep
  <2>1. ASSUME NEW task, CopyInto(task) PROVE SeenTyped'
    <3> DEFINE data == [db |-> ForgetSessions(db), files |-> uploads]
    <3>1. data \in [db : Database, files : SUBSET File]
      BY <1>0 DEF ForgetSessions, Database
    <3>2. [seen EXCEPT !.replaced = seen.replaced \cup {data}] \in Memories
      <4>1. seen.replaced \cup {data} \in SUBSET [db : Database, files : SUBSET File]
        BY <1>0, <3>1 DEF Memories
      <4> QED BY <1>0, <4>1 DEF Memories
    <3> DEFINE kept == IF task.safe THEN seen.replaced \cup {data} ELSE seen.replaced
    <3>3. kept \in SUBSET [db : Database, files : SUBSET File]
      BY <1>0, <3>1 DEF Memories
    <3>4. seen' = [seen EXCEPT !.whole = FALSE, !.tried = -1, !.replaced = kept]
      BY <1>0, <2>1 DEF CopyInto, Memories
    <3> HIDE DEF kept
    <3>5. [seen EXCEPT !.whole = FALSE, !.tried = -1] \in Memories
      BY <1>t
    <3> QED BY <3>3, <3>4, <3>5 DEF Memories
  <2>2. ASSUME NEW file, Refilled(file) PROVE SeenTyped'
    <3>1. (/\ FileNames(db) \subseteq uploads'
           /\ Quiet(icon) /\ \A s \in Savers : Quiet(saving[s])) \in BOOLEAN
      OBVIOUS
    <3> QED BY <1>w, <2>2, <3>1 DEF Refilled
  <2>3. CASE HostFails
    BY <1>0, <1>w, <2>3 DEF HostFails
  <2>4. CASE WebRestore \/ WebEmpty \/ RefreshState \/ WebFails \/ BackUpBeforeRestore \/ HostEmpty
               \/ HostDies \/ ResetPassword \/ \E file \in folder : RestoreFrom(file) \/ HostRestore(file)
    BY <1>0, <2>4 DEF WebRestore, WebEmpty, RefreshState, WebFails, BackUpBeforeRestore, HostEmpty,
                      HostDies, ResetPassword, RestoreFrom, HostRestore
  <2>5. CASE WebCopyInto \/ WebRefill \/ HostCopyInto \/ HostRefill
    BY <2>1, <2>2, <2>5 DEF WebCopyInto, WebRefill, HostCopyInto, HostRefill
  <2> QED BY <1>6, <2>3, <2>4, <2>5 DEF RestoreStep
<1> QED BY <1>1, <1>2, <1>3, <1>4, <1>5, <1>6 DEF Next

-----------------------------------------------------------------------------
(* What each group of steps leaves alone                                   *)

\* What members write changes an account, their sessions and their text.
LEMMA MemberEdits ==
  ASSUME Typed, MemberStep
  PROVE  /\ UNCHANGED <<binary, server, uploads, folder, memory, saving, icon, copying, web, host,
                        today, made>>
         /\ Up
         /\ db'.there = db.there /\ db'.schema = db.schema /\ db'.logo = db.logo
         /\ db'.icons = db.icons /\ db'.attempted = db.attempted
         /\ seen'.replaced = seen.replaced /\ seen'.whole = seen.whole
         /\ seen'.tried = seen.tried /\ seen'.tries = seen.tries
<1> USE DEF Typed, DataTyped, Database, SeenTyped, Memories
<1>1. CASE SignUp
  BY <1>1 DEF SignUp
<1>2. CASE Write
  BY <1>2 DEF Write, Staffed
<1>3. CASE \E i \in db.sessions : SignOut(i)
  BY <1>3 DEF SignOut
<1> QED BY <1>1, <1>2, <1>3 DEF MemberStep

\* The settings change the logo and the access of the database.
LEMMA SettingsEdits ==
  ASSUME Typed, SettingsStep
  PROVE  /\ UNCHANGED <<binary, server, folder, icon, copying, web, host, today, seen>>
         /\ inputs' \in {inputs, inputs + 1} /\ made'.backups = made.backups
         /\ db'.there = db.there /\ db'.schema = db.schema /\ db'.sessions = db.sessions
         /\ db'.icons = db.icons /\ db'.attempted = db.attempted
<1> USE DEF Typed, ServerTyped, DataTyped, Database
<1>1. PICK s \in Savers :
        \/ \E public \in {"true", "false"}, withLogo \in BOOLEAN : SaveGeneral(s, public, withLogo)
        \/ RemoveLogo(s) \/ ReadPreviousLogo(s) \/ StoreLogo(s) \/ ShowLogo(s)
        \/ StorePublicMode(s) \/ ShowPublicMode(s)
  BY DEF SettingsStep
<1>2. CASE \E public \in {"true", "false"}, withLogo \in BOOLEAN : SaveGeneral(s, public, withLogo)
  BY <1>2 DEF SaveGeneral, Counted
<1>3. CASE RemoveLogo(s) \/ ReadPreviousLogo(s)
  BY <1>3 DEF RemoveLogo, ReadPreviousLogo, Counted
<1>4. CASE StoreLogo(s)
  BY <1>4 DEF StoreLogo
<1>5. CASE ShowLogo(s)
  BY <1>5 DEF ShowLogo
<1>6. CASE StorePublicMode(s) \/ ShowPublicMode(s)
  BY <1>6 DEF StorePublicMode, ShowPublicMode
<1> QED BY <1>1, <1>2, <1>3, <1>4, <1>5, <1>6

\* The icon library changes the icons of the database.
LEMMA IconEdits ==
  ASSUME Typed, IconStep
  PROVE  /\ UNCHANGED <<binary, server, folder, memory, saving, copying, web, host, today, seen>>
         /\ inputs' \in {inputs, inputs + 1}
         /\ db'.there = db.there /\ db'.schema = db.schema /\ db'.sessions = db.sessions
         /\ db'.logo = db.logo /\ db'.attempted = db.attempted
<1> USE DEF Typed, ServerTyped, DataTyped, Database
<1>1. CASE UploadIcon
  BY <1>1 DEF UploadIcon, Counted
<1>2. CASE RecordIcon \/ RemoveIconFile
  BY <1>2 DEF RecordIcon, RemoveIconFile
<1>3. CASE \E f \in File : DeleteIcon(f)
  BY <1>3 DEF DeleteIcon, Counted
<1> QED BY <1>1, <1>2, <1>3 DEF IconStep

\* A backup reads the database and the files.
LEMMA BackupEdits ==
  ASSUME Typed, BackupStep
  PROVE  /\ UNCHANGED <<binary, server, uploads, memory, saving, icon, web, host, today>>
         /\ inputs' \in {inputs, inputs + 1} /\ made'.files = made.files
         /\ db'.there = db.there /\ db'.schema = db.schema /\ db'.sessions = db.sessions
         /\ db'.logo = db.logo /\ db'.icons = db.icons
         /\ seen'.replaced = seen.replaced /\ seen'.whole = seen.whole /\ seen'.ended = seen.ended
         /\ RunDue \/ (db'.attempted = db.attempted /\ seen' = seen)
<1> DEFINE Same ==
      /\ UNCHANGED <<binary, server, uploads, memory, saving, icon, web, host, today>>
      /\ inputs' \in {inputs, inputs + 1} /\ made'.files = made.files
      /\ db'.there = db.there /\ db'.schema = db.schema /\ db'.sessions = db.sessions
      /\ db'.logo = db.logo /\ db'.icons = db.icons
      /\ seen'.replaced = seen.replaced /\ seen'.whole = seen.whole /\ seen'.ended = seen.ended
      /\ RunDue \/ (db'.attempted = db.attempted /\ seen' = seen)
<1> USE DEF Typed, ServerTyped, DataTyped, Database, SeenTyped, Memories
<1>1. CASE RunDue
  BY <1>1 DEF RunDue
<1>2. CASE HostBackup
  BY <1>2 DEF HostBackup, Counted
<1>3. ASSUME NEW w \in Writer, TakeSnapshot(w) PROVE Same
  BY <1>3 DEF TakeSnapshot
<1>4. ASSUME NEW w \in Writer, NameBackup(w) PROVE Same
  BY <1>4 DEF NameBackup, Written
<1>5. ASSUME NEW w \in Writer, FailBackup(w) PROVE Same
  BY <1>5 DEF FailBackup
<1>6. ASSUME NEW schedule \in Schedules, SaveSchedule(schedule) PROVE Same
  BY <1>6 DEF SaveSchedule, Counted
<1> QED BY <1>1, <1>2, <1>3, <1>4, <1>5, <1>6 DEF BackupStep

-----------------------------------------------------------------------------
(* The server                                                              *)

LEMMA StoppedStep ==
  ASSUME Typed, StoppedOK, Next
  PROVE  StoppedOK'
<1>0. /\ db \in Database /\ host \in HostState /\ web \in WebState
      /\ saving \in [Savers -> SaverState] /\ icon \in IconState
      /\ copying \in [Writer -> CopyState]
      /\ server \in {"down", "opening", "migrating", "up"}
  BY DEF Typed, DataTyped, TasksTyped, ServerTyped
<1>h. Quiet(host) => host = Idle
  BY <1>0, HostHolds DEF Quiet
<1> USE DEF StoppedOK, NothingRuns, Up
<1>1. CASE ServerStep
  <2>1. CASE OpenDatabase
    BY <1>0, <1>h, <2>1 DEF OpenDatabase, Database
  <2>2. CASE BackUpBeforeUpgrade \/ PassDay \/ \E v \in Versions : Install(v)
    BY <1>h, <2>2 DEF BackUpBeforeUpgrade, PassDay, Install
  <2>3. CASE StartServing
    <3>1. Reconcile(RunMigrations(db)).there = db.there
      BY <1>0 DEF Reconcile, RunMigrations, Database
    <3> QED BY <2>3, <3>1 DEF StartServing
  <2>4. CASE End
    BY <1>0, <2>4 DEF End, Writer
  <2>5. CASE NewServer
    BY <1>0, <1>h, <2>5 DEF NewServer, Writer
  <2> QED BY <1>1, <2>1, <2>2, <2>3, <2>4, <2>5 DEF ServerStep
<1>2. CASE MemberStep
  BY <1>2, MemberEdits
<1>3. CASE SettingsStep
  <2>1. Up
    BY <1>3 DEF SettingsStep, SaveGeneral, RemoveLogo, ReadPreviousLogo, StoreLogo, ShowLogo,
                StorePublicMode, ShowPublicMode, Staffed, Idle
  <2> QED BY <1>3, <2>1, SettingsEdits
<1>4. CASE IconStep
  <2>1. Up
    BY <1>4 DEF IconStep, UploadIcon, RecordIcon, RemoveIconFile, DeleteIcon, Staffed, Idle
  <2> QED BY <1>4, <2>1, IconEdits
<1>5. CASE BackupStep
  <2>1. Up \/ copying'["auto"] = copying["auto"]
    <3>1. CASE RunDue \/ HostBackup \/ \E schedule \in Schedules : SaveSchedule(schedule)
      BY <1>0, <3>1 DEF RunDue, HostBackup, SaveSchedule, Staffed, Copying, Writer
    <3>2. ASSUME NEW w \in Writer, TakeSnapshot(w) \/ NameBackup(w) \/ FailBackup(w)
          PROVE  Up \/ copying'["auto"] = copying["auto"]
      <4>1. w = "auto" => Up
        BY <3>2 DEF TakeSnapshot, NameBackup, FailBackup, Quiet, Idle
      <4>2. w # "auto" => copying'["auto"] = copying["auto"]
        BY <1>0, <3>2 DEF TakeSnapshot, NameBackup, FailBackup, Copying, Writer
      <4> QED BY <4>1, <4>2
    <3> QED BY <1>5, <3>1, <3>2 DEF BackupStep
  <2> QED BY <1>5, <2>1, BackupEdits
<1>6. CASE RestoreStep
  <2>1. CASE RefreshState
    <3>1. Up
      BY <2>1 DEF RefreshState, Idle
    <3>2. Reconcile(db).there = db.there
      BY <1>0 DEF Reconcile, Database
    <3> QED BY <2>1, <3>1, <3>2 DEF RefreshState
  <2>2. CASE ~RefreshState
    <3>0. UNCHANGED <<server, saving, icon, copying>>
      BY <1>6, <2>2, RestoreFrame
    <3>1. ASSUME NEW task, task.file \in BackupFile, CopyInto(task) PROVE db'.there
      BY <3>1 DEF CopyInto, Staged, BringUpToDate, RunMigrations, ForgetSessions, BackupFile, Copied,
                  Database
    <3>2. CASE WebRestore \/ WebEmpty \/ WebRefill \/ WebFails \/ \E file \in folder : RestoreFrom(file)
      <4>1. Up
        BY <3>2 DEF WebRestore, WebEmpty, WebRefill, WebFails, RestoreFrom, Idle
      <4>2. UNCHANGED <<db, host>>
        BY <3>2 DEF WebRestore, WebEmpty, WebRefill, WebFails, RestoreFrom
      <4> QED BY <3>0, <4>1, <4>2
    <3>3. CASE WebCopyInto
      <4>1. Up /\ host' = host
        BY <3>3 DEF WebCopyInto, Idle
      <4>2. web.file \in BackupFile
        BY <1>0, <3>3, WebHolds DEF WebCopyInto
      <4>3. db'.there
        BY <3>1, <3>3, <4>2 DEF WebCopyInto
      <4> QED BY <3>0, <4>1, <4>3
    <3>4. CASE BackUpBeforeRestore \/ HostCopyInto \/ HostEmpty \/ HostRefill \/ HostFails \/ HostDies
      <4>1. server = "down" /\ web' = web
        BY <3>4 DEF BackUpBeforeRestore, HostCopyInto, HostEmpty, HostRefill, HostFails, HostDies,
                    Quiet, Idle
      <4> QED BY <3>0, <4>1
    <3>5. CASE ResetPassword \/ \E file \in folder : HostRestore(file)
      <4>1. server = "down" /\ web' = web
        BY <3>5 DEF ResetPassword, HostRestore
      <4> QED BY <3>0, <4>1
    <3> QED BY <1>6, <2>2, <3>2, <3>3, <3>4, <3>5 DEF RestoreStep
  <2> QED BY <2>1, <2>2
<1> QED BY <1>1, <1>2, <1>3, <1>4, <1>5, <1>6 DEF Next

\* The server listens after its migrations, and a restore from the first
\* screen stages a database it has migrated.
LEMMA SchemaStep ==
  ASSUME Typed, StoppedOK, StoppedOK', ServesItsOwnSchema, Next
  PROVE  ServesItsOwnSchema'
<1>0. db \in Database /\ host \in HostState /\ web \in WebState
  BY DEF Typed, DataTyped, TasksTyped
<1> USE DEF ServesItsOwnSchema, Up
<1>1. CASE ServerStep
  <2>1. CASE StartServing
    BY <1>0, <2>1 DEF StartServing, Reconcile, RunMigrations, Database
  <2>2. CASE OpenDatabase \/ BackUpBeforeUpgrade \/ End \/ NewServer \/ PassDay
               \/ \E v \in Versions : Install(v)
    BY <2>2 DEF OpenDatabase, BackUpBeforeUpgrade, End, NewServer, PassDay, Install
  <2> QED BY <1>1, <2>1, <2>2 DEF ServerStep
<1>2. CASE MemberStep \/ SettingsStep \/ IconStep \/ BackupStep
  BY <1>2, MemberEdits, SettingsEdits, IconEdits, BackupEdits
<1>3. CASE RestoreStep
  <2>1. CASE RefreshState
    BY <1>0, <2>1 DEF RefreshState, Reconcile, Database
  <2>2. CASE WebCopyInto
    <3>1. web.file.db \in Database
      BY <1>0, <2>2, WebHolds DEF WebCopyInto, BackupFile, Copied
    <3>2. db'.schema = binary
      BY <2>2, <3>1 DEF WebCopyInto, CopyInto, Staged, BringUpToDate, RunMigrations, ForgetSessions,
                        Database
    <3> QED BY <2>2, <3>2 DEF WebCopyInto
  <2>3. CASE WebRestore \/ WebEmpty \/ WebRefill \/ WebFails \/ \E file \in folder : RestoreFrom(file)
    BY <2>3 DEF WebRestore, WebEmpty, WebRefill, WebFails, RestoreFrom
  <2>4. CASE BackUpBeforeRestore \/ HostCopyInto \/ HostEmpty \/ HostRefill \/ HostFails \/ HostDies
    <3>1. server = "down" /\ server' = server
      BY <2>4 DEF BackUpBeforeRestore, HostCopyInto, HostEmpty, HostRefill, HostFails, HostDies,
                  Quiet, Idle, StoppedOK
    <3> QED BY <3>1
  <2>5. CASE ResetPassword \/ \E file \in folder : HostRestore(file)
    BY <2>5 DEF ResetPassword, HostRestore
  <2> QED BY <1>3, <2>1, <2>2, <2>3, <2>4, <2>5 DEF RestoreStep
<1> QED BY <1>1, <1>2, <1>3 DEF Next

-----------------------------------------------------------------------------
(* Whatever a restore replaces is kept                                     *)

\* A before-restore backup is told by its name.
LEMMA NameOfBeforeRestore == OfFileName(Words("BeforeRestore")) = "BeforeRestore"
<1>1. Words("BeforeRestore") = <<"before", "restore">>
  BY DEF Words
<1>2. ~IsPrefix(<<"auto">>, <<"before", "restore">>)
  <2>1. SubSeq(<<"auto">>, 1, 1)[1] = "auto" /\ SubSeq(<<"before", "restore">>, 1, 1)[1] = "before"
    OBVIOUS
  <2> QED BY <2>1 DEF IsPrefix
<1>3. IsPrefix(<<"before", "restore">>, <<"before", "restore">>)
  BY DEF IsPrefix
<1>4. ~IsPrefix(<<"backup">>, <<"before", "restore">>)
  <2>1. SubSeq(<<"backup">>, 1, 1)[1] = "backup" /\ SubSeq(<<"before", "restore">>, 1, 1)[1] = "before"
    OBVIOUS
  <2> QED BY <2>1 DEF IsPrefix
<1> QED BY <1>1, <1>2, <1>3, <1>4 DEF OfFileName

\* The rotation of another kind leaves the before-restore backups.
LEMMA RotationOfAnotherKind ==
  ASSUME NEW files, NEW kind, kind # "BeforeRestore", NEW keep
  PROVE  OfKind(files, "BeforeRestore") \subseteq OfKind(Rotated(files, kind, keep), "BeforeRestore")
BY DEF OfKind, Rotated

\* So does every step.
LEMMA BeforeRestoreStays ==
  ASSUME Next
  PROVE  OfKind(folder, "BeforeRestore") \subseteq OfKind(folder', "BeforeRestore")
<1>a. ASSUME NEW files, folder \subseteq files
      PROVE  OfKind(folder, "BeforeRestore") \subseteq OfKind(files, "BeforeRestore")
  BY <1>a DEF OfKind
<1>1. CASE ServerStep
  <2>1. CASE BackUpBeforeUpgrade
    BY <1>a, <2>1, RotationOfAnotherKind DEF BackUpBeforeUpgrade
  <2>2. CASE OpenDatabase \/ StartServing \/ End \/ NewServer \/ PassDay
               \/ \E v \in Versions : Install(v)
    BY <2>2 DEF OpenDatabase, StartServing, End, NewServer, PassDay, Install
  <2> QED BY <1>1, <2>1, <2>2 DEF ServerStep
<1>2. CASE MemberStep
  BY <1>2 DEF MemberStep, SignUp, SignOut, Write
<1>3. CASE SettingsStep
  BY <1>3 DEF SettingsStep, SaveGeneral, RemoveLogo, ReadPreviousLogo, StoreLogo, ShowLogo,
              StorePublicMode, ShowPublicMode
<1>4. CASE IconStep
  BY <1>4 DEF IconStep, UploadIcon, RecordIcon, RemoveIconFile, DeleteIcon
<1>5. CASE BackupStep
  <2>1. ASSUME NEW w \in Writer, NameBackup(w)
        PROVE  OfKind(folder, "BeforeRestore") \subseteq OfKind(folder', "BeforeRestore")
    <3>1. CASE w = "auto"
      BY <1>a, <2>1, <3>1, RotationOfAnotherKind DEF NameBackup
    <3>2. CASE w # "auto"
      BY <1>a, <2>1, <3>2 DEF NameBackup, Written
    <3> QED BY <3>1, <3>2
  <2>2. CASE RunDue \/ HostBackup \/ \E schedule \in Schedules : SaveSchedule(schedule)
    BY <2>2 DEF RunDue, HostBackup, SaveSchedule
  <2>3. CASE \E w \in Writer : TakeSnapshot(w) \/ FailBackup(w)
    BY <2>3 DEF TakeSnapshot, FailBackup
  <2> QED BY <1>5, <2>1, <2>2, <2>3 DEF BackupStep
<1>6. CASE RestoreStep
  <2>1. CASE BackUpBeforeRestore
    BY <1>a, <2>1 DEF BackUpBeforeRestore, Written
  <2>2. CASE WebRestore \/ WebCopyInto \/ WebEmpty \/ WebRefill \/ RefreshState \/ WebFails
    BY <2>2 DEF WebRestore, WebCopyInto, WebEmpty, WebRefill, RefreshState, WebFails
  <2>3. CASE HostCopyInto \/ HostEmpty \/ HostRefill \/ HostFails \/ HostDies \/ ResetPassword
    BY <2>3 DEF HostCopyInto, HostEmpty, HostRefill, HostFails, HostDies, ResetPassword
  <2>4. CASE \E file \in folder : RestoreFrom(file) \/ HostRestore(file)
    BY <2>4 DEF RestoreFrom, HostRestore
  <2> QED BY <1>6, <2>1, <2>2, <2>3, <2>4 DEF RestoreStep
<1> QED BY <1>1, <1>2, <1>3, <1>4, <1>5, <1>6 DEF Next

\* While the host restores, nothing else writes the database or the files.
LEMMA HostAlone ==
  ASSUME Typed, StoppedOK, Next, host # Idle
  PROVE  (UNCHANGED <<db, uploads, host>> /\ seen'.replaced = seen.replaced)
           \/ BackUpBeforeRestore \/ HostCopyInto \/ HostEmpty \/ HostRefill \/ HostFails \/ HostDies
<1> DEFINE Alone == (UNCHANGED <<db, uploads, host>> /\ seen'.replaced = seen.replaced)
           \/ BackUpBeforeRestore \/ HostCopyInto \/ HostEmpty \/ HostRefill \/ HostFails \/ HostDies
<1>0. /\ server = "down" /\ NothingRuns /\ ~Quiet(host)
  BY HostHolds DEF StoppedOK, Up, Quiet, Typed, TasksTyped
<1> USE DEF Up, Staffed, NothingRuns, Idle
<1>1. CASE ServerStep
  BY <1>0, <1>1 DEF ServerStep, OpenDatabase, BackUpBeforeUpgrade, StartServing, End, NewServer,
                    PassDay, Install
<1>2. CASE MemberStep
  BY <1>0, <1>2 DEF MemberStep, SignUp, SignOut, Write
<1>3. CASE SettingsStep
  BY <1>0, <1>3 DEF SettingsStep, SaveGeneral, RemoveLogo, ReadPreviousLogo, StoreLogo, ShowLogo,
                    StorePublicMode, ShowPublicMode
<1>4. CASE IconStep
  BY <1>0, <1>4 DEF IconStep, UploadIcon, RecordIcon, RemoveIconFile, DeleteIcon
<1>5. CASE BackupStep
  <2>1. CASE RunDue \/ HostBackup \/ \E schedule \in Schedules : SaveSchedule(schedule)
    BY <1>0, <2>1 DEF RunDue, HostBackup, SaveSchedule
  <2>2. ASSUME NEW w \in Writer, TakeSnapshot(w) \/ NameBackup(w) \/ FailBackup(w) PROVE Alone
    <3>1. w # "auto"
      BY <1>0, <2>2 DEF TakeSnapshot, NameBackup, FailBackup, Quiet
    <3> QED BY <2>2, <3>1 DEF TakeSnapshot, NameBackup, FailBackup
  <2> QED BY <1>5, <2>1, <2>2 DEF BackupStep
<1>6. CASE RestoreStep
  BY <1>0, <1>6 DEF RestoreStep, WebRestore, WebCopyInto, WebEmpty, WebRefill, RefreshState, WebFails,
                    RestoreFrom, HostRestore, ResetPassword
<1> QED BY <1>1, <1>2, <1>3, <1>4, <1>5, <1>6 DEF Next

\* A restore that is about to replace a database has backed it up.
LEMMA BackedUpStep ==
  ASSUME Typed, StoppedOK, BackedUp, Next
  PROVE  BackedUp'
<1>0. db \in Database /\ host \in HostState
  BY DEF Typed, DataTyped, TasksTyped
<1>1. CASE host # Idle
  <2>1. CASE UNCHANGED <<db, uploads, host>>
    BY <2>1, BeforeRestoreStays DEF BackedUp
  <2>2. CASE BackUpBeforeRestore
    <3> DEFINE file == Backup("BeforeRestore", db, uploads)
    <3>1. file \in folder' /\ db' = db /\ uploads' = uploads
      BY <2>2 DEF BackUpBeforeRestore, Written
    <3>2. file \in OfKind(folder', "BeforeRestore")
      BY <3>1, NameOfBeforeRestore DEF Backup, OfKind
    <3>3. file.db = ForgetSessions(db) /\ file.files = uploads
      BY DEF Backup
    <3> HIDE DEF file
    <3> QED BY <3>1, <3>2, <3>3 DEF BackedUp
  <2>3. CASE HostCopyInto \/ HostEmpty
    BY <1>0, <1>1, <2>3, HostHolds DEF HostCopyInto, HostEmpty, BackedUp
  <2>4. CASE HostRefill \/ HostFails \/ HostDies
    BY <2>4 DEF HostRefill, HostFails, HostDies, BackedUp, Idle
  <2> QED BY <1>1, <2>1, <2>2, <2>3, <2>4, HostAlone
<1>2. CASE host = Idle
  <2>1. host' # Idle => \E file \in folder : HostRestore(file)
    <3>1. CASE ServerStep
      BY <1>2, <3>1 DEF ServerStep, OpenDatabase, BackUpBeforeUpgrade, StartServing, End, NewServer,
                        PassDay, Install
    <3>2. CASE MemberStep \/ SettingsStep \/ IconStep \/ BackupStep
      BY <1>2, <3>2, MemberEdits, SettingsEdits, IconEdits, BackupEdits
    <3>3. CASE RestoreStep
      BY <1>2, <3>3 DEF RestoreStep, WebRestore, WebCopyInto, WebEmpty, WebRefill, RefreshState,
                  WebFails, BackUpBeforeRestore, HostCopyInto, HostEmpty, HostRefill, HostFails,
                  HostDies, RestoreFrom, ResetPassword, Quiet, Idle
    <3> QED BY <1>2, <3>1, <3>2, <3>3 DEF Next
  <2>2. ASSUME NEW file \in folder, HostRestore(file) PROVE BackedUp'
    <3>1. host'.pc = "staged" => ~host'.safe
      BY <1>0, <2>2 DEF HostRestore, FirstStep, Database
    <3> QED BY <3>1 DEF BackedUp
  <2> QED BY <2>1, <2>2 DEF BackedUp, Idle
<1> QED BY <1>1, <1>2

\* What was replaced is in a backup that stays.
LEMMA ReplacedStep ==
  ASSUME Typed, StoppedOK, BackedUp, ReplacedDataIsKept, Next
  PROVE  ReplacedDataIsKept'
<1>0. /\ db \in Database /\ host \in HostState /\ web \in WebState
      /\ seen \in Memories
  BY DEF Typed, DataTyped, TasksTyped, SeenTyped
<1> DEFINE Kept(old) == \E file \in OfKind(folder', "BeforeRestore") :
                          file.db = old.db /\ file.files = old.files
<1>1. \A old \in seen.replaced : Kept(old)
  BY BeforeRestoreStays DEF ReplacedDataIsKept
<1>2. CASE WebCopyInto
  <2>1. web.safe = FALSE
    BY <1>0, <1>2, WebHolds DEF WebCopyInto
  <2>2. seen'.replaced = seen.replaced
    BY <1>0, <1>2, <2>1 DEF WebCopyInto, CopyInto, Memories
  <2> QED BY <1>1, <2>2 DEF ReplacedDataIsKept
<1>3. CASE HostCopyInto
  <2>1. host.safe \in BOOLEAN
    BY <1>0, <1>3, HostHolds DEF HostCopyInto
  <2>2. host.safe => Kept([db |-> ForgetSessions(db), files |-> uploads])
    BY <1>3, BeforeRestoreStays DEF HostCopyInto, BackedUp
  <2>3. seen'.replaced = IF host.safe
                         THEN seen.replaced \cup {[db |-> ForgetSessions(db), files |-> uploads]}
                         ELSE seen.replaced
    BY <1>0, <1>3 DEF HostCopyInto, CopyInto, Memories
  <2> QED BY <1>1, <2>1, <2>2, <2>3 DEF ReplacedDataIsKept
<1>4. CASE ~WebCopyInto /\ ~HostCopyInto
  <2>1. seen'.replaced = seen.replaced
    <3>1. CASE ServerStep
      BY <1>0, <3>1 DEF ServerStep, OpenDatabase, BackUpBeforeUpgrade, StartServing, End, NewServer,
                  PassDay, Install, Memories
    <3>2. CASE MemberStep \/ SettingsStep \/ IconStep \/ BackupStep
      BY <3>2, MemberEdits, SettingsEdits, IconEdits, BackupEdits
    <3>3. CASE RestoreStep
      BY <1>0, <1>4, <3>3 DEF RestoreStep, WebRestore, WebEmpty, WebRefill, RefreshState,
                  WebFails, BackUpBeforeRestore, HostEmpty, HostRefill, HostFails, HostDies,
                  RestoreFrom, HostRestore, ResetPassword, Refilled, Memories
    <3> QED BY <3>1, <3>2, <3>3 DEF Next
  <2> QED BY <1>1, <2>1 DEF ReplacedDataIsKept
<1> QED BY <1>2, <1>3, <1>4

-----------------------------------------------------------------------------
(* Sessions and turns                                                      *)

\* No restore and no restart gives a database a session it had not.
LEMMA SessionsOfTheServer ==
  ASSUME Typed, ServerStep \/ RestoreStep
  PROVE  /\ db'.sessions = db.sessions \/ db'.sessions = {}
         /\ seen'.ended = seen.ended
         /\ inputs' \in {inputs, inputs + 1}
<1> DEFINE Same == /\ db'.sessions = db.sessions \/ db'.sessions = {}
                   /\ seen'.ended = seen.ended
                   /\ inputs' \in {inputs, inputs + 1}
<1>0. /\ db \in Database /\ seen \in Memories
      /\ host \in HostState /\ web \in WebState /\ folder \subseteq BackupFile
  BY DEF Typed, DataTyped, TasksTyped, SeenTyped, FolderTyped
<1>1. CASE ServerStep
  <2>1. CASE OpenDatabase \/ BackUpBeforeUpgrade \/ PassDay \/ \E v \in Versions : Install(v)
    BY <1>0, <2>1 DEF OpenDatabase, BackUpBeforeUpgrade, PassDay, Install, Counted, Database
  <2>2. CASE StartServing
    <3>1. Reconcile(RunMigrations(db)).sessions = db.sessions
      BY <1>0 DEF Reconcile, RunMigrations, Database
    <3> QED BY <2>2, <3>1 DEF StartServing
  <2>3. CASE End
    BY <1>0, <2>3 DEF End, Counted, Memories
  <2>4. CASE NewServer
    BY <1>0, <2>4 DEF NewServer, Counted, Memories, NoDatabase
  <2> QED BY <1>1, <2>1, <2>2, <2>3, <2>4 DEF ServerStep
<1>2. CASE RestoreStep
  <2>1. ASSUME NEW task, task.file \in BackupFile, CopyInto(task)
        PROVE  db'.sessions = {} /\ seen'.ended = seen.ended
    <3>1. Staged(task.file).sessions = {}
      BY <2>1 DEF Staged, BringUpToDate, RunMigrations, ForgetSessions, BackupFile, Copied, Database
    <3>2. Staged(task.file) = [task.file.db EXCEPT !.sessions = {}, !.schema = binary]
      BY <2>1 DEF Staged, BringUpToDate, RunMigrations, ForgetSessions, BackupFile, Copied, Database
    <3> QED BY <1>0, <2>1, <3>1, <3>2 DEF CopyInto, Memories, BackupFile, Copied, Database
  <2>2. CASE WebCopyInto
    <3>1. web.file \in BackupFile
      BY <1>0, <2>2, WebHolds DEF WebCopyInto
    <3> QED BY <2>1, <2>2, <3>1 DEF WebCopyInto
  <2>3. CASE HostCopyInto
    <3>1. host.file \in BackupFile
      BY <1>0, <2>3, HostHolds DEF HostCopyInto
    <3> QED BY <2>1, <2>3, <3>1 DEF HostCopyInto
  <2>4. CASE WebRestore \/ WebEmpty \/ WebFails \/ BackUpBeforeRestore \/ HostEmpty \/ HostDies
               \/ \E file \in folder : RestoreFrom(file)
    BY <2>4 DEF WebRestore, WebEmpty, WebFails, BackUpBeforeRestore, HostEmpty, HostDies,
                RestoreFrom, Counted
  <2>5. CASE WebRefill \/ HostRefill
    BY <1>0, <2>5 DEF WebRefill, HostRefill, Refilled, Memories
  <2>6. CASE RefreshState \/ \E file \in folder : HostRestore(file)
    BY <1>0, <2>6 DEF RefreshState, Reconcile, HostRestore, Database, Counted
  <2>7. CASE HostFails
    BY <1>0, <2>7 DEF HostFails, NoDatabase, Memories
  <2>8. CASE ResetPassword
    BY <1>0, <2>8 DEF ResetPassword, RunMigrations, Database, Counted
  <2> QED BY <1>2, <2>2, <2>3, <2>4, <2>5, <2>6, <2>7, <2>8 DEF RestoreStep
<1> QED BY <1>1, <1>2

\* A new session has a rank that no ended one has.
LEMMA SessionsStep ==
  ASSUME Typed, SessionsCounted, SignedOutStaysOut, Next
  PROVE  SessionsCounted' /\ SignedOutStaysOut'
<1>0. /\ db \in Database /\ seen \in Memories /\ inputs \in Nat
  BY InstanceAssumption DEF Typed, ServerTyped, DataTyped, SeenTyped
<1> USE DEF SessionsCounted, SignedOutStaysOut
<1>1. ASSUME seen'.ended = seen.ended, db'.sessions \subseteq db.sessions,
             inputs' \in {inputs, inputs + 1}
      PROVE  SessionsCounted' /\ SignedOutStaysOut'
  BY <1>0, <1>1
<1>2. CASE ServerStep \/ RestoreStep
  BY <1>1, <1>2, SessionsOfTheServer
<1>3. CASE SettingsStep \/ IconStep \/ BackupStep
  BY <1>1, <1>3, SettingsEdits, IconEdits, BackupEdits
<1>4. CASE MemberStep
  <2>1. CASE SignUp
    BY <1>0, <2>1 DEF SignUp, Counted, Database
  <2>2. CASE Write
    BY <1>0, <1>1, <2>2 DEF Write, Counted, Database
  <2>3. ASSUME NEW i \in db.sessions, SignOut(i) PROVE SessionsCounted' /\ SignedOutStaysOut'
    <3>1. db'.sessions = db.sessions \ {i} /\ seen'.ended = seen.ended \cup {i} /\ inputs' = inputs + 1
      BY <1>0, <2>3 DEF SignOut, Counted, Database, Memories
    <3> QED BY <1>0, <3>1
  <2> QED BY <1>4, <2>1, <2>2, <2>3 DEF MemberStep
<1> QED BY <1>2, <1>3, <1>4 DEF Next

\* The try is recorded with its day before the backup begins.
LEMMA TurnsStep ==
  ASSUME Typed, StoppedOK, TurnsOK, Next
  PROVE  TurnsOK'
<1>0. /\ db \in Database /\ seen \in Memories /\ today \in 0..MaxDay
      /\ host \in HostState /\ web \in WebState /\ folder \subseteq BackupFile
      /\ db.attempted \in Int /\ seen.tried \in Int /\ seen.tries \in Int
  BY InstanceAssumption DEF Typed, ServerTyped, DataTyped, TasksTyped, SeenTyped, FolderTyped, Database,
                            Memories
<1> USE DEF TurnsOK
<1>1. CASE ServerStep
  <2>1. CASE OpenDatabase
    BY <1>0, <2>1 DEF OpenDatabase, Database
  <2>2. CASE StartServing
    <3>1. /\ Reconcile(RunMigrations(db)).attempted = db.attempted
          /\ Reconcile(RunMigrations(db)).there = db.there
      BY <1>0 DEF Reconcile, RunMigrations, Database
    <3> QED BY <2>2, <3>1 DEF StartServing
  <2>3. CASE BackUpBeforeUpgrade \/ PassDay \/ \E v \in Versions : Install(v)
    BY <2>3 DEF BackUpBeforeUpgrade, PassDay, Install
  <2>4. CASE End
    BY <1>0, <2>4 DEF End, Memories
  <2>5. CASE NewServer
    <3>1. db'.attempted = -1 /\ seen'.tried = -1 /\ seen'.tries = seen.tries
      BY <1>0, <2>5 DEF NewServer, NoDatabase, Memories
    <3> QED BY <3>1
  <2> QED BY <1>1, <2>1, <2>2, <2>3, <2>4, <2>5 DEF ServerStep
<1>2. CASE MemberStep
  BY <1>2, MemberEdits
<1>3. CASE SettingsStep \/ IconStep
  BY <1>3, SettingsEdits, IconEdits
<1>4. CASE BackupStep
  <2>1. CASE RunDue
    <3> DEFINE due == LastDue(db.frequency, today)
    <3>1. due \in Int /\ due <= today
      BY <1>0, LastDueType, InstanceAssumption DEF Database
    <3>2. /\ db'.attempted = today /\ db'.there = db.there /\ host' = host /\ db.attempted < due
          /\ Up
      BY <1>0, <2>1 DEF RunDue, IsDue, Staffed, Database
    <3>3. seen'.tried = due /\ (due # seen.tried => seen'.tries = 1)
      BY <1>0, <2>1 DEF RunDue, Memories
    <3>4. host = Idle /\ db.there
      BY <3>2 DEF StoppedOK, Up
    <3> HIDE DEF due
    <3> QED BY <1>0, <3>1, <3>2, <3>3, <3>4
  <2>2. CASE ~RunDue
    BY <1>4, <2>2, BackupEdits
  <2> QED BY <2>1, <2>2
<1>5. CASE RestoreStep
  <2>1. ASSUME NEW task, task.file \in BackupFile, CopyInto(task) PROVE TurnsOK'
    <3>1. db'.there /\ db'.attempted \in -1..MaxDay
      BY <2>1 DEF CopyInto, Staged, BringUpToDate, RunMigrations, ForgetSessions, BackupFile, Copied,
                  Database
    <3>2. seen'.tried = -1 /\ seen'.tries = seen.tries
      BY <1>0, <2>1 DEF CopyInto, Memories
    <3> QED BY <3>1, <3>2, InstanceAssumption
  <2>2. CASE WebCopyInto
    <3>1. web.file \in BackupFile
      BY <1>0, <2>2, WebHolds DEF WebCopyInto
    <3> QED BY <2>1, <2>2, <3>1 DEF WebCopyInto
  <2>3. CASE HostCopyInto
    <3>1. host.file \in BackupFile
      BY <1>0, <2>3, HostHolds DEF HostCopyInto
    <3> QED BY <2>1, <2>3, <3>1 DEF HostCopyInto
  <2>4. CASE WebRestore \/ WebEmpty \/ WebFails \/ \E file \in folder : RestoreFrom(file)
    BY <2>4 DEF WebRestore, WebEmpty, WebFails, RestoreFrom
  <2>5. CASE BackUpBeforeRestore \/ HostEmpty
    <3>1. host # Idle /\ host'.safe = host.safe /\ UNCHANGED <<db, seen>>
      BY <1>0, <2>5, HostHolds DEF BackUpBeforeRestore, HostEmpty, Idle
    <3> QED BY <3>1
  <2>6. CASE WebRefill
    <3>1. seen'.tried = seen.tried /\ seen'.tries = seen.tries /\ UNCHANGED <<db, host>>
      BY <1>0, <2>6 DEF WebRefill, Refilled, Memories
    <3> QED BY <3>1
  <2>7. CASE HostRefill
    <3>1. seen'.tried = seen.tried /\ seen'.tries = seen.tries /\ db' = db /\ host' = Idle
      BY <1>0, <2>7 DEF HostRefill, Refilled, Memories
    <3> QED BY <3>1
  <2>8. CASE HostFails
    <3>1. seen'.tried = seen.tried /\ seen'.tries = seen.tries /\ host # Idle /\ host' = Idle
      BY <1>0, <2>8 DEF HostFails, Memories, Quiet, Idle
    <3>2. NoDatabase.attempted = -1
      BY DEF NoDatabase
    <3> QED BY <1>0, <2>8, <3>1, <3>2 DEF HostFails
  <2>9. CASE HostDies
    BY <2>9 DEF HostDies
  <2>10. CASE RefreshState \/ ResetPassword
    <3>1. db'.there = db.there /\ db'.attempted = db.attempted /\ UNCHANGED <<seen, host>>
      BY <1>0, <2>10 DEF RefreshState, ResetPassword, Reconcile, RunMigrations, Database
    <3> QED BY <3>1
  <2>11. ASSUME NEW file \in folder, HostRestore(file) PROVE TurnsOK'
    <3>1. /\ db'.there /\ db'.attempted = db.attempted /\ seen' = seen
          /\ host'.safe = db.there
      BY <1>0, <2>11 DEF HostRestore, Database
    <3> QED BY <3>1
  <2> QED BY <1>5, <2>2, <2>3, <2>4, <2>5, <2>6, <2>7, <2>8, <2>9, <2>10, <2>11 DEF RestoreStep
<1> QED BY <1>1, <1>2, <1>3, <1>4, <1>5 DEF Next

-----------------------------------------------------------------------------
(* Files are numbered once                                                 *)

\* The databases held are databases, and what they name are files.
LEMMA HeldTypes ==
  ASSUME Typed
  PROVE  /\ Held \subseteq Database
         /\ \A d \in Held : d.logo \in Logos /\ d.icons \subseteq Icons
         /\ \A s \in Storing : saving[s].logo \in Logos
         /\ \A s \in Replacing : saving[s].previous \in Logos
         /\ icon # Idle => icon.file \in Icons
<1>0. /\ db \in Database /\ folder \subseteq BackupFile
      /\ saving \in [Savers -> SaverState] /\ icon \in IconState
      /\ copying \in [Writer -> CopyState] /\ web \in WebState /\ host \in HostState
  BY DEF Typed, DataTyped, FolderTyped, TasksTyped
<1>1. \A file \in folder : file.db \in Database
  BY <1>0 DEF BackupFile, Copied
<1>2. \A w \in Writer : copying[w].pc = "snapshot" => copying[w].db \in Database
  BY <1>0, CopyHolds DEF Copied
<1>3. HasFile(web) => web.file.db \in Database
  BY <1>0, WebHolds DEF HasFile, BackupFile, Copied
<1>4. HasFile(host) => host.file.db \in Database
  BY <1>0, HostHolds DEF HasFile, BackupFile, Copied
<1>5. Held \subseteq Database
  BY <1>0, <1>1, <1>2, <1>3, <1>4 DEF Held
<1>6. \A d \in Database : d.logo \in FileRef /\ d.icons \subseteq File
  BY DEF Database, FileRef
<1>7. \A s \in Storing : saving[s].logo \in FileRef
  BY <1>0, SaverHolds DEF Storing
<1>8. \A s \in Replacing : saving[s].previous \in FileRef
  BY <1>0, SaverHolds DEF Replacing
<1>9. icon # Idle => icon.file \in File
  BY <1>0, IconHolds
<1> QED BY <1>5, <1>6, <1>7, <1>8, <1>9 DEF Logos, Icons

\* Two databases that name the same files.
Like(d, e) == d.logo = e.logo /\ d.icons = e.icons

\* A step of neither the settings nor the icons keeps the names of the
\* database, empties it, or restores those of a backup.
LEMMA DatabaseHeld ==
  ASSUME Typed, ServerStep \/ MemberStep \/ BackupStep \/ RestoreStep
  PROVE  \E e \in Held \cup {NoDatabase} : Like(db', e)
<1> DEFINE Goal == \E e \in Held \cup {NoDatabase} : Like(db', e)
<1>0. db \in Database /\ web \in WebState /\ host \in HostState
  BY DEF Typed, DataTyped, TasksTyped
<1>d. ASSUME Like(db', db) PROVE Goal
  BY <1>d DEF Held
<1>n. ASSUME db' = NoDatabase PROVE Goal
  BY <1>n DEF Like
<1>1. CASE ServerStep
  <2>1. CASE OpenDatabase
    BY <1>0, <1>d, <2>1 DEF OpenDatabase, Like, Database
  <2>2. CASE StartServing
    BY <1>0, <1>d, <2>2 DEF StartServing, Reconcile, RunMigrations, Like, Database
  <2>3. CASE BackUpBeforeUpgrade \/ PassDay \/ End \/ \E v \in Versions : Install(v)
    BY <1>d, <2>3 DEF BackUpBeforeUpgrade, PassDay, Install, End, Like
  <2>4. CASE NewServer
    BY <1>n, <2>4 DEF NewServer
  <2> QED BY <1>1, <2>1, <2>2, <2>3, <2>4 DEF ServerStep
<1>2. CASE MemberStep \/ BackupStep
  BY <1>d, <1>2, MemberEdits, BackupEdits DEF Like
<1>3. CASE RestoreStep
  <2>1. ASSUME NEW task, task.file \in BackupFile, CopyInto(task) PROVE Like(db', task.file.db)
    BY <2>1 DEF CopyInto, Staged, BringUpToDate, RunMigrations, ForgetSessions, BackupFile, Copied,
                Database, Like
  <2>2. CASE WebCopyInto
    <3>1. web.file \in BackupFile /\ web.file.db \in Held
      BY <1>0, <2>2, WebHolds DEF WebCopyInto, Held, HasFile
    <3> QED BY <2>1, <2>2, <3>1 DEF WebCopyInto
  <2>3. CASE HostCopyInto
    <3>1. host.file \in BackupFile /\ host.file.db \in Held
      BY <1>0, <2>3, HostHolds DEF HostCopyInto, Held, HasFile
    <3> QED BY <2>1, <2>3, <3>1 DEF HostCopyInto
  <2>4. CASE WebRestore \/ WebEmpty \/ WebRefill \/ WebFails \/ BackUpBeforeRestore \/ HostEmpty
               \/ HostRefill \/ HostDies \/ \E file \in folder : RestoreFrom(file)
    BY <1>d, <2>4 DEF WebRestore, WebEmpty, WebRefill, WebFails, BackUpBeforeRestore, HostEmpty,
                      HostRefill, HostDies, RestoreFrom, Like
  <2>5. CASE RefreshState \/ ResetPassword
    BY <1>0, <1>d, <2>5 DEF RefreshState, ResetPassword, Reconcile, RunMigrations, Like, Database
  <2>6. CASE HostFails
    BY <1>d, <1>n, <2>6 DEF HostFails, Like
  <2>7. CASE \E file \in folder : HostRestore(file)
    BY <1>0, <1>d, <2>7 DEF HostRestore, Like, Database
  <2> QED BY <1>3, <2>2, <2>3, <2>4, <2>5, <2>6, <2>7 DEF RestoreStep
<1> QED BY <1>1, <1>2, <1>3

\* A new backup names what a database held before names.
LEMMA FolderHeld ==
  ASSUME Typed, Next
  PROVE  \A file \in folder' : \E e \in Held : Like(file.db, e)
<1> DEFINE Goal == \A file \in folder' : \E e \in Held : Like(file.db, e)
<1>0. db \in Database /\ copying \in [Writer -> CopyState]
  BY DEF Typed, DataTyped, TasksTyped
<1>a. ASSUME folder' \subseteq folder PROVE Goal
  BY <1>a DEF Held, Like
<1>b. ASSUME NEW kind, NEW d \in Held,
             folder' \subseteq folder \cup {Backup(kind, d, uploads)}
      PROVE  Goal
  <2>1. Like(Backup(kind, d, uploads).db, d)
    BY HeldTypes DEF Backup, ForgetSessions, Like, Database
  <2>2. \A file \in folder : file.db \in Held /\ Like(file.db, file.db)
    BY DEF Held, Like
  <2> QED BY <1>b, <2>1, <2>2
<1>1. CASE ServerStep
  <2>1. CASE BackUpBeforeUpgrade
    <3>1. folder' = folder \/ folder' \subseteq folder \cup {Backup("BeforeUpgrade", db, uploads)}
      BY <2>1 DEF BackUpBeforeUpgrade, Rotated
    <3>2. db \in Held
      BY DEF Held
    <3> QED BY <1>a, <1>b, <3>1, <3>2
  <2>2. CASE OpenDatabase \/ StartServing \/ End \/ NewServer \/ PassDay
               \/ \E v \in Versions : Install(v)
    BY <1>a, <2>2 DEF OpenDatabase, StartServing, End, NewServer, PassDay, Install
  <2> QED BY <1>1, <2>1, <2>2 DEF ServerStep
<1>2. CASE MemberStep \/ SettingsStep \/ IconStep
  BY <1>a, <1>2, MemberEdits, SettingsEdits, IconEdits
<1>3. CASE BackupStep
  <2>1. ASSUME NEW w \in Writer, NameBackup(w) PROVE Goal
    <3>1. copying[w].db \in Held
      BY <2>1 DEF NameBackup, Held
    <3>2. \E kind \in {"Automatic", "Manual"} :
            folder' \subseteq folder \cup {Backup(kind, copying[w].db, uploads)}
      BY <2>1 DEF NameBackup, Written, Rotated
    <3> QED BY <1>b, <3>1, <3>2
  <2>2. CASE RunDue \/ HostBackup \/ \E schedule \in Schedules : SaveSchedule(schedule)
    BY <1>a, <2>2 DEF RunDue, HostBackup, SaveSchedule
  <2>3. CASE \E w \in Writer : TakeSnapshot(w) \/ FailBackup(w)
    BY <1>a, <2>3 DEF TakeSnapshot, FailBackup
  <2> QED BY <1>3, <2>1, <2>2, <2>3 DEF BackupStep
<1>4. CASE RestoreStep
  <2>1. CASE BackUpBeforeRestore
    <3>1. folder' \subseteq folder \cup {Backup("BeforeRestore", db, uploads)} /\ db \in Held
      BY <2>1 DEF BackUpBeforeRestore, Written, Held
    <3> QED BY <1>b, <3>1
  <2>2. CASE WebRestore \/ WebCopyInto \/ WebEmpty \/ WebRefill \/ RefreshState \/ WebFails
    BY <1>a, <2>2 DEF WebRestore, WebCopyInto, WebEmpty, WebRefill, RefreshState, WebFails
  <2>3. CASE HostCopyInto \/ HostEmpty \/ HostRefill \/ HostFails \/ HostDies \/ ResetPassword
    BY <1>a, <2>3 DEF HostCopyInto, HostEmpty, HostRefill, HostFails, HostDies, ResetPassword
  <2>4. CASE \E file \in folder : RestoreFrom(file) \/ HostRestore(file)
    BY <1>a, <2>4 DEF RestoreFrom, HostRestore
  <2> QED BY <1>4, <2>1, <2>2, <2>3, <2>4 DEF RestoreStep
<1> QED BY <1>1, <1>2, <1>3, <1>4 DEF Next

\* So does a new snapshot.
LEMMA CopiesHeld ==
  ASSUME Typed, Next
  PROVE  \A w \in Writer : copying'[w].pc = "snapshot" =>
           \E e \in Held : Like(copying'[w].db, e)
<1> DEFINE Goal == \A w \in Writer : copying'[w].pc = "snapshot" =>
                     \E e \in Held : Like(copying'[w].db, e)
<1>0. db \in Database /\ copying \in [Writer -> CopyState]
  BY DEF Typed, DataTyped, TasksTyped
<1>a. ASSUME \A w \in Writer : copying'[w] = copying[w] \/ copying'[w].pc \in {"idle", "due"} PROVE Goal
  BY <1>a DEF Held, Like
<1>1. CASE ServerStep
  BY <1>0, <1>a, <1>1 DEF ServerStep, OpenDatabase, BackUpBeforeUpgrade, StartServing, End, NewServer,
                          PassDay, Install, Idle
<1>2. CASE MemberStep \/ SettingsStep \/ IconStep
  BY <1>a, <1>2, MemberEdits, SettingsEdits, IconEdits
<1>3. CASE BackupStep
  <2>1. ASSUME NEW w \in Writer, TakeSnapshot(w) PROVE Goal
    <3>1. copying' = [copying EXCEPT ![w] = [pc |-> "snapshot", keep |-> copying[w].keep,
                                             db |-> ForgetSessions(db)]]
      BY <2>1 DEF TakeSnapshot, Copying
    <3>2. Like(ForgetSessions(db), db) /\ db \in Held
      BY <1>0 DEF ForgetSessions, Like, Database, Held
    <3>3. copying'[w].db = ForgetSessions(db) /\ \A v \in Writer \ {w} : copying'[v] = copying[v]
      BY <1>0, <3>1
    <3>4. \A v \in Writer \ {w} : copying[v].pc = "snapshot" => copying[v].db \in Held
      BY DEF Held
    <3> QED BY <3>2, <3>3, <3>4 DEF Like
  <2>2. CASE \E w \in Writer : NameBackup(w) \/ FailBackup(w)
    BY <1>0, <1>a, <2>2 DEF NameBackup, FailBackup, Copying, Idle
  <2>3. CASE RunDue \/ HostBackup
    BY <1>0, <1>a, <2>3 DEF RunDue, HostBackup, Copying, Writer
  <2>4. CASE \E schedule \in Schedules : SaveSchedule(schedule)
    BY <1>a, <2>4 DEF SaveSchedule
  <2> QED BY <1>3, <2>1, <2>2, <2>3, <2>4 DEF BackupStep
<1>4. CASE RestoreStep
  <2>1. copying' = copying
    BY <1>4, RestoreFrame DEF RefreshState
  <2> QED BY <1>a, <2>1
<1> QED BY <1>1, <1>2, <1>3, <1>4 DEF Next

\* A restore is of a backup of the folder.
LEMMA TasksHeld ==
  ASSUME Typed, Next
  PROVE  /\ HasFile(web') => web'.file.db \in Held
         /\ HasFile(host') => host'.file.db \in Held
<1> DEFINE Goal == /\ HasFile(web') => web'.file.db \in Held
                   /\ HasFile(host') => host'.file.db \in Held
<1>0. web \in WebState /\ host \in HostState
  BY DEF Typed, TasksTyped
<1>w. HasFile(web) => web.file.db \in Held
  BY DEF Held
<1>h. HasFile(host) => host.file.db \in Held
  BY DEF Held
<1>f. \A file \in folder : file.db \in Held
  BY DEF Held
<1>i. ~HasFile(Idle)
  BY DEF HasFile, Idle
<1>1. CASE ServerStep
  BY <1>w, <1>h, <1>i, <1>1 DEF ServerStep, OpenDatabase, BackUpBeforeUpgrade, StartServing, End,
                                NewServer, PassDay, Install
<1>2. CASE MemberStep \/ SettingsStep \/ IconStep \/ BackupStep
  BY <1>w, <1>h, <1>2, MemberEdits, SettingsEdits, IconEdits, BackupEdits
<1>3. CASE RestoreStep
  <2>1. CASE WebRestore \/ RefreshState \/ WebFails
    BY <1>h, <1>i, <2>1 DEF WebRestore, RefreshState, WebFails, HasFile
  <2>2. CASE WebCopyInto \/ WebEmpty \/ WebRefill
    <3>1. HasFile(web) /\ web'.file = web.file /\ host' = host
      BY <1>0, <2>2, WebHolds DEF WebCopyInto, WebEmpty, WebRefill, HasFile
    <3> QED BY <1>w, <1>h, <3>1
  <2>3. CASE BackUpBeforeRestore \/ HostCopyInto \/ HostEmpty
    <3>1. HasFile(host) /\ host'.file = host.file /\ web' = web
      BY <1>0, <2>3, HostHolds DEF BackUpBeforeRestore, HostCopyInto, HostEmpty, HasFile
    <3> QED BY <1>w, <1>h, <3>1
  <2>4. CASE HostRefill \/ HostFails \/ HostDies \/ ResetPassword
    BY <1>w, <1>h, <1>i, <2>4 DEF HostRefill, HostFails, HostDies, ResetPassword
  <2>5. ASSUME NEW file \in folder, RestoreFrom(file) PROVE Goal
    <3>1. host' = host /\ web' \in {Idle, [pc |-> "staged", file |-> file, safe |-> FALSE]}
      BY <2>5 DEF RestoreFrom
    <3> QED BY <1>h, <1>f, <1>i, <3>1
  <2>6. ASSUME NEW file \in folder, HostRestore(file) PROVE Goal
    <3>1. web' = web /\ host'.file = file
      BY <2>6 DEF HostRestore
    <3> QED BY <1>w, <1>f, <3>1
  <2> QED BY <1>3, <2>1, <2>2, <2>3, <2>4, <2>5, <2>6 DEF RestoreStep
<1> QED BY <1>1, <1>2, <1>3 DEF Next

\* Every database there will be is the file or names what one there is names.
LEMMA HeldNext ==
  ASSUME Typed, Next
  PROVE  \A d \in Held' : d = db' \/ \E e \in Held : Like(d, e)
<1> DEFINE Goal(d) == d = db' \/ \E e \in Held : Like(d, e)
<1>1. \A file \in folder' : Goal(file.db)
  BY FolderHeld
<1>2. \A w \in Writer : copying'[w].pc = "snapshot" => Goal(copying'[w].db)
  BY CopiesHeld
<1>3. /\ HasFile(web') => Goal(web'.file.db)
      /\ HasFile(host') => Goal(host'.file.db)
  BY TasksHeld DEF Like
<1>4. Goal(db')
  OBVIOUS
<1> HIDE DEF Goal
<1>5. \A d \in Held' : Goal(d)
  BY <1>1, <1>2, <1>3, <1>4 DEF Held, HasFile
<1> QED BY <1>5 DEF Goal

\* Only the settings and the icons give a file a name.
LEMMA NamesKept ==
  ASSUME Typed, ServerStep \/ MemberStep \/ BackupStep \/ RestoreStep
  PROVE  /\ Logos' \subseteq Logos \cup {NoFile} /\ Icons' \subseteq Icons
         /\ made'.files = made.files
<1>0. /\ saving \in [Savers -> SaverState] /\ icon \in IconState
      /\ made \in [files : 0..MaxFiles, backups : Nat]
  BY DEF Typed, ServerTyped, TasksTyped
<1>1. \A d \in Held' : \E e \in Held \cup {NoDatabase} : Like(d, e)
  BY DatabaseHeld, HeldNext DEF Next
<1>2. made'.files = made.files
  <2>1. CASE ServerStep
    BY <1>0, <2>1 DEF ServerStep, OpenDatabase, BackUpBeforeUpgrade, StartServing, End, NewServer,
                      PassDay, Install
  <2>2. CASE MemberStep \/ BackupStep
    BY <2>2, MemberEdits, BackupEdits
  <2>3. CASE RestoreStep
    <3>1. CASE BackUpBeforeRestore
      BY <1>0, <3>1 DEF BackUpBeforeRestore, Written
    <3>2. CASE ~BackUpBeforeRestore
      BY <2>3, <3>2 DEF RestoreStep, WebRestore, WebCopyInto, WebEmpty, WebRefill, RefreshState,
                  WebFails, HostCopyInto, HostEmpty, HostRefill, HostFails, HostDies, RestoreFrom,
                  HostRestore, ResetPassword
    <3> QED BY <3>1, <3>2
  <2> QED BY <2>1, <2>2, <2>3
<1>3. \/ UNCHANGED <<saving, icon>>
      \/ icon' = Idle /\ \A s \in Savers : saving'[s] = Idle
  <2>1. CASE ServerStep
    BY <1>0, <2>1 DEF ServerStep, OpenDatabase, BackUpBeforeUpgrade, StartServing, End, NewServer,
                      PassDay, Install
  <2>2. CASE MemberStep \/ BackupStep
    BY <2>2, MemberEdits, BackupEdits
  <2>3. CASE RestoreStep
    BY <2>3, RestoreFrame DEF RefreshState
  <2> QED BY <2>1, <2>2, <2>3
<1>4. NoDatabase.logo = NoFile /\ NoDatabase.icons = {}
  BY DEF NoDatabase
<1>5. \A d \in Held' : d.logo \in Logos \cup {NoFile} /\ d.icons \subseteq Icons
  BY <1>1, <1>4, HeldTypes DEF Like
<1>6. /\ \A s \in Storing' : saving'[s].logo \in Logos
      /\ \A s \in Replacing' : saving'[s].previous \in Logos
  BY <1>3, HeldTypes DEF Storing, Replacing, Idle
<1>7. icon' # Idle => icon'.file \in Icons
  BY <1>3, HeldTypes
<1>8. Logos' \subseteq Logos \cup {NoFile}
  BY <1>5, <1>6 DEF Logos
<1>9. Icons' \subseteq Icons
  BY <1>5, <1>7 DEF Icons
<1> QED BY <1>2, <1>8, <1>9

\* The names the settings and the icons may give: those there were, none, and
\* the number of the file just written.
Fresh == IF made'.files = made.files THEN {NoFile} ELSE {made'.files}

LEMMA NamesOfSettings ==
  ASSUME Typed, SettingsStep
  PROVE  /\ Icons' \subseteq Icons /\ Logos' \subseteq Logos \cup Fresh
         /\ made'.files \in {made.files, made.files + 1}
<1> DEFINE Given == Logos \cup Fresh
<1>0. /\ saving \in [Savers -> SaverState] /\ db \in Database
      /\ made \in [files : 0..MaxFiles, backups : Nat]
  BY DEF Typed, ServerTyped, DataTyped, TasksTyped
<1>1. UNCHANGED <<folder, icon, copying, web, host>> /\ db'.icons = db.icons
  BY SettingsEdits
<1>2. \A d \in Held' : d = db' \/ \E e \in Held : Like(d, e)
  BY HeldNext DEF Next
<1>3. db \in Held
  BY DEF Held
<1>4. \A d \in Held' : d.icons \subseteq Icons
  BY <1>1, <1>2, <1>3, HeldTypes DEF Like
<1>5. Icons' \subseteq Icons
  BY <1>1, <1>4, HeldTypes DEF Icons
<1>6. PICK s \in Savers :
        \/ \E public \in {"true", "false"}, withLogo \in BOOLEAN : SaveGeneral(s, public, withLogo)
        \/ RemoveLogo(s) \/ ReadPreviousLogo(s) \/ StoreLogo(s) \/ ShowLogo(s)
        \/ StorePublicMode(s) \/ ShowPublicMode(s)
  BY DEF SettingsStep
<1>7. /\ db.logo \in Logos
      /\ saving[s].pc \in {"file", "previous", "stored"} => saving[s].logo \in Logos
      /\ saving[s].pc \in {"previous", "stored"} => saving[s].previous \in Logos
      /\ NoFile \in Given \/ made'.files \in Given
  BY <1>3, HeldTypes DEF Storing, Replacing, Fresh
<1> DEFINE Sound ==
      /\ db'.logo \in Given
      /\ saving'[s].pc \in {"file", "previous", "stored"} => saving'[s].logo \in Given
      /\ saving'[s].pc \in {"previous", "stored"} => saving'[s].previous \in Given
      /\ \A t \in Savers \ {s} : saving'[t] = saving[t]
      /\ made'.files \in {made.files, made.files + 1}
<1>8. ASSUME NEW public \in Choice, NEW withLogo \in BOOLEAN, SaveGeneral(s, public, withLogo)
      PROVE  Sound
  <2>1. CASE withLogo
    <3>1. /\ saving' = [saving EXCEPT ![s] = [pc |-> "file", logo |-> made'.files, then |-> public]]
          /\ made'.files = made.files + 1 /\ db' = db
      BY <1>0, <1>8, <2>1 DEF SaveGeneral, Saver
    <3>2. made'.files \in Given
      BY <1>0, <3>1, InstanceAssumption DEF Fresh
    <3> QED BY <1>0, <1>7, <3>1, <3>2
  <2>2. CASE ~withLogo
    <3>1. /\ saving' = [saving EXCEPT ![s] = [pc |-> "checked", then |-> public]]
          /\ made' = made /\ db' = db
      BY <1>8, <2>2 DEF SaveGeneral, Saver
    <3> QED BY <1>0, <1>7, <3>1
  <2> QED BY <2>1, <2>2
<1>9. ASSUME RemoveLogo(s) PROVE Sound
  <2>1. /\ saving' = [saving EXCEPT ![s] = [pc |-> "file", logo |-> NoFile, then |-> "nothing"]]
        /\ made' = made /\ db' = db
    BY <1>9 DEF RemoveLogo, Saver
  <2>2. NoFile \in Given
    BY <2>1 DEF Fresh
  <2> QED BY <1>0, <1>7, <2>1, <2>2
<1>10. ASSUME ReadPreviousLogo(s) PROVE Sound
  <2>1. /\ saving' = [saving EXCEPT ![s] =
             [pc |-> "previous", logo |-> saving[s].logo, then |-> saving[s].then,
              previous |-> db.logo]]
        /\ made' = made /\ db' = db /\ saving[s].pc = "file"
    BY <1>10 DEF ReadPreviousLogo, Saver
  <2> QED BY <1>0, <1>7, <2>1
<1>11. ASSUME StoreLogo(s) PROVE Sound
  <2>1. saving[s] \in [pc : {"previous", "stored"}, logo : FileRef,
                       then : Choice \cup {"nothing"}, previous : FileRef]
    BY <1>0, <1>11, SaverHolds DEF StoreLogo
  <2>2. /\ saving[s].pc = "previous" /\ db'.logo = saving[s].logo /\ made' = made
        /\ saving' = [saving EXCEPT ![s] = [saving[s] EXCEPT !.pc = "stored"]]
    BY <1>0, <1>11 DEF StoreLogo, Saver, Database
  <2>3. /\ saving'[s].logo = saving[s].logo /\ saving'[s].previous = saving[s].previous
        /\ \A t \in Savers \ {s} : saving'[t] = saving[t]
    BY <1>0, <2>1, <2>2
  <2> QED BY <1>7, <2>2, <2>3
<1>12. ASSUME ShowLogo(s) PROVE Sound
  <2>1. saving'[s].pc \in {"idle", "checked"} /\ \A t \in Savers \ {s} : saving'[t] = saving[t]
    BY <1>0, <1>12 DEF ShowLogo, Saver, Idle
  <2>2. made' = made /\ db' = db
    BY <1>12 DEF ShowLogo
  <2> QED BY <1>7, <2>1, <2>2
<1>13. ASSUME StorePublicMode(s) PROVE Sound
  <2>1. saving[s] \in [pc : {"checked", "written"}, then : Choice]
    BY <1>0, <1>13, SaverHolds DEF StorePublicMode
  <2>2. saving'[s].pc = "written" /\ \A t \in Savers \ {s} : saving'[t] = saving[t]
    BY <1>0, <1>13, <2>1 DEF StorePublicMode, Saver
  <2>3. made' = made /\ db'.logo = db.logo
    BY <1>0, <1>13 DEF StorePublicMode, Database
  <2> QED BY <1>7, <2>2, <2>3
<1>14. ASSUME ShowPublicMode(s) PROVE Sound
  <2>1. saving'[s].pc = "idle" /\ \A t \in Savers \ {s} : saving'[t] = saving[t]
    BY <1>0, <1>14 DEF ShowPublicMode, Saver, Idle
  <2>2. made' = made /\ db' = db
    BY <1>14 DEF ShowPublicMode
  <2> QED BY <1>7, <2>1, <2>2
<1>15. Sound
  BY <1>6, <1>8, <1>9, <1>10, <1>11, <1>12, <1>13, <1>14 DEF Choice
<1> HIDE DEF Given
<1>16. Logos \subseteq Given
  BY DEF Given
<1>17. \A d \in Held' : d.logo \in Given
  BY <1>2, <1>15, <1>16, HeldTypes DEF Like
<1>18. \A t \in Storing' : saving'[t].logo \in Given
  BY <1>15, <1>16, HeldTypes DEF Storing
<1>19. \A t \in Replacing' : saving'[t].previous \in Given
  BY <1>15, <1>16, HeldTypes DEF Replacing
<1>20. Logos' \subseteq Given
  BY <1>17, <1>18, <1>19 DEF Logos
<1> QED BY <1>5, <1>15, <1>20 DEF Given

LEMMA NamesOfIcons ==
  ASSUME Typed, IconStep
  PROVE  /\ Logos' \subseteq Logos /\ Icons' \subseteq Icons \cup Fresh
         /\ made'.files \in {made.files, made.files + 1}
<1> DEFINE Given == Icons \cup Fresh
           Sound == /\ db'.icons \subseteq Given
                    /\ icon' # Idle => icon'.file \in Given
                    /\ made'.files \in {made.files, made.files + 1}
<1>0. /\ icon \in IconState /\ db \in Database
      /\ made \in [files : 0..MaxFiles, backups : Nat]
  BY DEF Typed, ServerTyped, DataTyped, TasksTyped
<1>1. UNCHANGED <<folder, saving, copying, web, host>> /\ db'.logo = db.logo
  BY IconEdits
<1>2. \A d \in Held' : d = db' \/ \E e \in Held : Like(d, e)
  BY HeldNext DEF Next
<1>3. db \in Held
  BY DEF Held
<1>4. \A d \in Held' : d.logo \in Logos
  BY <1>1, <1>2, <1>3, HeldTypes DEF Like
<1>5. Logos' \subseteq Logos
  BY <1>1, <1>4, HeldTypes DEF Logos, Storing, Replacing
<1>6. \A e \in Held : e.icons \subseteq Icons
  BY HeldTypes
<1>7. /\ db.icons \subseteq Icons
      /\ icon # Idle => icon.file \in Icons
  BY <1>3, HeldTypes
<1>8. ASSUME UploadIcon PROVE Sound
  <2>1. /\ db' = db /\ icon'.file = made'.files
        /\ made'.files = made.files + 1
    BY <1>0, <1>8 DEF UploadIcon
  <2>2. made'.files \in Given
    BY <1>0, <2>1, InstanceAssumption DEF Fresh
  <2> QED BY <1>7, <2>1, <2>2
<1>9. ASSUME RecordIcon PROVE Sound
  <2>1. /\ db'.icons \subseteq db.icons \cup {icon.file} /\ icon # Idle
        /\ icon' = Idle /\ made' = made
    BY <1>0, <1>9 DEF RecordIcon, Database, Idle
  <2> QED BY <1>7, <2>1
<1>10. ASSUME NEW f \in File, DeleteIcon(f) PROVE Sound
  <2>1. /\ db'.icons \subseteq db.icons /\ icon'.file = f /\ f \in db.icons /\ made' = made
    BY <1>0, <1>10 DEF DeleteIcon, Database
  <2> QED BY <1>7, <2>1
<1>11. ASSUME RemoveIconFile PROVE Sound
  <2>1. db' = db /\ icon' = Idle /\ made' = made
    BY <1>11 DEF RemoveIconFile
  <2> QED BY <1>7, <2>1
<1>12. Sound
  BY <1>8, <1>9, <1>10, <1>11 DEF IconStep
<1> HIDE DEF Given
<1>13. Icons \subseteq Given
  BY DEF Given
<1>14. \A d \in Held' : d.icons \subseteq Given
  BY <1>2, <1>6, <1>12, <1>13 DEF Like
<1>15. Icons' \subseteq Given
  BY <1>12, <1>14 DEF Icons
<1> QED BY <1>5, <1>12, <1>15 DEF Given

\* A file has one number, for one purpose.
LEMMA ApartStep ==
  ASSUME Typed, Apart, Next
  PROVE  Apart'
<1>1. /\ Logos \subseteq FileRef /\ Icons \subseteq File
      /\ Logos' \subseteq FileRef /\ Icons' \subseteq File
  BY DEF Logos, Icons
<1>2. /\ made.files \in Nat /\ FileRef \subseteq Nat
      /\ NoFile \notin File /\ NoFile = 0 /\ \A i \in File : i \in Nat
  BY InstanceAssumption DEF Typed, ServerTyped, FileRef, File, NoFile
<1>3. CASE ServerStep \/ MemberStep \/ BackupStep \/ RestoreStep
  <2>1. /\ Logos' \subseteq Logos \cup {NoFile} /\ Icons' \subseteq Icons
        /\ made'.files = made.files
    BY <1>3, NamesKept
  <2> QED BY <1>1, <1>2, <2>1 DEF Apart
<1>4. CASE SettingsStep
  BY <1>1, <1>2, <1>4, NamesOfSettings DEF Apart, Fresh
<1>5. CASE IconStep
  BY <1>1, <1>2, <1>5, NamesOfIcons DEF Apart, Fresh
<1> QED BY <1>3, <1>4, <1>5 DEF Next

-----------------------------------------------------------------------------
(* No picture is missing                                                   *)

\* Nothing trusts the pictures again while a restore has them in hand.
LEMMA RestoresToldStep ==
  ASSUME Typed, StoppedOK, RestoresTold, Next
  PROVE  RestoresTold'
<1>0. /\ seen \in Memories /\ web \in WebState /\ host \in HostState
  BY DEF Typed, TasksTyped, SeenTyped
<1> USE DEF RestoresTold
<1>1. CASE ServerStep
  <2>1. CASE End
    BY <1>0, <2>1 DEF End, Idle, Memories
  <2>2. CASE NewServer
    <3>1. web' = Idle /\ host' = Idle
      BY <1>0, <2>2, HostHolds DEF NewServer, StoppedOK, NothingRuns, Up, Quiet
    <3> QED BY <3>1 DEF Idle
  <2>3. CASE OpenDatabase \/ BackUpBeforeUpgrade \/ StartServing \/ PassDay
               \/ \E v \in Versions : Install(v)
    BY <2>3 DEF OpenDatabase, BackUpBeforeUpgrade, StartServing, PassDay, Install
  <2> QED BY <1>1, <2>1, <2>2, <2>3 DEF ServerStep
<1>2. CASE MemberStep \/ SettingsStep \/ IconStep \/ BackupStep
  BY <1>2, MemberEdits, SettingsEdits, IconEdits, BackupEdits
<1>3. CASE RestoreStep
  <2>1. CASE WebRestore \/ WebFails \/ RefreshState \/ \E file \in folder : RestoreFrom(file)
    BY <2>1 DEF WebRestore, WebFails, RefreshState, RestoreFrom, Idle
  <2>2. CASE WebCopyInto \/ HostCopyInto
    <3>1. seen'.whole = FALSE
      BY <1>0, <2>2 DEF WebCopyInto, HostCopyInto, CopyInto, Memories
    <3> QED BY <3>1
  <2>3. CASE WebEmpty \/ HostEmpty
    BY <1>0, <2>3 DEF WebEmpty, HostEmpty
  <2>4. CASE WebRefill
    <3>1. web'.pc = "refilled" /\ host' = Idle
      <4>1. Up /\ host' = host
        BY <2>4 DEF WebRefill, StoppedOK, NothingRuns, Idle
      <4>2. web'.pc = "refilled"
        BY <1>0, <2>4, WebHolds DEF WebRefill
      <4> QED BY <4>1, <4>2 DEF StoppedOK, Up
    <3> QED BY <3>1 DEF Idle
  <2>5. CASE HostRefill \/ HostFails
    <3>1. host' = Idle /\ web' = Idle
      BY <2>5 DEF HostRefill, HostFails, StoppedOK, NothingRuns, Up, Quiet, Idle
    <3> QED BY <3>1 DEF Idle
  <2>6. CASE BackUpBeforeRestore
    BY <1>0, <2>6, HostHolds DEF BackUpBeforeRestore
  <2>7. CASE HostDies \/ ResetPassword \/ \E file \in folder : HostRestore(file)
    BY <2>7 DEF HostDies, ResetPassword, HostRestore, FirstStep, Idle
  <2> QED BY <1>3, <2>1, <2>2, <2>3, <2>4, <2>5, <2>6, <2>7 DEF RestoreStep
<1> QED BY <1>1, <1>2, <1>3 DEF Next

\* A step that neither renames nor removes a file keeps the pictures.
LEMMA SafeWithoutEdits ==
  ASSUME Typed, FilesSafe,
         seen'.whole => seen.whole,
         db'.logo = db.logo, db'.icons = db.icons, uploads \subseteq uploads',
         UNCHANGED <<saving, icon>>
  PROVE  FilesSafe'
BY DEF FilesSafe, FileNames, LogosSafe, IconsSafe, Pending, Replaces

\* With no request under way the database names the files there are.
LEMMA SafeWhenIdle ==
  ASSUME icon' = Idle, \A s \in Savers : saving'[s] = Idle,
         seen'.whole => FileNames(db') \subseteq uploads'
  PROVE  FilesSafe'
BY DEF FilesSafe, LogosSafe, IconsSafe, Pending, Replaces, Idle, FileNames

LEMMA FilesSafeElsewhere ==
  ASSUME Typed, StoppedOK, FilesSafe, RestoresTold,
         ServerStep \/ MemberStep \/ BackupStep \/ RestoreStep
  PROVE  FilesSafe'
<1>0. /\ db \in Database /\ seen \in Memories /\ web \in WebState /\ host \in HostState
      /\ saving \in [Savers -> SaverState] /\ icon \in IconState
  BY DEF Typed, DataTyped, TasksTyped, SeenTyped
<1>n. FileNames(NoDatabase) = {}
  BY DEF FileNames, NoDatabase
<1>1. CASE ServerStep
  <2>1. CASE OpenDatabase \/ BackUpBeforeUpgrade \/ PassDay \/ \E v \in Versions : Install(v)
    <3>1. /\ db'.logo = db.logo /\ db'.icons = db.icons
          /\ UNCHANGED <<uploads, saving, icon, seen>>
      BY <1>0, <2>1 DEF OpenDatabase, BackUpBeforeUpgrade, PassDay, Install, Database
    <3> QED BY <3>1, SafeWithoutEdits
  <2>2. CASE StartServing
    <3>1. /\ Reconcile(RunMigrations(db)).logo = db.logo
          /\ Reconcile(RunMigrations(db)).icons = db.icons
      BY <1>0 DEF Reconcile, RunMigrations, Database
    <3>2. /\ db'.logo = db.logo /\ db'.icons = db.icons
          /\ UNCHANGED <<uploads, saving, icon, seen>>
      BY <2>2, <3>1 DEF StartServing
    <3> QED BY <3>2, SafeWithoutEdits
  <2>3. CASE End
    <3>1. /\ icon' = Idle /\ \A s \in Savers : saving'[s] = Idle
          /\ UNCHANGED <<db, uploads>>
          /\ seen'.whole => seen.whole
      BY <1>0, <2>3 DEF End, Memories
    <3> QED BY <3>1, SafeWhenIdle DEF FilesSafe
  <2>4. CASE NewServer
    <3>1. /\ icon' = Idle /\ \A s \in Savers : saving'[s] = Idle
          /\ db' = NoDatabase
      BY <2>4 DEF NewServer, StoppedOK, NothingRuns, Up
    <3> QED BY <1>n, <3>1, SafeWhenIdle
  <2> QED BY <1>1, <2>1, <2>2, <2>3, <2>4 DEF ServerStep
<1>2. CASE MemberStep \/ BackupStep
  BY <1>2, MemberEdits, BackupEdits, SafeWithoutEdits
<1>3. CASE RestoreStep
  <2>1. CASE WebRestore \/ WebFails \/ BackUpBeforeRestore \/ HostDies
               \/ \E file \in folder : RestoreFrom(file)
    <3>1. UNCHANGED <<db, uploads, saving, icon, seen>>
      BY <2>1 DEF WebRestore, WebFails, BackUpBeforeRestore, HostDies, RestoreFrom
    <3> QED BY <3>1, SafeWithoutEdits
  <2>2. CASE RefreshState \/ ResetPassword \/ \E file \in folder : HostRestore(file)
    <3>1. /\ db'.logo = db.logo /\ db'.icons = db.icons
          /\ UNCHANGED <<uploads, saving, icon, seen>>
      BY <1>0, <2>2 DEF RefreshState, ResetPassword, HostRestore, Reconcile, RunMigrations, Database
    <3> QED BY <3>1, SafeWithoutEdits
  <2>3. CASE WebCopyInto \/ HostCopyInto
    <3>1. seen'.whole = FALSE
      BY <1>0, <2>3 DEF WebCopyInto, HostCopyInto, CopyInto, Memories
    <3> QED BY <3>1 DEF FilesSafe
  <2>4. CASE WebEmpty \/ HostEmpty
    <3>1. ~seen'.whole
      BY <2>4 DEF WebEmpty, HostEmpty, RestoresTold
    <3> QED BY <3>1 DEF FilesSafe
  <2>5. ASSUME NEW file, Refilled(file), UNCHANGED <<db, saving, icon>> PROVE FilesSafe'
    <3>1. seen'.whole =
            (/\ FileNames(db) \subseteq uploads'
             /\ Quiet(icon) /\ \A s \in Savers : Quiet(saving[s]))
      BY <1>0, <2>5 DEF Refilled, Memories
    <3>2. CASE Quiet(icon) /\ \A s \in Savers : Quiet(saving[s])
      <4>1. icon' = Idle /\ \A s \in Savers : saving'[s] = Idle
        BY <1>0, <2>5, <3>2, IconHolds, SaverHolds DEF Quiet
      <4>2. seen'.whole => FileNames(db') \subseteq uploads'
        BY <2>5, <3>1
      <4> QED BY <4>1, <4>2, SafeWhenIdle
    <3>3. CASE ~(Quiet(icon) /\ \A s \in Savers : Quiet(saving[s]))
      <4>1. ~seen'.whole
        BY <3>1, <3>3
      <4> QED BY <4>1 DEF FilesSafe
    <3> QED BY <3>2, <3>3
  <2>6. CASE WebRefill \/ HostRefill
    BY <2>5, <2>6 DEF WebRefill, HostRefill
  <2>7. CASE HostFails
    <3>1. CASE host.safe
      <4>1. UNCHANGED <<db, uploads, saving, icon, seen>>
        BY <2>7, <3>1 DEF HostFails
      <4> QED BY <4>1, SafeWithoutEdits
    <3>2. CASE ~host.safe
      <4>1. icon' = Idle /\ \A s \in Savers : saving'[s] = Idle
        BY <2>7 DEF HostFails, StoppedOK, NothingRuns, Up, Quiet, Idle
      <4>2. db' = NoDatabase
        BY <2>7, <3>2 DEF HostFails
      <4> QED BY <1>n, <4>1, <4>2, SafeWhenIdle
    <3> QED BY <3>1, <3>2
  <2> QED BY <1>3, <2>1, <2>2, <2>3, <2>4, <2>6, <2>7 DEF RestoreStep
<1> QED BY <1>1, <1>2, <1>3

\* The settings remove the file of a logo that nothing names any more.
LEMMA FilesSafeSettings ==
  ASSUME Typed, Apart, FilesSafe, SettingsStep
  PROVE  FilesSafe'
<1>0. /\ db \in Database /\ uploads \subseteq File
      /\ saving \in [Savers -> SaverState] /\ icon \in IconState
      /\ made \in [files : 0..MaxFiles, backups : Nat]
  BY DEF Typed, ServerTyped, DataTyped, TasksTyped
<1>1. icon' = icon /\ seen' = seen /\ db'.icons = db.icons
  BY SettingsEdits
<1> SUFFICES ASSUME seen.whole
             PROVE  (FileNames(db) \subseteq uploads /\ LogosSafe /\ IconsSafe)'
  BY <1>1 DEF FilesSafe
<1>2. FileNames(db) \subseteq uploads /\ LogosSafe /\ IconsSafe
  BY DEF FilesSafe
<1>3. /\ db \in Held
      /\ \A l \in Logos : l <= made.files /\ l \notin Icons
      /\ \A i \in Icons : i <= made.files
      /\ db.logo \in Logos /\ db.icons \subseteq Icons
      /\ \A s \in Storing : saving[s].logo \in Logos
      /\ \A s \in Replacing : saving[s].previous \in Logos
      /\ icon # Idle => icon.file \in Icons
  BY HeldTypes DEF Apart, Held
<1>4. db.logo \in FileRef /\ db.icons \subseteq File /\ FileRef \subseteq Nat /\ NoFile \notin uploads
  BY <1>0 DEF Database, FileRef, File, NoFile
<1>5. PICK s \in Savers :
        \/ \E public \in {"true", "false"}, withLogo \in BOOLEAN : SaveGeneral(s, public, withLogo)
        \/ RemoveLogo(s) \/ ReadPreviousLogo(s) \/ StoreLogo(s) \/ ShowLogo(s)
        \/ StorePublicMode(s) \/ ShowPublicMode(s)
  BY DEF SettingsStep
\* A saver that neither stores nor replaces a logo is no danger to any.
<1>6. ASSUME db' = db \/ db'.logo = db.logo, uploads' = uploads,
             \A t \in Savers \ {s} : saving'[t] = saving[t],
             ~Pending(s)', ~Replaces(s)'
      PROVE  (FileNames(db) \subseteq uploads /\ LogosSafe /\ IconsSafe)'
  BY <1>1, <1>2, <1>6 DEF FileNames, LogosSafe, IconsSafe, Pending, Replaces
<1>7. ASSUME NEW public \in Choice, NEW withLogo \in BOOLEAN, SaveGeneral(s, public, withLogo)
      PROVE  (FileNames(db) \subseteq uploads /\ LogosSafe /\ IconsSafe)'
  <2>1. CASE withLogo
    <3> DEFINE new == made.files + 1
    <3>1. /\ saving' = [saving EXCEPT ![s] = [pc |-> "file", logo |-> new, then |-> public]]
          /\ uploads' = uploads \cup {new} /\ db' = db
      BY <1>0, <1>7, <2>1 DEF SaveGeneral, Saver
    <3>2. new \notin Logos /\ new \notin Icons /\ new # NoFile
      BY <1>0, <1>3, InstanceAssumption DEF NoFile
    <3>3. /\ saving'[s].pc = "file" /\ saving'[s].logo = new
          /\ \A t \in Savers \ {s} : saving'[t] = saving[t]
      BY <1>0, <3>1
    <3> HIDE DEF new
    <3>4. \A t \in Savers : Pending(t) => saving[t].logo # new
      BY <1>3, <3>2 DEF Pending, Storing
    <3>5. \A t \in Savers : Replaces(t) => saving[t].previous # new
      BY <1>3, <3>2 DEF Replaces, Replacing
    <3>6. LogosSafe'
      BY <1>2, <1>3, <3>1, <3>2, <3>3, <3>4, <3>5 DEF LogosSafe, Pending, Replaces
    <3>7. FileNames(db') \subseteq uploads' /\ IconsSafe'
      BY <1>1, <1>2, <3>1 DEF FileNames, IconsSafe
    <3> QED BY <3>6, <3>7
  <2>2. CASE ~withLogo
    <3>1. /\ saving' = [saving EXCEPT ![s] = [pc |-> "checked", then |-> public]]
          /\ uploads' = uploads /\ db' = db
      BY <1>7, <2>2 DEF SaveGeneral, Saver
    <3> QED BY <1>0, <1>6, <3>1 DEF Pending, Replaces
  <2> QED BY <2>1, <2>2
<1>8. CASE RemoveLogo(s)
  <2>1. /\ saving' = [saving EXCEPT ![s] = [pc |-> "file", logo |-> NoFile, then |-> "nothing"]]
        /\ uploads' = uploads /\ db' = db
    BY <1>8 DEF RemoveLogo, Saver
  <2> QED BY <1>0, <1>6, <2>1 DEF Pending, Replaces
<1>9. CASE ReadPreviousLogo(s)
  <2>1. /\ saving' = [saving EXCEPT ![s] =
             [pc |-> "previous", logo |-> saving[s].logo, then |-> saving[s].then,
              previous |-> db.logo]]
        /\ uploads' = uploads /\ db' = db /\ saving[s].pc = "file"
    BY <1>9 DEF ReadPreviousLogo, Saver
  <2>2. /\ saving'[s].pc = "previous" /\ saving'[s].logo = saving[s].logo
        /\ saving'[s].previous = db.logo
        /\ \A t \in Savers \ {s} : saving'[t] = saving[t]
    BY <1>0, <2>1
  <2>3. LogosSafe'
    BY <1>2, <2>1, <2>2 DEF LogosSafe, Pending, Replaces
  <2> QED BY <1>1, <1>2, <2>1, <2>3 DEF FileNames, IconsSafe
<1>10. CASE StoreLogo(s)
  <2>1. saving[s] \in [pc : {"previous", "stored"}, logo : FileRef,
                       then : Choice \cup {"nothing"}, previous : FileRef]
    BY <1>0, <1>10, SaverHolds DEF StoreLogo
  <2>2. /\ saving[s].pc = "previous" /\ db'.logo = saving[s].logo /\ uploads' = uploads
        /\ saving' = [saving EXCEPT ![s] = [saving[s] EXCEPT !.pc = "stored"]]
    BY <1>0, <1>10 DEF StoreLogo, Saver, Database
  <2>3. /\ saving'[s].pc = "stored" /\ saving'[s].logo = saving[s].logo
        /\ saving'[s].previous = saving[s].previous
        /\ \A t \in Savers \ {s} : saving'[t] = saving[t]
    BY <1>0, <2>1, <2>2
  <2>4. LogosSafe'
    BY <1>2, <2>2, <2>3 DEF LogosSafe, Pending, Replaces
  <2>5. FileNames(db') \subseteq uploads'
    BY <1>1, <1>2, <2>2 DEF FileNames, LogosSafe, Pending
  <2> QED BY <1>1, <1>2, <2>2, <2>4, <2>5 DEF IconsSafe
<1>11. CASE ShowLogo(s)
  <2> DEFINE old == saving[s].previous
  <2>1. uploads' = uploads \ {old} /\ db' = db /\ saving[s].pc = "stored"
    BY <1>11 DEF ShowLogo
  <2>2. saving'[s].pc \in {"idle", "checked"} /\ \A t \in Savers \ {s} : saving'[t] = saving[t]
    BY <1>0, <1>11 DEF ShowLogo, Saver, Idle
  <2>3. old \in Logos /\ old \notin Icons
    BY <1>3, <2>1 DEF Replacing
  <2>4. old # NoFile => Replaces(s) /\ old # db.logo
    BY <1>2, <2>1 DEF Replaces, LogosSafe
  <2>5. FileNames(db') \subseteq uploads'
    BY <1>2, <1>3, <2>1, <2>3, <2>4 DEF FileNames
  <2>6. IconsSafe'
    BY <1>1, <1>2, <1>3, <2>1, <2>3 DEF IconsSafe, Idle
  <2>7. \A t \in Savers : Pending(t) => saving[t].logo # old
    BY <1>2, <2>4 DEF LogosSafe, Pending
  <2> HIDE DEF old
  <2>8. LogosSafe'
    BY <1>2, <2>1, <2>2, <2>7 DEF LogosSafe, Pending, Replaces
  <2> QED BY <2>5, <2>6, <2>8
<1>12. CASE StorePublicMode(s)
  <2>1. saving[s] \in [pc : {"checked", "written"}, then : Choice]
    BY <1>0, <1>12, SaverHolds DEF StorePublicMode
  <2>2. saving'[s].pc = "written" /\ \A t \in Savers \ {s} : saving'[t] = saving[t]
    BY <1>0, <1>12, <2>1 DEF StorePublicMode, Saver
  <2>3. uploads' = uploads /\ db'.logo = db.logo
    BY <1>0, <1>12 DEF StorePublicMode, Database
  <2> QED BY <1>6, <2>2, <2>3 DEF Pending, Replaces
<1>13. CASE ShowPublicMode(s)
  <2>1. saving'[s].pc = "idle" /\ \A t \in Savers \ {s} : saving'[t] = saving[t]
    BY <1>0, <1>13 DEF ShowPublicMode, Saver, Idle
  <2>2. uploads' = uploads /\ db' = db
    BY <1>13 DEF ShowPublicMode
  <2> QED BY <1>6, <2>1, <2>2 DEF Pending, Replaces
<1> QED BY <1>5, <1>7, <1>8, <1>9, <1>10, <1>11, <1>12, <1>13 DEF Choice

\* The library removes the file of an icon that nothing names any more.
LEMMA FilesSafeIcons ==
  ASSUME Typed, Apart, FilesSafe, IconStep
  PROVE  FilesSafe'
<1>0. /\ db \in Database /\ uploads \subseteq File /\ icon \in IconState
      /\ made \in [files : 0..MaxFiles, backups : Nat]
  BY DEF Typed, ServerTyped, DataTyped, TasksTyped
<1>1. saving' = saving /\ seen' = seen /\ db'.logo = db.logo
  BY IconEdits
<1> SUFFICES ASSUME seen.whole
             PROVE  (FileNames(db) \subseteq uploads /\ LogosSafe /\ IconsSafe)'
  BY <1>1 DEF FilesSafe
<1>2. FileNames(db) \subseteq uploads /\ LogosSafe /\ IconsSafe
  BY DEF FilesSafe
<1>3. /\ \A l \in Logos : l <= made.files /\ l \notin Icons
      /\ \A i \in Icons : i <= made.files
      /\ db.logo \in Logos /\ db.icons \subseteq Icons
      /\ \A s \in Storing : saving[s].logo \in Logos
      /\ icon # Idle => icon.file \in Icons
  BY HeldTypes DEF Apart, Held
\* The file that goes is an icon that the database does not name.
<1>4. ASSUME icon # Idle, db' = db, uploads' = uploads \ {icon.file}, icon' = Idle
      PROVE  (FileNames(db) \subseteq uploads /\ LogosSafe /\ IconsSafe)'
  <2>1. icon.file \in Icons /\ icon.file \notin db.icons
    BY <1>2, <1>3, <1>4 DEF IconsSafe
  <2>2. icon.file # db.logo /\ \A s \in Storing : saving[s].logo # icon.file
    BY <1>3, <2>1
  <2>3. LogosSafe'
    BY <1>1, <1>2, <1>4, <2>2 DEF LogosSafe, Pending, Replaces, Storing
  <2>4. FileNames(db') \subseteq uploads'
    BY <1>2, <1>4, <2>1, <2>2 DEF FileNames
  <2>5. IconsSafe'
    BY <1>4 DEF IconsSafe, Idle
  <2> QED BY <2>3, <2>4, <2>5
\* Without a removal the logos are as safe as they were.
<1>5. ASSUME uploads \subseteq uploads' PROVE LogosSafe'
  BY <1>1, <1>2, <1>5 DEF LogosSafe, Pending, Replaces
<1>6. CASE UploadIcon
  <2> DEFINE new == made.files + 1
  <2>1. uploads' = uploads \cup {new} /\ db' = db /\ icon' = [pc |-> "adding", file |-> new]
    BY <1>0, <1>6 DEF UploadIcon
  <2>2. new \notin Icons
    BY <1>0, <1>3, InstanceAssumption
  <2>3. FileNames(db') \subseteq uploads' /\ IconsSafe'
    BY <1>2, <1>3, <2>1, <2>2 DEF FileNames, IconsSafe
  <2> QED BY <1>5, <2>1, <2>3
<1>7. CASE RecordIcon
  <2>1. icon # Idle /\ icon' = Idle /\ icon.pc = "adding"
    BY <1>7 DEF RecordIcon, Idle
  <2>2. CASE db' = [db EXCEPT !.icons = @ \cup {icon.file}] /\ uploads' = uploads
    <3>1. db'.icons = db.icons \cup {icon.file} /\ icon.file \in uploads
      BY <1>0, <1>2, <2>1, <2>2 DEF Database, IconsSafe
    <3>2. FileNames(db') \subseteq uploads'
      BY <1>1, <1>2, <2>2, <3>1 DEF FileNames
    <3>3. IconsSafe'
      BY <2>1 DEF IconsSafe, Idle
    <3> QED BY <1>5, <2>2, <3>2, <3>3
  <2>3. CASE uploads' = uploads \ {icon.file} /\ db' = db
    BY <1>4, <2>1, <2>3
  <2> QED BY <1>7, <2>2, <2>3 DEF RecordIcon
<1>8. ASSUME NEW f \in File, DeleteIcon(f)
      PROVE  (FileNames(db) \subseteq uploads /\ LogosSafe /\ IconsSafe)'
  <2>1. db'.icons = db.icons \ {f} /\ icon' = [pc |-> "removing", file |-> f] /\ uploads' = uploads
    BY <1>0, <1>8 DEF DeleteIcon, Database
  <2>2. FileNames(db') \subseteq uploads' /\ IconsSafe'
    BY <1>1, <1>2, <2>1 DEF FileNames, IconsSafe
  <2> QED BY <1>5, <2>1, <2>2
<1>9. CASE RemoveIconFile
  BY <1>4, <1>9 DEF RemoveIconFile, Idle
<1> QED BY <1>6, <1>7, <1>8, <1>9 DEF IconStep

-----------------------------------------------------------------------------
(* The theorems                                                            *)

LEMMA InitHolds == Init => InstanceInv
<1> SUFFICES ASSUME Init PROVE InstanceInv
  OBVIOUS
<1> USE InstanceAssumption DEF Init
<1>1. Typed
  <2>1. ServerTyped
    BY DEF ServerTyped, FileRef
  <2>2. DataTyped
    BY Databases DEF DataTyped
  <2>3. TasksTyped
    <3>1. Idle \in SaverState /\ Idle \in IconState /\ Idle \in CopyState /\ Idle \in WebState
            /\ Idle \in HostState
      BY DEF SaverState, IconState, CopyState, WebState, HostState
    <3> QED BY <3>1 DEF TasksTyped
  <2>4. SeenTyped
    BY DEF SeenTyped, Memories
  <2> QED BY <2>1, <2>2, <2>3, <2>4 DEF Typed, FolderTyped
<1>2. StoppedOK
  BY DEF StoppedOK, NothingRuns, Up, Writer
<1>3. ServesItsOwnSchema /\ ReplacedDataIsKept /\ BackedUp /\ RestoresTold
  BY DEF ServesItsOwnSchema, Up, ReplacedDataIsKept, BackedUp, RestoresTold, Idle
<1>4. db.attempted = -1 /\ db.logo = NoFile /\ db.icons = {} /\ db.sessions \subseteq {0}
  <2>1. CASE db = NoDatabase
    BY <2>1 DEF NoDatabase
  <2>2. CASE db = InUse
    BY <2>2 DEF NoDatabase, InUse
  <2> QED BY <2>1, <2>2
<1>5. SessionsCounted /\ SignedOutStaysOut
  BY <1>4 DEF SessionsCounted, SignedOutStaysOut
<1>6. TurnsOK
  BY <1>4 DEF TurnsOK
<1>7. Held = {db} /\ Storing = {} /\ Replacing = {}
  BY DEF Held, Storing, Replacing, HasFile, Idle, Writer
<1>8. Logos \subseteq {NoFile} /\ Icons = {}
  BY <1>4, <1>7 DEF Logos, Icons
<1>9. Apart
  BY <1>8 DEF Apart, NoFile
<1>10. FilesSafe
  BY <1>4 DEF FilesSafe, FileNames, LogosSafe, IconsSafe, Pending, Replaces, Idle
<1> QED BY <1>1, <1>2, <1>3, <1>5, <1>6, <1>9, <1>10 DEF InstanceInv

LEMMA StepKeeps == InstanceInv /\ Next => InstanceInv'
<1> SUFFICES ASSUME InstanceInv, Next PROVE InstanceInv'
  OBVIOUS
<1> USE DEF InstanceInv
<1>1. Typed'
  BY ServerTypes, DataTypes, FolderTypes, TasksTypes, SeenTypes DEF Typed
<1>2. StoppedOK'
  BY StoppedStep
<1>3. ServesItsOwnSchema'
  BY <1>2, SchemaStep
<1>4. BackedUp' /\ ReplacedDataIsKept'
  BY BackedUpStep, ReplacedStep
<1>5. SessionsCounted' /\ SignedOutStaysOut'
  BY SessionsStep
<1>6. TurnsOK'
  BY TurnsStep
<1>7. Apart'
  BY ApartStep
<1>8. FilesSafe'
  BY FilesSafeElsewhere, FilesSafeSettings, FilesSafeIcons DEF Next
<1>9. RestoresTold'
  BY RestoresToldStep
<1> QED BY <1>1, <1>2, <1>3, <1>4, <1>5, <1>6, <1>7, <1>8, <1>9

\* The inductive invariant, in every reachable state.
THEOREM Invariance == Spec => []InstanceInv
<1>1. InstanceInv /\ UNCHANGED vars => InstanceInv'
  <2> SUFFICES ASSUME InstanceInv, UNCHANGED vars PROVE InstanceInv'
    OBVIOUS
  <2> USE DEF vars, InstanceInv
  <2>1. Typed' /\ StoppedOK' /\ ServesItsOwnSchema'
    BY DEF Typed, ServerTyped, DataTyped, FolderTyped, TasksTyped, SeenTyped, StoppedOK, NothingRuns,
           ServesItsOwnSchema, Up
  <2>2. ReplacedDataIsKept' /\ BackedUp' /\ SessionsCounted' /\ SignedOutStaysOut' /\ TurnsOK'
    BY DEF ReplacedDataIsKept, BackedUp, SessionsCounted, SignedOutStaysOut, TurnsOK
  <2>3. Held' = Held /\ Storing' = Storing /\ Replacing' = Replacing
    BY DEF Held, Storing, Replacing, HasFile
  <2>4. Logos' = Logos /\ Icons' = Icons
    BY <2>3 DEF Logos, Icons
  <2>5. Apart'
    BY <2>4 DEF Apart
  <2>6. FilesSafe' /\ RestoresTold'
    BY DEF FilesSafe, FileNames, LogosSafe, IconsSafe, Pending, Replaces, RestoresTold
  <2> QED BY <2>1, <2>2, <2>5, <2>6
<1> QED BY InitHolds, StepKeeps, <1>1, PTL DEF Spec

\* restore_into: whatever a restore on the command line replaced, killed and
\* failed ones included, is in a backup that no rotation removes.
THEOREM ReplacedDataStays == Spec => []ReplacedDataIsKept
<1>1. InstanceInv => ReplacedDataIsKept
  BY DEF InstanceInv
<1> QED BY Invariance, <1>1, PTL

\* Stopped, upgraded, restored and uploaded to in any order, an instance
\* works on its own schema, signs nobody in from an old backup, misses no
\* picture and tries no turn twice.
THEOREM InstanceIsWhole == Spec => []InstanceStaysWhole
<1>1. InstanceInv => InstanceStaysWhole
  BY DEF InstanceInv, InstanceStaysWhole, NamedFilesExist, OneTryPerTurn, FilesSafe, TurnsOK
<1> QED BY Invariance, <1>1, PTL

\* Every variable keeps its type, and every backup a database with a schema.
THEOREM TypeCorrect == Spec => []TypeOK
<1>1. InstanceInv => TypeOK
  BY DEF InstanceInv, Typed, ServerTyped, DataTyped, FolderTyped, BackupFile, Copied, FileRef, TypeOK
<1> QED BY Invariance, <1>1, PTL
=============================================================================
