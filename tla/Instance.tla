------------------------------ MODULE Instance ------------------------------
(***************************************************************************)
(* One installed Statup: its database file, its uploaded files, its backup *)
(* folder, the binary and the server that runs it (main.rs, cli.rs,        *)
(* services/backup/, routes/{backups,restore,setup,icons}.rs, the settings,*)
(* logo and icon services).                                                *)
(*                                                                         *)
(* The database is abstracted to what backups, upgrades and settings tell  *)
(* apart: its schema, whether it has an account, `text` for everything the *)
(* members write, its open sessions, the settings of this module and the   *)
(* names of its uploaded files.  A handler is split at every await whose   *)
(* two sides another request, the host or a crash may separate.  Only the  *)
(* commands `restore` and `reset-password` want the server stopped, as     *)
(* cli.rs tells the host.                                                  *)
(***************************************************************************)
EXTENDS BackupFiles

CONSTANTS
  Versions,      \* the schema of each release, 1, 2, ...
  DefaultPublic, \* PUBLIC_MODE of the environment
  UpgradeKeep,   \* UPGRADE_KEEP
  Schedules,     \* the backup schedules an administrator saves
  Savers,        \* requests that save the general settings
  MaxFiles,      \* bound: files ever uploaded
  MaxDay,        \* bound: days that pass
  MaxInputs      \* bound: what people and the host do

\* What the constants must be.
ASSUME InstanceAssumption ==
  /\ Versions \subseteq Nat \ {0} /\ 1 \in Versions
  /\ DefaultPublic \in BOOLEAN
  /\ UpgradeKeep \in Nat \ {0} /\ 1 \in KeepRange
  /\ Schedules \subseteq [frequency : Frequency, keep : KeepRange, wanted : BOOLEAN]
  /\ MaxFiles \in Nat /\ MaxDay \in Nat /\ MaxInputs \in Nat

VARIABLES
  binary,    \* the release installed
  server,    \* "down", "opening", "migrating" or "up"
  db,        \* the database file
  uploads,   \* the files under the upload directory
  folder,    \* the backup folder
  memory,    \* the settings the server holds: access and logo
  saving,    \* saver -> where its request stands
  icon,      \* the icon upload or removal under way
  copying,   \* writer -> the backup it is writing
  web,       \* the restore asked from the first screen
  host,      \* the restore run on the command line
  today,     \* days passed
  made,      \* files uploaded and backups written so far
  inputs,    \* what people and the host did so far
  seen       \* what the properties remember

vars == <<binary, server, db, uploads, folder, memory, saving, icon, copying,
          web, host, today, made, inputs, seen>>

File == 1..MaxFiles
NoFile == 0
Writer == {"auto", "manual"}

\* A database `create_pool` has just made: no migration, no row.
NoDatabase ==
  [there |-> FALSE, schema |-> 0, account |-> FALSE, text |-> 0, sessions |-> {},
   public |-> "unset", logo |-> NoFile, icons |-> {}, layout |-> 0,
   frequency |-> "daily", keep |-> 1, wanted |-> TRUE, attempted |-> -1,
   failed |-> FALSE]

Database ==
  [there : BOOLEAN, schema : Versions \union {0}, account : BOOLEAN,
   text : 0..MaxInputs, sessions : SUBSET (0..MaxInputs),
   public : {"unset", "true", "false"}, logo : File \union {NoFile},
   icons : SUBSET File, layout : Versions \union {0}, frequency : Frequency,
   keep : KeepRange, wanted : BOOLEAN, attempted : -1..MaxDay, failed : BOOLEAN]

Idle == [pc |-> "idle"]
Quiet(task) == task.pc = "idle"
Up == server = "up"
Staffed == Up /\ db.account
Counted == inputs < MaxInputs /\ inputs' = inputs + 1

\* SettingsService::load: who reads the page, the environment's choice until
\* an administrator makes one; the logo is put in memory only when stored.
PublicMode(database) ==
  IF database.public = "unset" THEN DefaultPublic ELSE database.public = "true"

Loaded(database) == [public |-> PublicMode(database), logo |-> database.logo]

\* has_pending_migrations: a database without a migrations table is new.
HasPending == db.schema # 0 /\ db.schema < binary

\* MIGRATOR.run: refuses a database that has migrations it does not know.
Known(database) == database.schema <= binary

RunMigrations(database) == [database EXCEPT !.schema = binary]

\* DashboardLayoutService::reconcile: a row for every shipped module.
Reconcile(database) == [database EXCEPT !.layout = binary]

\* A backup of the database and of the files as they are now.
Backup(kind, database, files) ==
  [words |-> Words(kind), at |-> made.backups + 1,
   db |-> ForgetSessions(database), files |-> files]

\* create_backup reads the migrations table of its copy: an unmigrated
\* database cannot be backed up.
CanCopy(database) == database.there /\ database.schema # 0

Written(file) ==
  /\ folder' = folder \union {file}
  /\ made' = [made EXCEPT !.backups = @ + 1]

---------------------------------------------------------------------------
(* The server: main.rs *)

\* run_server up to create_pool, which makes a missing file.
OpenDatabase ==
  /\ server = "down" /\ Quiet(host)
  /\ server' = "opening"
  /\ db' = [db EXCEPT !.there = TRUE]
  /\ UNCHANGED <<binary, uploads, folder, memory, saving, icon, copying, web,
                 host, today, made, inputs, seen>>

\* back_up_before_upgrade: wanted, written or failed, the start goes on.
BackUpBeforeUpgrade ==
  /\ server = "opening"
  /\ server' = "migrating"
  /\ \/ /\ HasPending /\ db.wanted
        /\ LET file == Backup("BeforeUpgrade", db, uploads)
           IN  /\ folder' = Rotated(folder \union {file}, "BeforeUpgrade", UpgradeKeep)
               /\ made' = [made EXCEPT !.backups = @ + 1]
     \/ UNCHANGED <<folder, made>>
  /\ UNCHANGED <<binary, db, uploads, memory, saving, icon, copying, web, host,
                 today, inputs, seen>>

\* run_migrations, reconcile and build_state: the server listens, or gives
\* up on a database of a later release.
StartServing ==
  /\ server = "migrating"
  /\ IF Known(db)
     THEN /\ server' = "up"
          /\ db' = Reconcile(RunMigrations(db))
          /\ memory' = Loaded(db)
     ELSE server' = "down" /\ UNCHANGED <<db, memory>>
  /\ UNCHANGED <<binary, uploads, folder, saving, icon, copying, web, host,
                 today, made, inputs, seen>>

\* A stop or a crash: the tasks are aborted and the requests cut; what they
\* committed stays.  The memory is gone with the process.
End ==
  /\ server # "down" /\ Counted
  /\ server' = "down"
  /\ memory' = [public |-> DefaultPublic, logo |-> NoFile]
  /\ saving' = [s \in Savers |-> Idle]
  /\ icon' = Idle /\ web' = Idle
  /\ copying' = [copying EXCEPT !["auto"] = Idle]
  /\ seen' = [seen EXCEPT !.whole = @ /\ web.pc # "emptied"]
  /\ UNCHANGED <<binary, db, uploads, folder, host, today, made>>

\* The host installs another release while the server is stopped.
Install(version) ==
  /\ server = "down" /\ Quiet(host) /\ Counted
  /\ version # binary
  /\ binary' = version
  /\ UNCHANGED <<server, db, uploads, folder, memory, saving, icon, copying,
                 web, host, today, made, seen>>

\* A new server with the backup folder of the old one mounted.
NewServer ==
  /\ server = "down" /\ Quiet(host) /\ db.there /\ folder # {} /\ Counted
  /\ db' = NoDatabase /\ uploads' = {}
  /\ copying' = [w \in Writer |-> Idle]
  /\ seen' = [seen EXCEPT !.whole = TRUE, !.tried = -1]
  /\ UNCHANGED <<binary, server, folder, memory, saving, icon, web, host,
                 today, made>>

PassDay ==
  /\ today < MaxDay /\ Counted
  /\ today' = today + 1
  /\ UNCHANGED <<binary, server, db, uploads, folder, memory, saving, icon,
                 copying, web, host, made, seen>>

---------------------------------------------------------------------------
(* The members: accounts, sessions and everything they write *)

\* The first account, from the sign-up form of an empty instance.
SignUp ==
  /\ Up /\ ~db.account /\ Counted
  /\ db' = [db EXCEPT !.account = TRUE, !.sessions = @ \union {inputs'}]
  /\ UNCHANGED <<binary, server, uploads, folder, memory, saving, icon,
                 copying, web, host, today, made, seen>>

SignOut(session) ==
  /\ Up /\ session \in db.sessions /\ Counted
  /\ db' = [db EXCEPT !.sessions = @ \ {session}]
  /\ seen' = [seen EXCEPT !.ended = @ \union {session}]
  /\ UNCHANGED <<binary, server, uploads, folder, memory, saving, icon,
                 copying, web, host, today, made>>

\* Any request that writes an event, a service, a member...
Write ==
  /\ Staffed /\ Counted
  /\ db' = [db EXCEPT !.text = inputs']
  /\ UNCHANGED <<binary, server, uploads, folder, memory, saving, icon,
                 copying, web, host, today, made, seen>>

---------------------------------------------------------------------------
(* The general settings: routes/setup.rs, settings_service, logo_service *)

Saver(s, state) == saving' = [saving EXCEPT ![s] = state]

\* read_general and the checks of apply_general; LogoService::replace writes
\* the new file first, under a name of its own.
SaveGeneral(s, public, withLogo) ==
  /\ Staffed /\ Quiet(saving[s]) /\ Counted
  /\ IF withLogo
     THEN /\ made.files < MaxFiles
          /\ made' = [made EXCEPT !.files = @ + 1]
          /\ uploads' = uploads \union {made'.files}
          /\ Saver(s, [pc |-> "file", logo |-> made'.files, then |-> public])
     ELSE /\ Saver(s, [pc |-> "checked", then |-> public])
          /\ UNCHANGED <<made, uploads>>
  /\ UNCHANGED <<binary, server, db, folder, memory, icon, copying, web, host,
                 today, seen>>

\* LogoService::remove begins.
RemoveLogo(s) ==
  /\ Staffed /\ Quiet(saving[s]) /\ Counted
  /\ Saver(s, [pc |-> "file", logo |-> NoFile, then |-> "nothing"])
  /\ UNCHANGED <<binary, server, db, uploads, folder, memory, icon, copying,
                 web, host, today, made, seen>>

\* The logo to remove is read before the new one is stored.
ReadPreviousLogo(s) ==
  /\ saving[s].pc = "file"
  /\ Saver(s, [pc |-> "previous", logo |-> saving[s].logo, then |-> saving[s].then,
               previous |-> db.logo])
  /\ UNCHANGED <<binary, server, db, uploads, folder, memory, icon, copying,
                 web, host, today, made, inputs, seen>>

StoreLogo(s) ==
  /\ saving[s].pc = "previous"
  /\ db' = [db EXCEPT !.logo = saving[s].logo]
  /\ Saver(s, [saving[s] EXCEPT !.pc = "stored"])
  /\ UNCHANGED <<binary, server, uploads, folder, memory, icon, copying, web,
                 host, today, made, inputs, seen>>

\* The memory, then the file of the logo that was replaced.
ShowLogo(s) ==
  /\ saving[s].pc = "stored"
  /\ memory' = [memory EXCEPT !.logo = saving[s].logo]
  /\ uploads' = uploads \ {saving[s].previous}
  /\ Saver(s, IF saving[s].then = "nothing" THEN Idle
              ELSE [pc |-> "checked", then |-> saving[s].then])
  /\ UNCHANGED <<binary, server, db, folder, icon, copying, web, host, today,
                 made, inputs, seen>>

\* SettingsService::set_public_mode: the database first, the memory after.
StorePublicMode(s) ==
  /\ saving[s].pc = "checked"
  /\ db' = [db EXCEPT !.public = saving[s].then]
  /\ Saver(s, [saving[s] EXCEPT !.pc = "written"])
  /\ UNCHANGED <<binary, server, uploads, folder, memory, icon, copying, web,
                 host, today, made, inputs, seen>>

ShowPublicMode(s) ==
  /\ saving[s].pc = "written"
  /\ memory' = [memory EXCEPT !.public = saving[s].then = "true"]
  /\ Saver(s, Idle)
  /\ UNCHANGED <<binary, server, db, uploads, folder, icon, copying, web, host,
                 today, made, inputs, seen>>

---------------------------------------------------------------------------
(* The icon library: icon_service *)

\* IconService::upload: the file, then its row.
UploadIcon ==
  /\ Staffed /\ Quiet(icon) /\ Counted /\ made.files < MaxFiles
  /\ made' = [made EXCEPT !.files = @ + 1]
  /\ uploads' = uploads \union {made'.files}
  /\ icon' = [pc |-> "adding", file |-> made'.files]
  /\ UNCHANGED <<binary, server, db, folder, memory, saving, copying, web,
                 host, today, seen>>

\* The row, or the file removed again when the row is refused.
RecordIcon ==
  /\ icon.pc = "adding" /\ icon' = Idle
  /\ \/ db' = [db EXCEPT !.icons = @ \union {icon.file}] /\ UNCHANGED uploads
     \/ uploads' = uploads \ {icon.file} /\ UNCHANGED db
  /\ UNCHANGED <<binary, server, folder, memory, saving, copying, web, host,
                 today, made, inputs, seen>>

\* IconService::delete: the row of an icon no page uses, then its file.
DeleteIcon(f) ==
  /\ Staffed /\ Quiet(icon) /\ f \in db.icons /\ Counted
  /\ db' = [db EXCEPT !.icons = @ \ {f}]
  /\ icon' = [pc |-> "removing", file |-> f]
  /\ UNCHANGED <<binary, server, uploads, folder, memory, saving, copying, web,
                 host, today, made, seen>>

RemoveIconFile ==
  /\ icon.pc = "removing" /\ icon' = Idle
  /\ uploads' = uploads \ {icon.file}
  /\ UNCHANGED <<binary, server, db, folder, memory, saving, copying, web,
                 host, today, made, inputs, seen>>

---------------------------------------------------------------------------
(* Backups: services/backup/{create,schedule}.rs, cli.rs *)

Copying(w, state) == copying' = [copying EXCEPT ![w] = state]

\* BackupSchedule::save; off, no automatic backup will come to clear an old
\* failure.
SaveSchedule(schedule) ==
  /\ Staffed /\ Counted
  /\ db' = [db EXCEPT !.frequency = schedule.frequency, !.keep = schedule.keep,
                      !.wanted = schedule.wanted,
                      !.failed = @ /\ schedule.frequency # "off"]
  /\ UNCHANGED <<binary, server, uploads, folder, memory, saving, icon,
                 copying, web, host, today, made, seen>>

\* run_due up to the backup: due, not tried since, and an instance somebody
\* has set up.  The try is recorded before the backup.
IsDue == db.attempted < LastDue(db.frequency, today)

RunDue ==
  /\ Staffed /\ Quiet(copying["auto"]) /\ IsDue
  /\ db' = [db EXCEPT !.attempted = today]
  /\ Copying("auto", [pc |-> "due", keep |-> db.keep])
  /\ LET due == LastDue(db.frequency, today)
     IN  seen' = [seen EXCEPT !.tried = due,
                              !.tries = IF due = seen.tried THEN @ + 1 ELSE 1]
  /\ UNCHANGED <<binary, server, uploads, folder, memory, saving, icon, web,
                 host, today, made, inputs>>

\* `statup backup`: the database as it is, with the server up or down.
HostBackup ==
  /\ Quiet(host) /\ Quiet(copying["manual"]) /\ db.there /\ Counted
  /\ Copying("manual", [pc |-> "due", keep |-> 0])
  /\ UNCHANGED <<binary, server, db, uploads, folder, memory, saving, icon,
                 web, host, today, made, seen>>

\* VACUUM INTO a partial file: one snapshot of the database.
TakeSnapshot(w) ==
  /\ copying[w].pc = "due" /\ CanCopy(db)
  /\ Copying(w, [pc |-> "snapshot", keep |-> copying[w].keep, db |-> ForgetSessions(db)])
  /\ UNCHANGED <<binary, server, db, uploads, folder, memory, saving, icon,
                 web, host, today, made, inputs, seen>>

\* attach_uploads reads the files as they are now, and the partial file is
\* named.  The automatic one clears the failure and rotates its kind.
NameBackup(w) ==
  /\ copying[w].pc = "snapshot"
  /\ Copying(w, Idle)
  /\ LET kind == IF w = "auto" THEN "Automatic" ELSE "Manual"
         file == Backup(kind, copying[w].db, uploads)
     IN  IF w = "auto"
         THEN /\ folder' = Rotated(folder \union {file}, kind, copying[w].keep)
              /\ made' = [made EXCEPT !.backups = @ + 1]
              /\ db' = [db EXCEPT !.failed = FALSE]
         ELSE Written(file) /\ UNCHANGED db
  /\ UNCHANGED <<binary, server, uploads, memory, saving, icon, web, host,
                 today, inputs, seen>>

\* A full disk, an unreadable file, a name that exists: nothing is left, and
\* the automatic one records its failure.
FailBackup(w) ==
  /\ ~Quiet(copying[w])
  /\ Copying(w, Idle)
  /\ db' = IF w = "auto" THEN [db EXCEPT !.failed = TRUE] ELSE db
  /\ UNCHANGED <<binary, server, uploads, folder, memory, saving, icon, web,
                 host, today, made, inputs, seen>>

---------------------------------------------------------------------------
(* Restoring: services/backup/restore.rs *)

\* read_info and TooNew, then the staged copy: its sessions forgotten and
\* this binary's migrations applied.
Restorable(file) == Known(file.db)

BringUpToDate(database) == RunMigrations(database)

Staged(file) == BringUpToDate(ForgetSessions(file.db))

\* The names the database gives its files are all among `files`.
FileNames(database) == (database.icons \union {database.logo}) \ {NoFile}

\* copy_into: SQLite's online copy replaces the whole content at once.
CopyInto(task) ==
  /\ db' = [Staged(task.file) EXCEPT !.there = TRUE]
  /\ seen' = [seen EXCEPT !.whole = FALSE, !.tried = -1,
                          !.replaced = IF task.safe THEN @ \union
                                         {[db |-> ForgetSessions(db), files |-> uploads]}
                                       ELSE @]

\* replace_uploads: both folders are emptied, then the files are written.
Refilled(file) ==
  /\ uploads' = uploads \union file.files
  /\ seen' = [seen EXCEPT !.whole =
       /\ FileNames(db) \subseteq uploads'
       /\ Quiet(icon) /\ \A s \in Savers : Quiet(saving[s])]

(* From the first screen of an empty instance: routes/restore.rs *)

\* Refused before the body is read; checked again once the file arrived, and
\* the backup staged.
WebRestore ==
  /\ Up /\ ~db.account /\ Quiet(web) /\ Counted
  /\ web' = [pc |-> "reading"]
  /\ UNCHANGED <<binary, server, db, uploads, folder, memory, saving, icon,
                 copying, host, today, made, seen>>

RestoreFrom(file) ==
  /\ web.pc = "reading"
  /\ web' = IF ~db.account /\ Restorable(file)
            THEN [pc |-> "staged", file |-> file, safe |-> FALSE] ELSE Idle
  /\ UNCHANGED <<binary, server, db, uploads, folder, memory, saving, icon,
                 copying, host, today, made, inputs, seen>>

WebCopyInto ==
  /\ web.pc = "staged" /\ CopyInto(web)
  /\ web' = [web EXCEPT !.pc = "copied"]
  /\ UNCHANGED <<binary, server, uploads, folder, memory, saving, icon,
                 copying, host, today, made, inputs>>

WebEmpty ==
  /\ web.pc = "copied" /\ web' = [web EXCEPT !.pc = "emptied"]
  /\ uploads' = {}
  /\ UNCHANGED <<binary, server, db, folder, memory, saving, icon, copying,
                 host, today, made, inputs, seen>>

WebRefill ==
  /\ web.pc = "emptied" /\ web' = [web EXCEPT !.pc = "refilled"]
  /\ Refilled(web.file)
  /\ UNCHANGED <<binary, server, db, folder, memory, saving, icon, copying,
                 host, today, made, inputs>>

\* refresh_state: the settings in memory and the dashboard layout.
RefreshState ==
  /\ web.pc = "refilled" /\ web' = Idle
  /\ memory' = Loaded(db)
  /\ db' = Reconcile(db)
  /\ UNCHANGED <<binary, server, uploads, folder, saving, icon, copying, host,
                 today, made, inputs, seen>>

\* An error on the way is answered at once, whatever was replaced before.
WebFails ==
  /\ web.pc \in {"reading", "staged", "copied", "emptied"}
  /\ web' = Idle
  /\ UNCHANGED <<binary, server, db, uploads, folder, memory, saving, icon,
                 copying, host, today, made, inputs, seen>>

(* On the command line, with the server stopped: cli.rs *)

\* restore_into: whether there is data to keep first.
FirstStepForAnAccount(database) == IF database.account THEN "endangered" ELSE "staged"
FirstStep(database) == IF database.there THEN "endangered" ELSE "staged"

HostRestore(file) ==
  /\ server = "down" /\ Quiet(host) /\ Quiet(copying["manual"]) /\ Counted
  /\ Restorable(file)
  /\ host' = [pc |-> FirstStep(db), file |-> file, safe |-> db.there]
  /\ db' = [db EXCEPT !.there = TRUE]
  /\ UNCHANGED <<binary, server, uploads, folder, memory, saving, icon,
                 copying, web, today, made, seen>>

\* restore_into: an existing database is backed up first.
BackUpBeforeRestore ==
  /\ host.pc = "endangered" /\ CanCopy(db)
  /\ host' = [host EXCEPT !.pc = "staged"]
  /\ Written(Backup("BeforeRestore", db, uploads))
  /\ UNCHANGED <<binary, server, db, uploads, memory, saving, icon, copying,
                 web, today, inputs, seen>>

HostCopyInto ==
  /\ host.pc = "staged" /\ CopyInto(host)
  /\ host' = [host EXCEPT !.pc = "copied"]
  /\ UNCHANGED <<binary, server, uploads, folder, memory, saving, icon,
                 copying, web, today, made, inputs>>

HostEmpty ==
  /\ host.pc = "copied" /\ host' = [host EXCEPT !.pc = "emptied"]
  /\ uploads' = {}
  /\ UNCHANGED <<binary, server, db, folder, memory, saving, icon, copying,
                 web, today, made, inputs, seen>>

HostRefill ==
  /\ host.pc = "emptied" /\ host' = Idle
  /\ Refilled(host.file)
  /\ UNCHANGED <<binary, server, db, folder, memory, saving, icon, copying,
                 web, today, made, inputs>>

\* An error: a database the command had to create is removed again.
HostFails ==
  /\ ~Quiet(host) /\ host' = Idle
  /\ db' = IF host.safe THEN db ELSE NoDatabase
  /\ seen' = IF host.safe THEN seen ELSE [seen EXCEPT !.whole = TRUE]
  /\ UNCHANGED <<binary, server, uploads, folder, memory, saving, icon,
                 copying, web, today, made, inputs>>

\* The command is killed: what it committed stays.
HostDies ==
  /\ ~Quiet(host) /\ host' = Idle
  /\ UNCHANGED <<binary, server, db, uploads, folder, memory, saving, icon,
                 copying, web, today, made, inputs, seen>>

\* `statup reset-password`: migrates an existing database, then writes it.
ResetPassword ==
  /\ server = "down" /\ Quiet(host) /\ db.there /\ Known(db) /\ Counted
  /\ db' = [RunMigrations(db) EXCEPT !.text = IF db.account THEN inputs' ELSE @]
  /\ UNCHANGED <<binary, server, uploads, folder, memory, saving, icon,
                 copying, web, host, today, made, seen>>

---------------------------------------------------------------------------
\* A new installation, or one of the first release that has been in use.
InUse == [NoDatabase EXCEPT !.there = TRUE, !.schema = 1, !.account = TRUE, !.sessions = {0},
                          !.layout = 1]

Init ==
  /\ binary = 1 /\ server = "down"
  /\ db \in {NoDatabase, InUse}
  /\ uploads = {} /\ folder = {}
  /\ memory = [public |-> DefaultPublic, logo |-> NoFile]
  /\ saving = [s \in Savers |-> Idle]
  /\ icon = Idle /\ web = Idle /\ host = Idle
  /\ copying = [w \in Writer |-> Idle]
  /\ today = 0 /\ inputs = 0
  /\ made = [files |-> 0, backups |-> 0]
  /\ seen = [ended |-> {}, replaced |-> {}, whole |-> TRUE, tried |-> -1, tries |-> 0]

ServerStep == OpenDatabase \/ BackUpBeforeUpgrade \/ StartServing \/ End \/ NewServer
                \/ PassDay \/ \E v \in Versions : Install(v)

MemberStep == SignUp \/ Write \/ \E i \in db.sessions : SignOut(i)

SettingsStep ==
  \E s \in Savers :
    \/ \E public \in {"true", "false"}, withLogo \in BOOLEAN : SaveGeneral(s, public, withLogo)
    \/ RemoveLogo(s) \/ ReadPreviousLogo(s) \/ StoreLogo(s) \/ ShowLogo(s)
    \/ StorePublicMode(s) \/ ShowPublicMode(s)

IconStep == UploadIcon \/ RecordIcon \/ RemoveIconFile \/ \E f \in File : DeleteIcon(f)

BackupStep ==
  \/ RunDue \/ HostBackup
  \/ \E w \in Writer : TakeSnapshot(w) \/ NameBackup(w) \/ FailBackup(w)
  \/ \E schedule \in Schedules : SaveSchedule(schedule)

RestoreStep ==
  \/ WebRestore \/ WebCopyInto \/ WebEmpty \/ WebRefill \/ RefreshState \/ WebFails
  \/ BackUpBeforeRestore \/ HostCopyInto \/ HostEmpty \/ HostRefill \/ HostFails
  \/ HostDies \/ ResetPassword
  \/ \E file \in folder : RestoreFrom(file) \/ HostRestore(file)

Next == ServerStep \/ MemberStep \/ SettingsStep \/ IconStep \/ BackupStep \/ RestoreStep

Spec == Init /\ [][Next]_vars

---------------------------------------------------------------------------
(* Properties *)

\* Every variable keeps its type; backups hold databases with a schema.
TypeOK ==
  /\ binary \in Versions
  /\ server \in {"down", "opening", "migrating", "up"}
  /\ db \in Database
  /\ uploads \subseteq File
  /\ \A file \in folder :
       file.db \in Database /\ file.db.schema \in Versions /\ file.files \subseteq File
  /\ memory \in [public : BOOLEAN, logo : File \union {NoFile}]
  /\ today \in 0..MaxDay /\ inputs \in 0..MaxInputs

\* A server that listens works on a database of its own schema, a restore
\* from the first screen included: it would fail on any other.
ServesItsOwnSchema == Up => db.schema = binary

\* restore_into: whatever a restore on the command line replaced, failed and
\* killed ones included, is in a before-restore backup that no rotation
\* ever removes.
ReplacedDataIsKept ==
  \A old \in seen.replaced :
    \E file \in OfKind(folder, "BeforeRestore") :
      file.db = old.db /\ file.files = old.files

\* forget_sessions: a session that ended is never accepted again, whatever
\* backup is restored.
SignedOutStaysOut == seen.ended \intersect db.sessions = {}

\* Outside a restore that is under way, was cut or met an upload, and of a
\* backup that carries its files, every icon and logo the database names has its file.
NamedFilesExist == seen.whole => FileNames(db) \subseteq uploads

\* run_due: the automatic backup of a turn is tried once, failed or not, in
\* whatever order the schedule is saved, the server restarts and days pass.
OneTryPerTurn == seen.tries <= 1

\* Whatever is stopped, upgraded, restored or uploaded in whatever order, the
\* server works on its own schema, nobody is signed in again by an old backup,
\* no picture is missing and no turn is tried twice.
InstanceStaysWhole == ServesItsOwnSchema /\ SignedOutStaysOut /\ NamedFilesExist /\ OneTryPerTurn
=============================================================================
