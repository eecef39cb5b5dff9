---------------------------- MODULE BackupFiles ----------------------------
(***************************************************************************)
(* The files of the backup folder: how a file is named after what made it, *)
(* how the folder is listed and rotated, what a copy of the database keeps *)
(* and when an automatic backup is due (services/backup/).                 *)
(*                                                                         *)
(* A backup is [words, at, db, files]: the words and the stamp of its      *)
(* name, the copied database and the uploaded files it carries.  A stamp   *)
(* is the rank of the file among those written: two of one second is the   *)
(* "already exists" failure, which every writer may meet.                  *)
(***************************************************************************)
EXTENDS Integers, FiniteSets, SequencesExt

CONSTANTS
  WeekLength,  \* days of a week: 7 in the code, fewer in a small instance
  KeepRange    \* how many automatic backups an administrator may keep

\* What the constants must be.
ASSUME BackupFilesAssumption ==
  /\ WeekLength \in Nat \ {0}
  /\ KeepRange \subseteq Nat \ {0}

Frequency == {"daily", "weekly", "off"}

\* backup_file_name: the words before the stamp.  A version is never the
\* word "restore".
Words(kind) ==
  CASE kind = "Manual" -> <<"backup">>
    [] kind = "Automatic" -> <<"auto">>
    [] kind = "BeforeUpgrade" -> <<"before", "version">>
    [] kind = "BeforeRestore" -> <<"before", "restore">>

\* The kind a file name tells: the longer prefix is looked at first.
OfFileName(words) ==
  CASE IsPrefix(<<"auto">>, words) -> "Automatic"
    [] IsPrefix(<<"before", "restore">>, words) -> "BeforeRestore"
    [] IsPrefix(<<"before">>, words) /\ ~IsPrefix(<<"before", "restore">>, words)
         -> "BeforeUpgrade"
    [] IsPrefix(<<"backup">>, words) -> "Manual"

\* list_backups: the files of a kind, and how many of it are newer.
OfKind(folder, kind) == {file \in folder : OfFileName(file.words) = kind}

NewerThan(file, folder) == {other \in folder : other.at > file.at}

\* rotate: the files of `kind` beyond the `keep` newest are removed.
Rotated(folder, kind, keep) ==
  {file \in folder :
     file \in OfKind(folder, kind)
       => Cardinality(NewerThan(file, OfKind(folder, kind))) < keep}

\* forget_sessions: a session id is the cookie itself.
ForgetNoSession(database) == database
ForgetSessions(database) == [database EXCEPT !.sessions = {}]

\* BackupSchedule::last_due: the latest day at or before `today` when a
\* backup was due, in days that each hold the chosen time; -1 for none.
LastDue(frequency, today) ==
  CASE frequency = "off" -> -1
    [] frequency = "daily" -> today
    [] frequency = "weekly" -> today - (today % WeekLength)
=============================================================================
