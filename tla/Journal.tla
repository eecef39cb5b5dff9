------------------------------ MODULE Journal ------------------------------
(***************************************************************************)
(* The journal: lines recorded on purpose by a request, warnings and       *)
(* errors the app logs anywhere, caught by a layer that may not wait, a    *)
(* task that writes the caught lines in batches and forgets the old ones,  *)
(* and the administrator who pages through what is kept (journal/,         *)
(* repositories/journal_repo.rs, models/journal.rs, routes/journal.rs).    *)
(*                                                                         *)
(* A line is [n, kind, detail, day]: the rank in which it happened, its    *)
(* kind, which decides its family and whether it is essential, its words   *)
(* as a number and, once stored, the day.  Texts, translations and the    *)
(* removal of secrets from addresses are left out.                         *)
(***************************************************************************)
EXTENDS Integers, FiniteSets, Sequences, SequencesExt

CONSTANTS
  Queue,     \* QUEUE: lines waiting for the writer
  Batch,     \* BATCH: lines written at once
  PageSize,  \* PAGE_SIZE
  Export,    \* EXPORT_LIMIT
  Retention, \* RETENTION_RANGE
  DefaultRetention, \* DEFAULT_RETENTION_DAYS
  Words,     \* what a caught line may say
  MaxLines,  \* bound: lines that happen
  MaxDay,    \* bound: days that pass
  MaxChanges \* bound: settings saved and restarts

ASSUME JournalAssumption ==
  /\ Queue \in Nat \ {0} /\ Batch \in Nat \ {0} /\ PageSize \in Nat \ {0}
  /\ Export \in Nat \ {0} /\ Retention \subseteq Nat \ {0}
  /\ DefaultRetention \in Retention
  /\ MaxLines \in Nat /\ MaxDay \in Nat /\ MaxChanges \in Nat

VARIABLES
  queue,     \* the caught lines waiting for the writer
  counting,  \* how many threads were refused and did not count it yet
  dropped,   \* the counter of refused lines
  writer,    \* the writing task
  recording, \* the request that records a line
  rows,      \* journal_entries, by id
  lastId,    \* the last id given, kept by AUTOINCREMENT
  settings,  \* what is captured and for how long
  reader,    \* the administrator on the page
  today,     \* days passed
  born,      \* the kinds of the lines that happened
  changes,   \* settings saved and restarts
  gone       \* what became of the lines that are not kept

vars == <<queue, counting, dropped, writer, recording, rows, lastId, settings,
          reader, today, born, changes, gone>>

\* One kind of each sort the properties tell apart.
JournalKind == {"AppError", "AppWarning", "OutageDetected", "CheckFailed"}

Category == {"Monitoring", "System"}

CategoryOf(kind) ==
  IF kind \in {"AppError", "AppWarning"} THEN "System" ELSE "Monitoring"

IsEssential(kind) == kind \in {"AppError", "OutageDetected"}

Level(kind) ==
  CASE kind = "AppError" -> "error"
    [] kind = "AppWarning" -> "warn"
    [] kind = "OutageDetected" -> "warn"
    [] kind = "CheckFailed" -> "debug"

\* kept: whether a line of this kind is kept, given whether every line is.
Kept(kind, detailed) == detailed \/ IsEssential(kind)

Idle == [pc |-> "idle"]

Numbers(lines) == {lines[i].n : i \in DOMAIN lines}

\* add_all: the lines in one statement, their ids in the order they had in the
\* batch, out of `places`.  The place of a line left out of it stays empty:
\* nothing but the order of ids is ever used.
AddAll(lines, places) ==
  /\ rows' = [id \in DOMAIN rows \union {lastId + i : i \in DOMAIN lines} |->
                IF id \in DOMAIN rows THEN rows[id]
                ELSE [lines[id - lastId] EXCEPT !.day = today]]
  /\ lastId' = lastId + places

---------------------------------------------------------------------------
(* The layer: journal/layer.rs *)

\* is_caught: the app's own warnings and errors, except the lines `record`
\* and the writer put on the server output themselves.
IsCaughtAnyTarget(target, level) == level \in {"warn", "error"}
IsCaught(target, level) == target # "statup::journal" /\ level \in {"warn", "error"}

\* on_event: the line waits for the writer, or is refused when the queue is
\* full; the thread counts it in a second step.
Caught(line, target) ==
  IF ~IsCaught(target, Level(line.kind))
  THEN UNCHANGED <<queue, counting, gone>>
  ELSE IF Len(queue) < Queue
  THEN queue' = Append(queue, line) /\ UNCHANGED <<counting, gone>>
  ELSE /\ counting' = counting + 1
       /\ gone' = [gone EXCEPT !.refused = @ \union {line.n}]
       /\ UNCHANGED queue

\* Any part of the app logs an error or a warning.
Log(kind, detail) ==
  /\ Len(born) < MaxLines /\ born' = Append(born, kind)
  /\ Caught([n |-> Len(born'), kind |-> kind, detail |-> detail, day |-> 0], "statup")
  /\ UNCHANGED <<dropped, writer, recording, rows, lastId, settings, reader,
                 today, changes>>

CountDropped ==
  /\ counting > 0
  /\ counting' = counting - 1 /\ dropped' = dropped + 1
  /\ UNCHANGED <<queue, writer, recording, rows, lastId, settings, reader,
                 today, born, changes, gone>>

---------------------------------------------------------------------------
(* Recording on purpose: journal/mod.rs *)

\* record: the setting only matters to a line that is not essential.
Record(kind) ==
  /\ Len(born) < MaxLines /\ born' = Append(born, kind) /\ recording.pc = "idle"
  /\ LET line == [n |-> Len(born'), kind |-> kind, day |-> 0,
                  detail |-> IF kind = "CheckFailed" THEN Len(born') ELSE 1]
     IN  IF Kept(kind, ~IsEssential(kind) /\ settings.detailed)
         THEN /\ recording' = [pc |-> "kept", line |-> line]
              /\ Caught(line, "statup::journal")
         ELSE /\ gone' = [gone EXCEPT !.skipped = @ \union {Len(born')}]
              /\ UNCHANGED <<recording, queue, counting>>
  /\ UNCHANGED <<dropped, writer, rows, lastId, settings, reader, today,
                 changes>>

\* record_with: the line is stored, or its loss is said on the output only.
RecordWith ==
  /\ recording.pc = "kept" /\ recording' = Idle
  /\ \/ /\ AddAll(<<recording.line>>, 1)
        /\ UNCHANGED <<queue, counting, gone>>
     \/ /\ gone' = [gone EXCEPT !.unsaved = @ \union {recording.line.n}]
        /\ UNCHANGED <<rows, lastId, queue, counting>>
  /\ UNCHANGED <<dropped, writer, settings, reader, today, born, changes>>

---------------------------------------------------------------------------
(* The writing task: journal/writer.rs *)

\* The first line wakes the task, those that wait join it up to BATCH.
WorthWakingFullBatch == Len(queue) >= Batch
WorthWaking == queue # << >>

BatchSize == IF Len(queue) < Batch THEN Len(queue) ELSE Batch

\* try_recv: the oldest line first.
Taken(lines) == lines

Receive ==
  /\ writer.pc = "idle" /\ WorthWaking
  /\ writer' = [pc |-> "received", batch |-> Taken(SubSeq(queue, 1, BatchSize))]
  /\ queue' = SubSeq(queue, BatchSize + 1, Len(queue))
  /\ UNCHANGED <<counting, dropped, recording, rows, lastId, settings, reader,
                 today, born, changes, gone>>

ReadCapture ==
  /\ writer.pc = "received"
  /\ LET lines == writer.batch
         kept  == {i \in DOMAIN lines : Kept(lines[i].kind, settings.detailed)}
     IN  /\ writer' = [pc |-> "writing", batch |-> Restrict(lines, kept)]
         /\ gone' = [gone EXCEPT !.skipped = @ \union
                                   {lines[i].n : i \in DOMAIN lines \ kept}]
  /\ UNCHANGED <<queue, counting, dropped, recording, rows, lastId, settings,
                 reader, today, born, changes>>

\* report_dropped: what was counted is told and the counter starts again.
Told(count) == IF count > 0 THEN count ELSE 0

\* Every line of the batch is written or none; a failure is logged on a target
\* the layer leaves alone.  Then the refused lines are reported.
WriteBatch ==
  /\ writer.pc = "writing" /\ writer' = Idle
  /\ dropped' = 0
  /\ \/ /\ AddAll(writer.batch, Batch)
        /\ gone' = [gone EXCEPT !.told = @ + Told(dropped)]
     \/ /\ DOMAIN writer.batch # {}
        /\ gone' = [gone EXCEPT !.told = @ + Told(dropped),
                                !.unsaved = @ \union Numbers(writer.batch)]
        /\ UNCHANGED <<rows, lastId>>
  /\ UNCHANGED <<queue, counting, recording, settings, reader, today, born,
                 changes>>

\* forget_old: the retention is read, then the lines before it are deleted.
Older(days) == {i \in DOMAIN rows : rows[i].day < today - days}

ReadRetention ==
  /\ writer.pc = "idle" /\ Older(settings.days) # {}
  /\ writer' = [pc |-> "forgetting", days |-> settings.days]
  /\ UNCHANGED <<queue, counting, dropped, recording, rows, lastId, settings,
                 reader, today, born, changes, gone>>

ForgetOld ==
  /\ writer.pc = "forgetting" /\ writer' = Idle
  /\ rows' = Restrict(rows, DOMAIN rows \ Older(writer.days))
  /\ gone' = [gone EXCEPT !.forgotten = @ \union
                              {rows[i].n : i \in Older(writer.days)}]
  /\ UNCHANGED <<queue, counting, dropped, recording, lastId, settings, reader,
                 today, born, changes>>

---------------------------------------------------------------------------
(* The page: routes/journal.rs, repositories/journal_repo.rs *)

\* push_filters, with the family as the filter.
Matches(line, filter) == filter = "all" \/ CategoryOf(line.kind) = filter

\* The ids that match, and those of them that come before an id on the page.
Matching(filter) == {i \in DOMAIN rows : Matches(rows[i], filter)}
Newer(ids, id) == {i \in ids : i > id}

\* ORDER BY created_at DESC, id DESC: the ids rise with the days, and each
\* comes after as many as are newer.
NewestFirst(ids) ==
  [k \in 1..Cardinality(ids) |-> CHOOSE id \in ids : Cardinality(Newer(ids, id)) = k - 1]

\* list_page: the newest first, `limit` lines from `offset`.
ListPage(filter, limit, offset) ==
  LET ids    == NewestFirst(Matching(filter))
      newest == [k \in DOMAIN ids |-> rows[ids[k]]]
  IN  SubSeq(newest, offset + 1,
             IF offset + limit < Len(newest) THEN offset + limit ELSE Len(newest))

CountFiltered(filter) == Cardinality(Matching(filter))

\* load_results reads one line more than it shows.
HasNextFullPage(entries) == Len(entries) > PageSize + 1
HasNext(entries) == Len(entries) > PageSize

Truncated(entries) == SubSeq(entries, 1, IF Len(entries) > PageSize THEN PageSize ELSE Len(entries))

\* repeats and same_detail: failed checks differ only by their count.
Core(line) == IF line.kind = "CheckFailed" THEN 0 ELSE line.detail

Repeats(newer, older) ==
  newer.kind = older.kind /\ newer.day = older.day /\ Core(newer) = Core(older)

\* rows: identical lines that follow one another on one day are one row.
Fold(folded, line) ==
  IF folded # << >> /\ Repeats(Last(folded).entry, line)
  THEN Front(folded) \o <<[Last(folded) EXCEPT !.count = @ + 1, !.since = line]>>
  ELSE Append(folded, [entry |-> line, count |-> 1, since |-> line])

Folded(entries) == FoldLeft(Fold, << >>, entries)

Shows(filter, page, before) ==
  LET entries == ListPage(filter, PageSize + 1, (page - 1) * PageSize)
      shown   == Truncated(entries)
  IN  reader' = [pc |-> "paging", filter |-> filter, page |-> page,
                 there |-> before.there, seen |-> before.seen \union Range(shown),
                 shown |-> shown, more |-> HasNext(entries)]

\* page: the first page, under a filter or none.
OpenPage(filter) ==
  /\ reader.pc = "idle"
  /\ Shows(filter, 1, [there |-> {line \in Range(rows) : Matches(line, filter)},
                       seen |-> {}])
  /\ UNCHANGED <<queue, counting, dropped, writer, recording, rows, lastId,
                 settings, today, born, changes, gone>>

\* The link to the next page is there while the last one had more.
NextPage ==
  /\ reader.pc = "paging" /\ reader.more
  /\ Shows(reader.filter, reader.page + 1, reader)
  /\ UNCHANGED <<queue, counting, dropped, writer, recording, rows, lastId,
                 settings, today, born, changes, gone>>

\* export: every line under the filters, up to the cap, in one read.
ExportFile(filter) ==
  /\ reader.pc = "idle"
  /\ reader' = [pc |-> "exported", lines |-> Len(ListPage(filter, Export, 0)),
                total |-> CountFiltered(filter)]
  /\ UNCHANGED <<queue, counting, dropped, writer, recording, rows, lastId,
                 settings, today, born, changes, gone>>

Leave ==
  /\ reader.pc # "idle" /\ reader' = Idle
  /\ UNCHANGED <<queue, counting, dropped, writer, recording, rows, lastId,
                 settings, today, born, changes, gone>>

InRange(days) == days \in Retention

\* save_settings: a retention out of its range changes nothing; the change
\* is itself an essential line, left out here.
SaveSettings(detailed, days) ==
  /\ changes < MaxChanges /\ changes' = changes + 1
  /\ InRange(days)
  /\ settings' = [detailed |-> detailed, days |-> days]
  /\ UNCHANGED <<queue, counting, dropped, writer, recording, rows, lastId,
                 reader, today, born, gone>>

PassDay ==
  /\ today < MaxDay /\ today' = today + 1
  /\ UNCHANGED <<queue, counting, dropped, writer, recording, rows, lastId,
                 settings, reader, born, changes, gone>>

\* A stop: the task is aborted, and the lines not written are gone with it.
Stop ==
  /\ changes < MaxChanges /\ changes' = changes + 1
  /\ queue' = << >> /\ counting' = 0 /\ dropped' = 0
  /\ writer' = Idle /\ recording' = Idle
  /\ gone' = [gone EXCEPT
       !.told = Cardinality(gone.refused),
       !.cut = @ \union Numbers(queue)
                 \union (IF writer.pc \in {"received", "writing"} THEN Numbers(writer.batch) ELSE {})
                 \union (IF recording.pc = "kept" THEN {recording.line.n} ELSE {})]
  /\ UNCHANGED <<rows, lastId, settings, reader, today, born>>

---------------------------------------------------------------------------
Init ==
  /\ queue = << >> /\ counting = 0 /\ dropped = 0
  /\ writer = Idle /\ recording = Idle /\ reader = Idle
  /\ rows = << >> /\ lastId = 0
  /\ settings = [detailed |-> FALSE, days |-> DefaultRetention]
  /\ today = 0 /\ born = << >> /\ changes = 0
  /\ gone = [refused |-> {}, skipped |-> {}, unsaved |-> {}, forgotten |-> {},
             cut |-> {}, told |-> 0]

WriterStep == Receive \/ ReadCapture \/ WriteBatch \/ ReadRetention \/ ForgetOld

Next ==
  \/ WriterStep \/ CountDropped \/ RecordWith
  \/ \E kind \in {"AppError", "AppWarning"}, detail \in Words : Log(kind, detail)
  \/ \E kind \in {"OutageDetected", "CheckFailed"} : Record(kind)
  \/ NextPage \/ Leave \/ PassDay \/ Stop
  \/ ExportFile("all") \/ \E filter \in {"all", "System"} : OpenPage(filter)
  \/ \E detailed \in BOOLEAN, days \in Retention \union {0} : SaveSettings(detailed, days)

\* The task is woken by a line, by the hour and by the database's answers.
Spec == Init /\ [][Next]_vars /\ WF_vars(WriterStep)

---------------------------------------------------------------------------
(* Properties *)

Line == [n : 1..MaxLines, kind : JournalKind, detail : Words \union 0..MaxLines, day : 0..MaxDay]

\* Every variable keeps its type; the queue and a batch never pass their
\* bounds, and an export never has more lines than the journal and its cap.
TypeOK ==
  /\ queue \in Seq(Line) /\ Len(queue) <= Queue
  /\ lastId \in Nat /\ DOMAIN rows \subseteq 1..lastId
  /\ \A id \in DOMAIN rows : rows[id] \in Line
  /\ counting \in 0..MaxLines /\ dropped \in 0..MaxLines
  /\ writer.pc \in {"idle", "received", "writing", "forgetting"}
  /\ writer.pc = "received" => Len(writer.batch) \in 1..Batch
  /\ settings \in [detailed : BOOLEAN, days : Retention]
  /\ reader.pc = "exported" =>
       reader.lines = IF reader.total < Export THEN reader.total ELSE Export

\* Where a line is, as often as it is there.
Places ==
  <<Numbers(queue), Numbers(rows), gone.refused, gone.skipped, gone.unsaved,
    gone.forgotten, gone.cut,
    IF writer.pc \in {"received", "writing"} THEN Numbers(writer.batch) ELSE {},
    IF recording.pc = "kept" THEN {recording.line.n} ELSE {}>>

\* A line is kept at most once and none is lost in silence: each one is
\* waiting, kept, or refused by a full queue, refused by the capture setting,
\* lost to a database error or a stop, or forgotten; and the setting never
\* refuses an essential one.
EveryLineOnce ==
  /\ \A n \in DOMAIN born : \E one \in DOMAIN Places :
       n \in Places[one] /\ \A other \in DOMAIN Places \ {one} : n \notin Places[other]
  /\ \A i, j \in DOMAIN rows : rows[i].n = rows[j].n => i = j
  /\ \A n \in gone.skipped : ~IsEssential(born[n])

\* The lines a full queue refused are all counted and told, once each, but
\* for those a stop took with it: the counter is moved in one step.
DroppedAreCounted == Cardinality(gone.refused) = counting + dropped + gone.told

\* The errors and warnings the app logged are kept in the order they
\* happened, whatever the batches and the lines recorded between them.
CaughtInOrder ==
  \A i, j \in DOMAIN rows :
    i < j /\ CategoryOf(rows[i].kind) = "System" /\ CategoryOf(rows[j].kind) = "System"
      => rows[i].n < rows[j].n

\* The id of a stored line.
IdOf(line) == IF line \in Range(rows) THEN CHOOSE i \in DOMAIN rows : rows[i] = line ELSE 0

\* A reader who follows the links to the next page misses no line that was
\* there on the first one and still is, although lines arrive and old ones
\* are forgotten between two pages and each is read from a new offset.
PagingMissesNothing ==
  reader.pc = "paging" =>
    \A line \in reader.there \intersect Range(rows) :
      \/ line \in reader.seen
      \/ reader.more /\ \A shown \in Range(reader.shown) : IdOf(line) < IdOf(shown)

\* The rows of a page fold every line of it into one and only one row, no
\* two rows that could be one follow each other, and the time a row says it
\* repeats since is of the row's own day.
RowsTellEveryLine ==
  reader.pc = "paging" =>
    LET folded == Folded(reader.shown)
    IN  /\ FoldLeft(LAMBDA sum, row : sum + row.count, 0, folded) = Len(reader.shown)
        /\ \A i \in DOMAIN folded : folded[i].entry.day = folded[i].since.day
        /\ \A i \in 1..Len(folded) - 1 : ~Repeats(folded[i].entry, folded[i + 1].entry)

\* Every caught line leaves the queue and the writer's hands, however few
\* come after it.
CaughtLinesSettle ==
  \A n \in 1..MaxLines : n \in Numbers(queue) ~> n \notin Numbers(queue)

Outlived == \E line \in Range(rows) : line.day + settings.days < today

\* A line older than the retention is forgotten, unless the retention is
\* extended in time: the purge comes back every hour.
OldLinesGo == Outlived ~> ~Outlived

\* No line is lost in silence, counted wrong or kept out of order.
NoLineLostInSilence == EveryLineOnce /\ DroppedAreCounted /\ CaughtInOrder

\* Through the pages of the journal and the rows they fold, every line is told.
PagesTellEveryLine == PagingMissesNothing /\ RowsTellEveryLine

\* The writer takes every line that waits and, in the end, every line too old.
LinesMoveOn == CaughtLinesSettle /\ OldLinesGo
=============================================================================
