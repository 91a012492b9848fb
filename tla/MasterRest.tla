----------------------------- MODULE MasterRest -----------------------------
(***************************************************************************)
(* The requests of master/rest.go: what the dashboard shows, and the       *)
(* dumps, restores, exports and imports that move data.                    *)
(***************************************************************************)
EXTENDS Recommenders

LOCAL INSTANCE SequencesExt

----------------------------------------------------------------------------
(***************************************************************************)
(* What the dashboard's requests of master/rest.go answer: what the        *)
(* server's would, each id with the row of the data store.  An answer with *)
(* an item (user) the data store does not have fails as a whole (Nil), but *)
(* that of a user's feedback does not.                                     *)
(***************************************************************************)
Detailed(table, ids) ==
  IF \E j \in DOMAIN ids : ids[j] \notin DOMAIN table THEN Nil
  ELSE [j \in DOMAIN ids |-> [id |-> ids[j], row |-> table[ids[j]]]]
GetItem(w, ids) == Detailed(w.db.items, ids)
GetUser(w, ids) == Detailed(w.db.users, ids)

\* Bug: the fallbacks are asked first.
ChainReversed(recommender, fallback) ==
  IF recommender = "_" THEN fallback \o <<"offline">> ELSE <<recommender>>

\* One recommender alone, or "_": offline and then the fallbacks.  Any other
\* name (latest and popular are) has the empty answer.
Alone == {"offline", "collaborative", "user_based", "item_based", "image_based"}
ChainOf(recommender, fallback) ==
  IF recommender = "_" THEN <<"offline">> \o fallback ELSE <<recommender>>
dashboardRecommend(w, u, asked, n, replacement, recommender, fallback) ==
  IF recommender \notin Alone \cup {"_"} THEN {<<>>}
  ELSE {IF a = Nil THEN Nil ELSE GetItem(w, a) :
          a \in Recommend(w, u, ReadCategories(asked), n, replacement, ChainOf(recommender, fallback))}

dashboardNonPersonalized(w, name, asked, user, n, offset) ==
  {GetItem(w, a) : a \in getNonPersonalized(w, name, asked, user, n, offset)}
dashboardItemNeighbors(w, i, asked, user, n, offset) ==
  {GetItem(w, a) : a \in getItemNeighbors(w, i, asked, user, n, offset)}
dashboardUserNeighbors(w, u, n, offset) ==
  {GetUser(w, a) : a \in getUserNeighbors(w, u, n, offset)}

dashboardTypedFeedback(w, u, type) ==
  [k \in DB!GetUserFeedback(w.db, u, Now, {type}) |-> DB!GetItem(w.db, k.item)]

\* The row of a user, when the user was last active and when recommendations
\* were last made; a time that is not known is zero.
TimeOf(cache, name, u) == LET v == CA!Get(cache, <<name, u>>) IN IF v = NotFound THEN 0 ELSE v
WithTimes(w, u, row) ==
  [id |-> u, row |-> row, active |-> TimeOf(w.cache, "last_modify_user_time", u),
   updated |-> TimeOf(w.cache, "last_update_user_recommend_time", u)]
dashboardUser(w, u) ==
  IF DB!GetUser(w.db, u) = NotFound THEN NotFound ELSE WithTimes(w, u, DB!GetUser(w.db, u))
dashboardUsers(w, cursor, n) ==
  LET page == DB!GetUsers(w.db, cursor, n)
  IN  [cursor |-> page.cursor, users |-> {WithTimes(w, u, w.db.users[u]) : u \in page.rows}]

----------------------------------------------------------------------------
(***************************************************************************)
(* What master/rest.go offers to move data: dump and restore of all three  *)
(* tables in one file, export and import of one table as lines.  Requests  *)
(* change the store while it is written to a file; the file is then read   *)
(* into another store, batch by batch.                                     *)
(***************************************************************************)
CONSTANTS
  InitialSource, InitialTargets,
  SourceChanges,          \* a sequence of rows [table, key, row] that requests may store meanwhile
  AutoUsers, AutoItems,   \* configured: imported feedback brings its user, its item
  BatchSize,
  MaxChanges, MaxFaults   \* bounds

VARIABLES
  source, target,
  kind,       \* "dump", or the table that is exported; Nil before the request
  file,       \* a sequence of cells
  writing,    \* what is written next
  reading,    \* [step, section, batch, left]
  notified,   \* notifyDataImported has been called
  faults, sourceChanges,
  seen        \* history: the states of the source while it was written

transferVars == <<source, target, kind, file, writing, reading, notified, faults, sourceChanges, seen>>

Tables == {"users", "items", "feedback"}
After == [users |-> "items", items |-> "feedback", feedback |-> "eof"]

\* A cell is the mark of a section, a row, or the text of an error.
Mark(section) == <<"mark", section, Nil>>
RowCell(k, row) == <<"row", k, row>>
ErrorText == <<"text", Nil, Nil>>

\* What a file holds of a row: a dump has no subscriptions.
Carried(table, row) ==
  IF kind = "dump" /\ table = "users" THEN [row EXCEPT !.subscribe = {}] ELSE row

\* The rows of a stream; of feedback, that of the future is left out.
Streamed(table) ==
  CASE table = "users" -> DB!GetUserStream(source)
    [] table = "items" -> DB!GetItemStream(source, Nil)
    [] table = "feedback" ->
         [k \in DB!GetFeedbackStream(source, DB!NewScanOptions([end |-> Now])) |-> source.feedback[k]]
Cells(table) ==
  {[j \in DOMAIN order |-> RowCell(order[j], Carried(table, Streamed(table)[order[j]]))] :
     order \in SetToSeqs(DOMAIN Streamed(table))}
Heading(table) == IF kind = "dump" THEN <<Mark(table)>> ELSE <<>>

----------------------------------------------------------------------------
(* dump, and the GET requests for users, items and feedback                *)

\* One table of a dump, and the end of the last.
Dumps(table) ==
  /\ kind = "dump" /\ writing = table
  /\ \E cells \in Cells(table) :
       file' = file \o <<Mark(table)>> \o cells
                 \o (IF table = "feedback" THEN <<Mark("eof")>> ELSE <<>>)
  /\ writing' = After[table]
  /\ UNCHANGED <<source, target, kind, reading, notified, faults, sourceChanges, seen>>

Exports(table) ==
  /\ kind = table /\ writing = table
  /\ file' \in Cells(table)
  /\ writing' = "eof"
  /\ UNCHANGED <<source, target, kind, reading, notified, faults, sourceChanges, seen>>

\* The status has been sent with the first bytes: the error becomes a part
\* of the file.
WriteFails(table) ==
  /\ writing = table
  /\ faults < MaxFaults /\ faults' = faults + 1
  /\ \E cells \in Cells(table), n \in 0 .. Cardinality(DOMAIN Streamed(table)) :
       file' = file \o Heading(table) \o SubSeq(cells, 1, n) \o <<ErrorText>>
  /\ writing' = "eof"
  /\ UNCHANGED <<source, target, kind, reading, notified, sourceChanges, seen>>

----------------------------------------------------------------------------
(* restore, and the POST requests                                          *)

Put(d, table, batch) ==
  CASE table = "users" -> DB!BatchInsertUsers(d, batch)
    [] table = "items" -> DB!BatchInsertItems(d, batch)
    [] table = "feedback" ->
         DB!BatchInsertFeedback(d, batch, kind = "dump" \/ AutoUsers, kind = "dump" \/ AutoItems, TRUE)
PutRest == IF reading.batch = <<>> THEN target ELSE Put(target, reading.section, reading.batch)

Reading == reading.step = "reading"
NextIs(what) == Reading /\ reading.left # <<>> /\ Head(reading.left)[1] = what

ReadBegins ==
  /\ writing = "eof" /\ reading.step = "idle"
  /\ reading' = [step |-> "reading", section |-> IF kind = "dump" THEN Nil ELSE kind,
                 batch |-> <<>>, left |-> file]
  /\ UNCHANGED <<source, target, kind, file, writing, notified, faults, sourceChanges, seen>>

ReadsRow ==
  /\ NextIs("row")
  /\ LET batch == Append(reading.batch, [key |-> Head(reading.left)[2], row |-> Head(reading.left)[3]])
         full == Len(batch) = BatchSize
     IN  /\ target' = IF full THEN Put(target, reading.section, batch) ELSE target
         /\ reading' = [reading EXCEPT !.batch = IF full THEN <<>> ELSE batch, !.left = Tail(@)]
  /\ UNCHANGED <<source, kind, file, writing, notified, faults, sourceChanges, seen>>

\* Bug: what is left of a section is forgotten.
ReadsMarkOnly ==
  /\ NextIs("mark")
  /\ reading' = [step |-> IF Head(reading.left)[2] = "eof" THEN "done" ELSE "reading",
                 section |-> Head(reading.left)[2], batch |-> <<>>, left |-> Tail(reading.left)]
  /\ UNCHANGED <<source, target, kind, file, writing, notified, faults, sourceChanges, seen>>

\* The mark of a section ends the one before it.
ReadsMark ==
  /\ NextIs("mark")
  /\ target' = PutRest
  /\ reading' = [step |-> IF Head(reading.left)[2] = "eof" THEN "done" ELSE "reading",
                 section |-> Head(reading.left)[2], batch |-> <<>>, left |-> Tail(reading.left)]
  /\ UNCHANGED <<source, kind, file, writing, notified, faults, sourceChanges, seen>>

\* The end of the lines; only an import notifies.
LinesEnd ==
  /\ Reading /\ kind # "dump" /\ reading.left = <<>>
  /\ target' = PutRest
  /\ notified' = TRUE
  /\ reading' = [reading EXCEPT !.step = "done", !.batch = <<>>]
  /\ UNCHANGED <<source, kind, file, writing, faults, sourceChanges, seen>>

Stops == reading' = [reading EXCEPT !.step = "failed"]

\* What is no row ends the request; the rows that wait are dropped.
Unreadable ==
  /\ NextIs("text")
  /\ Stops
  /\ UNCHANGED <<source, target, kind, file, writing, notified, faults, sourceChanges, seen>>

PutFails ==
  /\ Reading /\ reading.batch # <<>>
  /\ faults < MaxFaults /\ faults' = faults + 1
  /\ Stops
  /\ UNCHANGED <<source, target, kind, file, writing, notified, sourceChanges, seen>>

----------------------------------------------------------------------------
\* A request stores a row, or the master is asked to purge everything.
SourceBecomes(d) ==
  /\ writing \in Tables
  /\ sourceChanges < MaxChanges /\ sourceChanges' = sourceChanges + 1
  /\ source' = d
  /\ seen' = seen \cup {d}
  /\ UNCHANGED <<target, kind, file, writing, reading, notified, faults>>
StoresRow(c) ==
  LET batch == <<[key |-> c.key, row |-> c.row]>>
  IN  SourceBecomes(CASE c.table = "users" -> DB!BatchInsertUsers(source, batch)
                      [] c.table = "items" -> DB!BatchInsertItems(source, batch)
                      [] c.table = "feedback" -> DB!BatchInsertFeedback(source, batch, TRUE, TRUE, TRUE))
purge == SourceBecomes(DB!Purge(source))

\* What is asked for, and the store it will be read into.
Requested(k, d) ==
  /\ kind = Nil
  /\ kind' = k /\ target' = d
  /\ writing' = IF k = "dump" THEN "users" ELSE k
  /\ UNCHANGED <<source, file, reading, notified, faults, sourceChanges, seen>>

TransferInit ==
  /\ source = InitialSource /\ target = DB!EmptyStore
  /\ kind = Nil /\ file = <<>> /\ writing = Nil
  /\ reading = [step |-> "idle", section |-> Nil, batch |-> <<>>, left |-> <<>>]
  /\ notified = FALSE /\ faults = 0 /\ sourceChanges = 0
  /\ seen = {InitialSource}

dump == kind = "dump" /\ \E table \in Tables : Dumps(table) \/ WriteFails(table)
restore == kind = "dump" /\ (ReadBegins \/ ReadsRow \/ ReadsMark \/ Unreadable \/ PutFails)
\* GET and POST.
importExport(table) ==
  kind = table /\ (Exports(table) \/ WriteFails(table)
                   \/ ReadBegins \/ ReadsRow \/ LinesEnd \/ Unreadable \/ PutFails)
importExportUsers == importExport("users")
importExportItems == importExport("items")
importExportFeedback == importExport("feedback")

TransferNext ==
  \/ \E k \in Tables \cup {"dump"}, d \in InitialTargets : Requested(k, d)
  \/ dump \/ restore \/ importExportUsers \/ importExportItems \/ importExportFeedback
  \/ (\E j \in DOMAIN SourceChanges : StoresRow(SourceChanges[j])) \/ purge

TransferSpec == TransferInit /\ [][TransferNext]_transferVars

----------------------------------------------------------------------------
\* The rows of a file that belong to a table.
Section(table) ==
  LET inSection(j) ==
        /\ file[j][1] = "row"
        /\ IF kind # "dump" THEN kind = table
           ELSE \E h \in 1 .. j - 1 : file[h] = Mark(table) /\ \A i \in h + 1 .. j : file[i][1] # "mark"
      rows == SelectSeq([j \in DOMAIN file |-> j], inSection)
  IN  [n \in DOMAIN rows |-> [key |-> file[rows[n]][2], row |-> file[rows[n]][3]]]
Stored(d, table) ==
  CASE table = "users" -> d.users [] table = "items" -> d.items [] table = "feedback" -> d.feedback
Blank(table) == IF table = "users" THEN BlankUser ELSE BlankItem
Moved == IF kind = "dump" THEN Tables ELSE {kind}
Has(d, table, k, row) == k \in DOMAIN Stored(d, table) /\ Carried(table, Stored(d, table)[k]) = row
\* Feedback of an unknown item is dropped, but its user is inserted.
Named(table, k) ==
  \E j \in DOMAIN Section("feedback") :
    LET f == Section("feedback")[j].key IN k = IF table = "users" THEN f.user ELSE f.item
Known(k) == k.user \in DOMAIN target.users /\ k.item \in DOMAIN target.items
\* What the target may have had before.
Before(table, k, row) == \E d \in InitialTargets : k \in DOMAIN Stored(d, table) /\ Stored(d, table)[k] = row

\* What has been moved is what the source had while it was written, whatever
\* was stored in between: no row is made up but for users and items that
\* only feedback names, none that was there all the time is missing, and
\* there is no feedback of an unknown user or item, although the tables are
\* written one after the other (dump and restore, rest.go:1370-1628, and
\* importExport..., rest.go:905-1232).
TransferIsFaithful ==
  /\ \A table \in Tables : \A k \in DOMAIN Stored(target, table) :
       LET row == Stored(target, table)[k]
       IN  \/ Before(table, k, row)
           \/ \E d \in seen : Has(d, table, k, row)
           \/ table # "feedback" /\ row = Blank(table) /\ Named(table, k)
  /\ \A k \in DOMAIN target.feedback : Known(k)
  /\ reading.step = "done" =>
       \A table \in Moved : \A k \in DOMAIN Stored(source, table) :
         LET row == Carried(table, Stored(source, table)[k])
         IN  /\ \A d \in seen : Has(d, table, k, row)
             /\ table = "feedback" => Stored(source, table)[k] <= Now /\ Known(k)
             => k \in DOMAIN Stored(target, table) /\ Stored(target, table)[k] = row

\* A restoration or an import that stops has stored whole batches, the first
\* of the file, and has not notified the loop of the master.
StoppedTransferIsWholeBatches ==
  reading.step = "failed" =>
    /\ ~notified
    /\ LET rows == Section(reading.section)
       IN  \E d \in InitialTargets, n \in 0 .. Len(rows) \div BatchSize :
             LET first == SubSeq(rows, 1, n * BatchSize)
                 put == IF first = <<>> THEN d ELSE Put(d, reading.section, first)
             IN  Stored(put, reading.section) = Stored(target, reading.section)
=============================================================================
