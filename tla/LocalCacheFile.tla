--------------------------- MODULE LocalCacheFile ---------------------------
(***************************************************************************)
(* The file of the master's local cache (master/local_cache.go): truncated *)
(* and written section by section from the shared LocalCache, without a    *)
(* lock, by whichever fit task has published a model, and read at start.   *)
(*                                                                         *)
(* The file is a sequence of cells.  The name of the ranking model and the *)
(* scores have a fixed place beside the versions and are left out.         *)
(***************************************************************************)
EXTENDS MasterModels, Sequences, SequencesExt

CONSTANT Large   \* a set of numbers: the models that take two cells, the others take one

\* The file has a place for either model.
ASSUME LocalCacheAssumption == Kind = {"ranking", "click"}

VARIABLES
  file,        \* the cells of model.bin, <<>> also when it does not exist
  writer,      \* kind -> what WriteLocalCache does next
  shared       \* history: the file was last written by two at the same time

fileVars == <<file, writer, shared>>
localCacheVars == <<masterVars, fileVars>>

\* A writer has its own offset in the file and the sections it has to write.
\* (NoWriter: none left.)
NoWriter == [offset |-> 0, sections |-> <<>>]

\* Bug: what is loaded first is written last
SwappedSections == << <<"version", "click">>, <<"model", "click">>,
                      <<"version", "ranking">>, <<"model", "ranking">> >>
Sections == << <<"version", "ranking">>, <<"model", "ranking">>,
               <<"version", "click">>, <<"model", "click">> >>

\* A place of the file that nobody wrote.
Hole == <<"hole", 0, 0>>
Cells(section, k) ==
  CASE section = "version" -> << <<"version", cache[k].version, 0>> >>
    [] section = "model" /\ cache[k].model \in Large ->
         << <<"model", cache[k].model, 1>>, <<"model", cache[k].model, 2>> >>
    [] OTHER -> << <<"model", cache[k].model, 1>> >>

\* File contents after cells are written from an offset on.
Overlay(cells, offset) ==
  [i \in 1..Max({Len(file), offset + Len(cells)}) |->
     IF i > offset /\ i <= offset + Len(cells) THEN cells[i - offset]
     ELSE IF i <= Len(file) THEN file[i] ELSE Hole]

\* LoadLocalCache: the sections in order, until one is not what it should be.
\* A hole reads as zeros: version 0, but no model.
VersionAt(i) == IF i <= Len(file) /\ file[i][1] = "version" THEN file[i][2] ELSE 0

ModelAt(i) ==
  IF /\ i <= Len(file) /\ file[i][1] = "model" /\ file[i][3] = 1
     /\ file[i][2] \in Large =>
          i < Len(file) /\ file[i + 1] = <<"model", file[i][2], 2>>
  THEN file[i][2] ELSE 0

PairAt(i) == [version |-> VersionAt(i), model |-> ModelAt(i + 1)]

ClickAt == IF ModelAt(2) \in Large THEN 4 ELSE 3
HasClick == ClickAt <= Len(file) /\ file[ClickAt][1] # "model" /\ ModelAt(ClickAt + 1) # 0

Load ==
  [k \in Kind |->
     IF ModelAt(2) = 0 \/ (k = "click" /\ ~HasClick) THEN NoModel
     ELSE PairAt(IF k = "click" THEN ClickAt ELSE 1)]

----------------------------------------------------------------------------
FileInit ==
  /\ MasterInit
  /\ file = <<>>
  /\ writer = [k \in Kind |-> NoWriter]
  /\ shared = FALSE

FitsModel(k) == FitStep(k) /\ UNCHANGED fileVars

\* WriteLocalCache: os.Create, then the sections in order.
Creates(k) ==
  /\ BeginsFile(k)
  /\ file' = <<>>
  /\ writer' = [writer EXCEPT ![k] = [offset |-> 0, sections |-> Sections]]
  /\ shared' = \E j \in Kind \ {k} : fit[j] = "writing"

WritesSection(k) ==
  /\ writer[k].sections # <<>>
  /\ LET cells == Cells(Head(writer[k].sections)[1], Head(writer[k].sections)[2]) IN
       /\ file' = Overlay(cells, writer[k].offset)
       /\ writer' = [writer EXCEPT ![k] =
            [offset |-> @.offset + Len(cells), sections |-> Tail(@.sections)]]
  /\ UNCHANGED <<masterVars, shared>>

Closes(k) ==
  /\ EndsFile(k)
  /\ writer[k].sections = <<>>
  /\ writer' = [writer EXCEPT ![k] = NoWriter]
  /\ UNCHANGED <<file, shared>>

\* A crash or a shutdown at any point, and the start that follows.
MasterRestarts ==
  /\ Restarts(Load)
  /\ writer' = [k \in Kind |-> NoWriter]
  /\ shared' = FALSE
  /\ UNCHANGED file

FileNext ==
  \/ \E k \in Kind : FitsModel(k) \/ Creates(k) \/ WritesSection(k) \/ Closes(k)
  \/ RankingOnlySearched /\ UNCHANGED fileVars
  \/ MasterRestarts

FileSpec == FileInit /\ [][FileNext]_localCacheVars

----------------------------------------------------------------------------
\* "Click model, version and score are persisted to local cache" (tasks.go
\* 1081): when no task is between publishing a model and closing the file, a
\* restart finds both models as the local cache has them, unless the two fit
\* tasks have last written the file at the same time.
QuietFileIsCache ==
  (\A k \in Kind : fit[k] \in {"idle", "fitting"} /\ cache[k].model # 0) /\ ~shared => Load = cache
=============================================================================
