----------------------------- MODULE MasterProofs -----------------------------
(***************************************************************************)
(* Invariants of the loops of the master (LoadLoop, ManagedLoop), of the   *)
(* file of its models (LocalCacheFile) and of the neighbors that it keeps  *)
(* (Neighbors), for any bounds, tasks, requests, models and data.          *)
(***************************************************************************)
EXTENDS LoadLoop, ManagedLoop, LocalCacheFile, Neighbors, ModelFit, SequenceTheorems, TLAPS

\* What one step of the program can be.
LEMMA StepCases ==
  ASSUME [LoadNext]_vars
  PROVE  \/ Imports \/ Edits \/ \E edit \in importing : Notifies(edit)
         \/ Polls \/ Clears \/ Signals
         \/ TickBegins \/ ImportBegins \/ ReadsItems \/ LoadEnds \/ LoadFails
         \/ UNCHANGED vars
  BY DEF LoadNext, PollNext, LoopNext

\* The variables of the stores, the poller and the loop keep to their types:
\* no import notifies of a change that was not stored, and no load has read one
\* (master.go 339-386, 501-526).
THEOREM LoadTypeCorrect == LoadSafeSpec => []LoadTypeOK
<1>1. LoadInit => LoadTypeOK
  <2> SUFFICES ASSUME LoadInit PROVE LoadTypeOK
    OBVIOUS
  <2>1. FlagsAreBoolean
    BY Zenon DEF LoadInit, FlagsAreBoolean
  <2> QED
    BY <2>1 DEF LoadInit, LoadTypeOK, CountersInOrder, PollerStep, LoopStep
<1>2. FlagsAreBoolean /\ [LoadNext]_vars => FlagsAreBoolean'
  <2> SUFFICES ASSUME FlagsAreBoolean, [LoadNext]_vars PROVE FlagsAreBoolean'
    OBVIOUS
  <2> USE DEF FlagsAreBoolean
  <2>1. CASE Imports
    BY <2>1, Zenon DEF Imports, pollVars, loopVars
  <2>2. CASE Edits
    BY <2>2, Zenon DEF Edits, pollVars, loopVars
  <2>3. CASE \E edit \in importing : Notifies(edit)
    BY <2>3, Zenon DEF Notifies, loopVars
  <2>4. CASE Polls \/ Clears \/ Signals
    BY <2>4, Zenon DEF Polls, Clears, Signals, storeVars, loopVars
  <2>5. CASE TickBegins \/ ImportBegins
    BY <2>5, Zenon DEF TickBegins, ImportBegins, LoadBegins, storeVars, pollVars
  <2>6. CASE ReadsItems \/ LoadEnds \/ LoadFails
    BY <2>6, Zenon DEF ReadsItems, LoadEnds, LoadFails, storeVars, pollVars
  <2>7. CASE UNCHANGED vars
    BY <2>7, Zenon DEF vars, storeVars, pollVars, loopVars
  <2> QED
    BY <2>1, <2>2, <2>3, <2>4, <2>5, <2>6, <2>7, StepCases
<1>3. LoadTypeOK /\ [LoadNext]_vars => CountersInOrder' /\ poller' \in PollerStep /\ loop' \in LoopStep
  <2> SUFFICES ASSUME CountersInOrder, poller \in PollerStep, loop \in LoopStep, [LoadNext]_vars
               PROVE  CountersInOrder' /\ poller' \in PollerStep /\ loop' \in LoopStep
    BY DEF LoadTypeOK
  <2> USE DEF CountersInOrder
  <2>1. CASE Imports
    BY <2>1 DEF Imports, Changes, pollVars, loopVars
  <2>2. CASE Edits
    BY <2>2 DEF Edits, Changes, pollVars, loopVars
  <2>3. ASSUME NEW edit \in importing, Notifies(edit)
        PROVE  CountersInOrder' /\ poller' \in PollerStep /\ loop' \in LoopStep
    <3>1. edit \in 1..changes
      OBVIOUS
    <3>2. notified' \in 0..changes
      BY <2>3, <3>1 DEF Notifies
    <3>3. failures' \in Nat
      BY <2>3 DEF Notifies, Fails
    <3> QED
      BY <2>3, <3>2, <3>3 DEF Notifies, loopVars
  <2>4. CASE Polls \/ Signals
    BY <2>4 DEF Polls, Signals, storeVars, loopVars, PollerStep
  <2>5. CASE Clears
    <3>1. failures' \in Nat
      BY <2>5 DEF Clears, Fails
    <3> QED
      BY <2>5, <3>1 DEF Clears, storeVars, loopVars, PollerStep
  <2>6. CASE TickBegins \/ ImportBegins
    <3>1. LoadBegins
      BY <2>6, Zenon DEF TickBegins, ImportBegins
    <3> QED
      BY <3>1 DEF LoadBegins, storeVars, pollVars, LoopStep
  <2>7. CASE ReadsItems \/ LoadEnds
    BY <2>7 DEF ReadsItems, LoadEnds, storeVars, pollVars, LoopStep
  <2>8. CASE LoadFails
    BY <2>8 DEF LoadFails, Fails, storeVars, pollVars, LoopStep
  <2>9. CASE UNCHANGED vars
    BY <2>9 DEF vars, storeVars, pollVars, loopVars
  <2> QED
    BY <2>1, <2>2, <2>3, <2>4, <2>5, <2>6, <2>7, <2>8, <2>9, StepCases
<1>4. LoadTypeOK /\ [LoadNext]_vars => LoadTypeOK'
  BY <1>2, <1>3 DEF LoadTypeOK
<1> QED
  BY <1>1, <1>4, PTL DEF LoadSafeSpec

\* A load reads at least what was loaded before it.
ReadsOn == loaded <= reading

\* No notification is lost between the request that sets the flag, the
\* goroutine that reads and clears it and the loop that waits for the channel
\* (master.go 339-350, 501-518).  The invariant is inductive with ReadsOn:
\* otherwise a load could end with less than was loaded before.
THEOREM NoImportIsForgotten == LoadSafeSpec => []NoImportForgotten
<1> DEFINE Inv == NoImportForgotten /\ ReadsOn
<1>1. LoadInit => Inv
  BY DEF LoadInit, NoImportForgotten, ReadsOn
<1>2. LoadTypeOK /\ ReadsOn /\ [LoadNext]_vars => ReadsOn'
  <2> SUFFICES ASSUME LoadTypeOK, ReadsOn, [LoadNext]_vars
               PROVE  ReadsOn'
    OBVIOUS
  <2>1. CASE LoadBegins
    BY <2>1 DEF LoadBegins, LoadTypeOK, CountersInOrder, ReadsOn
  <2>2. CASE LoadEnds
    BY <2>2 DEF LoadEnds, LoadTypeOK, CountersInOrder, ReadsOn
  <2>3. CASE UNCHANGED <<reading, loaded>>
    BY <2>3 DEF ReadsOn
  <2>4. CASE UNCHANGED vars
    BY <2>4, <2>3 DEF vars, loopVars
  <2>5. ASSUME NEW edit \in importing, Notifies(edit)
        PROVE  UNCHANGED <<reading, loaded>>
    BY <2>5 DEF Notifies, loopVars
  <2> QED
    BY <2>1, <2>2, <2>3, <2>4, <2>5
    DEF LoadNext, PollNext, LoopNext, TickBegins, ImportBegins, Imports, Edits,
        Polls, Clears, Signals, ReadsItems, LoadFails, loopVars
<1>3. LoadTypeOK /\ Inv /\ [LoadNext]_vars => NoImportForgotten'
  <2> SUFFICES ASSUME LoadTypeOK, NoImportForgotten, ReadsOn, [LoadNext]_vars
               PROVE  NoImportForgotten'
    OBVIOUS
  <2> USE DEF NoImportForgotten
  <2>1. CASE Imports \/ Edits
    BY <2>1 DEF Imports, Edits, Changes, pollVars, loopVars
  <2>2. ASSUME NEW edit \in importing, Notifies(edit)
        PROVE  NoImportForgotten'
    BY <2>2 DEF Notifies, loopVars
  <2>3. CASE Polls
    BY <2>3 DEF Polls, storeVars, loopVars
  <2>4. CASE Clears
    BY <2>4 DEF Clears, storeVars, loopVars
  <2>5. CASE Signals
    BY <2>5 DEF Signals, storeVars, loopVars
  <2>6. CASE LoadBegins
    <3>1. notified' <= reading'
      BY <2>6 DEF LoadBegins, LoadTypeOK, CountersInOrder, storeVars
    <3> QED
      BY <2>6, <3>1 DEF LoadBegins
  <2>7. CASE ReadsItems
    BY <2>7 DEF ReadsItems, storeVars, pollVars
  <2>8. CASE LoadEnds
    BY <2>8 DEF LoadEnds, LoadTypeOK, CountersInOrder, ReadsOn, storeVars, pollVars
  <2>9. CASE LoadFails
    BY <2>9 DEF LoadFails
  <2>10. CASE UNCHANGED vars
    BY <2>10 DEF vars, storeVars, pollVars, loopVars
  <2> QED
    BY <2>1, <2>2, <2>3, <2>4, <2>5, <2>6, <2>7, <2>8, <2>9, <2>10
    DEF LoadNext, PollNext, LoopNext, TickBegins, ImportBegins
<1>4. LoadTypeOK /\ Inv /\ [LoadNext]_vars => Inv'
  BY <1>2, <1>3
<1>5. Inv => NoImportForgotten
  OBVIOUS
<1> QED
  BY <1>1, <1>4, <1>5, LoadTypeCorrect, PTL DEF LoadSafeSpec

----------------------------------------------------------------------------
(* The managed mode                                                         *)

ManagedTypeOK ==
  /\ registered \subseteq Tasks
  /\ task \in [Tasks -> {"idle", "running", "done"}]

\* The channel keeps the signal of a request that no round has answered.
SignalsKept == unheard => trigger

\* A wish for a search is still in the state that is shared, or in the round.
WishesKept ==
  /\ meant => searchModel
  /\ round.step \in {"load", "run"} => ~meant /\ (round.meant => round.search)

\* The scheduler knows a task until it has unregistered, and tasks run only in
\* the round that has started them, which waits for them.
TasksAccounted ==
  /\ \A t \in Tasks : task[t] = "idle" <=> t \notin registered
  /\ \A t \in Tasks : task[t] = "running" => round.step = "run" /\ t \in round.started
  /\ round.step = "run" => round.started \subseteq Tasks /\ Wanted \subseteq round.started \cup round.late

ManagedIInv == ManagedTypeOK /\ SignalsKept /\ WishesKept /\ TasksAccounted

LEMMA ManagedInitInv == ManagedInit => ManagedIInv
<1> SUFFICES ASSUME ManagedInit PROVE ManagedIInv
  OBVIOUS
<1>1. ManagedTypeOK /\ TasksAccounted
  BY DEF ManagedInit, ManagedTypeOK, TasksAccounted, Waiting
<1>2. SignalsKept
  BY Zenon DEF ManagedInit, SignalsKept
<1>3. WishesKept
  <2>1. round.step \notin {"load", "run"}
    BY DEF ManagedInit, Waiting
  <2> QED
    BY <2>1, Zenon DEF ManagedInit, WishesKept
<1> QED
  BY <1>1, <1>2, <1>3 DEF ManagedIInv

\* Steps of requests leave the round and its tasks alone.
LEMMA RequestsInv ==
  ASSUME ManagedIInv, NEW p \in Posters, Posts(p) \/ Triggers(p)
  PROVE  ManagedIInv'
<1> USE DEF ManagedIInv
<1>1. UNCHANGED <<round, registered, task>>
  BY DEF Posts, Triggers
<1>2. ManagedTypeOK' /\ TasksAccounted'
  BY <1>1 DEF ManagedTypeOK, TasksAccounted, Wanted
<1>3. SignalsKept'
  BY Zenon DEF SignalsKept, Posts, Triggers
<1>4. WishesKept'
  <2>1. CASE UNCHANGED <<searchModel, meant>>
    BY <1>1, <2>1, Zenon DEF WishesKept
  <2>2. ASSUME NEW wanted \in BOOLEAN, searchModel' = wanted,
               meant' = (wanted /\ (meant \/ round.step \in {"wait", "begin"}))
        PROVE  WishesKept'
    <3>1. round.step \in {"load", "run"} => ~meant /\ round.step \notin {"wait", "begin"}
      BY DEF WishesKept
    <3> QED
      BY <1>1, <2>2, <3>1, Zenon DEF WishesKept
  <2> QED
    BY <2>1, <2>2 DEF Posts, Triggers
<1> QED
  BY <1>2, <1>3, <1>4

LEMMA RoundStartsInv ==
  ASSUME ManagedIInv, RoundWakes \/ Begins
  PROVE  ManagedIInv'
<1> USE DEF ManagedIInv
<1>1. round.step \in {"wait", "begin"} /\ round'.step \in {"begin", "load"}
  BY DEF RoundWakes, Begins, Waiting
<1>2. UNCHANGED <<registered, task>>
  BY DEF RoundWakes, Begins
<1>3. TasksAccounted'
  BY <1>1, <1>2 DEF TasksAccounted
<1>4. ManagedTypeOK'
  BY <1>2 DEF ManagedTypeOK
<1>5. CASE RoundWakes
  <2>1. round' = [step |-> "begin"] /\ round'.step = "begin"
    BY <1>5 DEF RoundWakes
  <2>3. SignalsKept'
    BY <1>5, Zenon DEF SignalsKept, RoundWakes
  <2>4. round'.step \notin {"load", "run"}
    BY <2>1
  <2>5. WishesKept'
    BY <1>5, <2>4, Zenon DEF WishesKept, RoundWakes
  <2> QED
    BY <1>3, <1>4, <2>3, <2>5
<1>6. CASE Begins
  <2>1. round' = [step |-> "load", meant |-> meant, search |-> searchModel]
    BY <1>6 DEF Begins
  <2>2. round'.meant = meant /\ round'.search = searchModel
    BY <2>1
  <2>3. SignalsKept'
    BY <1>6, Zenon DEF SignalsKept, Begins
  <2>4. WishesKept'
    BY <1>6, <2>2, Zenon DEF WishesKept, Begins
  <2> QED
    BY <1>3, <1>4, <2>3, <2>4
<1> QED
  BY <1>5, <1>6

LEMMA RoundLoadsInv ==
  ASSUME ManagedIInv, RoundLoads
  PROVE  ManagedIInv'
<1> DEFINE started == Wanted \ registered
           late == {t \in Wanted : task[t] = "done"}
<1> USE DEF ManagedIInv
<1>1. round' = [step |-> "run", meant |-> round.meant, search |-> round.search,
                started |-> started, late |-> late]
      /\ round.step = "load"
  BY DEF RoundLoads
<1>2. /\ round'.step = "run" /\ round'.meant = round.meant /\ round'.search = round.search
      /\ round'.started = started /\ round'.late = late
  BY <1>1
<1>3. Wanted \subseteq Tasks /\ Wanted' = Wanted
  BY <1>2 DEF Wanted, Tasks
<1>4. /\ registered' = registered \cup Wanted
      /\ task' = [t \in Tasks |-> IF t \in started THEN "running" ELSE task[t]]
      /\ UNCHANGED <<trigger, searchModel, unheard, meant>>
  BY DEF RoundLoads
<1>5. ManagedTypeOK'
  BY <1>3, <1>4 DEF ManagedTypeOK
<1>6. SignalsKept'
  BY <1>4, Zenon DEF SignalsKept
<1>7. WishesKept'
  BY <1>1, <1>2, <1>4, Zenon DEF WishesKept
<1>8. \A t \in Tasks : task[t] # "running"
  BY <1>1 DEF TasksAccounted
<1>9. TasksAccounted'
  <2>1. ASSUME NEW t \in Tasks
        PROVE  /\ task'[t] = "idle" <=> t \notin registered'
               /\ task'[t] = "running" => t \in started
    BY <1>3, <1>4, <1>8 DEF TasksAccounted
  <2>2. \A t \in Wanted : t \in started \cup late
    BY <1>3, <1>8 DEF TasksAccounted, ManagedTypeOK
  <2> QED
    BY <1>2, <1>3, <2>1, <2>2 DEF TasksAccounted
<1> QED
  BY <1>5, <1>6, <1>7, <1>9

\* The deferred function of a round forgets the wish only of a round that ends.
LEMMA RoundStopsInv ==
  ASSUME ManagedIInv, RoundFails \/ RoundEnds
  PROVE  ManagedIInv'
<1> USE DEF ManagedIInv
<1>1. round.step \in {"load", "run"} /\ round' = Waiting
      /\ UNCHANGED <<trigger, registered, task, unheard, meant>>
  BY DEF RoundFails, RoundEnds, Resets
<1>2. round'.step \notin {"load", "run"}
  BY <1>1 DEF Waiting
<1>3. \A t \in Tasks : task[t] # "running"
  BY DEF RoundFails, RoundEnds, TasksAccounted
<1>4. ManagedTypeOK' /\ TasksAccounted'
  BY <1>1, <1>2, <1>3 DEF ManagedTypeOK, TasksAccounted
<1>5. SignalsKept'
  BY <1>1, Zenon DEF SignalsKept
<1>6. WishesKept'
  BY <1>1, <1>2, Zenon DEF WishesKept
<1> QED
  BY <1>4, <1>5, <1>6

LEMMA TasksEndInv ==
  ASSUME ManagedIInv, NEW t \in Tasks, EndsTask(t) \/ Unregisters(t)
  PROVE  ManagedIInv'
<1> USE DEF ManagedIInv
<1>1. UNCHANGED <<trigger, searchModel, round, unheard, meant>>
  BY DEF EndsTask, Unregisters
<1>2. \A s \in Tasks \ {t} : task'[s] = task[s] /\ (s \in registered' <=> s \in registered)
  BY DEF EndsTask, Unregisters, ManagedTypeOK
<1>3. /\ task[t] # "idle"
      /\ \/ task'[t] = "done" /\ registered' = registered
         \/ task'[t] = "idle" /\ registered' = registered \ {t}
  BY DEF EndsTask, Unregisters, ManagedTypeOK
<1>4. ManagedTypeOK'
  BY DEF EndsTask, Unregisters, ManagedTypeOK
<1>5. TasksAccounted'
  BY <1>1, <1>2, <1>3 DEF TasksAccounted, Wanted
<1>6. SignalsKept'
  BY <1>1, Zenon DEF SignalsKept
<1>7. WishesKept'
  BY <1>1, Zenon DEF WishesKept
<1> QED
  BY <1>4, <1>5, <1>6, <1>7

LEMMA ManagedNextInv == ManagedIInv /\ [ManagedNext]_managedVars => ManagedIInv'
<1> SUFFICES ASSUME ManagedIInv, [ManagedNext]_managedVars PROVE ManagedIInv'
  OBVIOUS
<1>1. CASE UNCHANGED managedVars
  <2>1. UNCHANGED <<trigger, searchModel, round, registered, task, unheard, meant>>
    BY <1>1 DEF managedVars
  <2>2. ManagedTypeOK' /\ TasksAccounted'
    BY <2>1 DEF ManagedIInv, ManagedTypeOK, TasksAccounted, Wanted
  <2>3. SignalsKept' /\ WishesKept'
    BY <2>1, Zenon DEF ManagedIInv, SignalsKept, WishesKept
  <2> QED
    BY <2>2, <2>3 DEF ManagedIInv
<1> QED
  BY <1>1, RequestsInv, RoundStartsInv, RoundLoadsInv, RoundStopsInv, TasksEndInv DEF ManagedNext

\* A request that has signalled is heard, a round starts every task it should
\* but those the scheduler still knows from the round before, and the wish for a
\* search is not forgotten between the request and the round (master.go 429-498,
\* rest.go 1278-1306), for any tasks, requests and number of rounds.
THEOREM ManagedRoundsAreRight == ManagedSpec => []RoundsDoWhatWasAsked
<1>1. ManagedIInv => RoundsDoWhatWasAsked
  <2> SUFFICES ASSUME ManagedIInv PROVE RoundsDoWhatWasAsked
    OBVIOUS
  <2>1. round.step = "run" =>
          /\ Fitting \cup (IF round.search THEN Searching ELSE {}) \subseteq round.started \cup round.late
          /\ \A t \in round.started : t \in registered \/ task[t] = "idle"
    BY DEF ManagedIInv, TasksAccounted, Wanted
  <2> QED
    BY <2>1, Zenon DEF ManagedIInv, SignalsKept, WishesKept, RoundsDoWhatWasAsked
<1> QED
  BY <1>1, ManagedInitInv, ManagedNextInv, PTL DEF ManagedSpec

----------------------------------------------------------------------------
(* The file of the local cache *)

Cell == {<<"version", n, 0>> : n \in Nat} \cup {<<"model", n, part>> : n \in Nat, part \in {1, 2}} \cup {Hole}

\* What may be left to write.
Rests == {Sections, Tail(Sections), Tail(Tail(Sections)), Tail(Tail(Tail(Sections))), <<>>}

FileTypeOK ==
  /\ cache \in [Kind -> Pair] /\ version \in [Kind -> Nat] /\ model \in [Kind -> Nat]
  /\ made \in Nat /\ restarts \in Nat
  /\ fit \in [Kind -> FitStage]
  /\ file \in Seq(Cell)
  /\ writer \in [Kind -> [offset : Nat, sections : Rests]]

\* What a writer has put into the file when n sections are left.
Written(n) ==
  IF n = 4 THEN <<>>
  ELSE IF n = 3 THEN Cells("version", "ranking")
  ELSE IF n = 2 THEN Cells("version", "ranking") \o Cells("model", "ranking")
  ELSE IF n = 1 THEN Cells("version", "ranking") \o Cells("model", "ranking") \o Cells("version", "click")
  ELSE Cells("version", "ranking") \o Cells("model", "ranking") \o Cells("version", "click")
      \o Cells("model", "click")

WrittenBefore(rest) == Written(Len(rest))

WritersWrite == \A k \in Kind : fit[k] # "writing" => writer[k].sections = <<>>

OneWriter == \A j, k \in Kind : fit[j] = "writing" /\ fit[k] = "writing" => j = k

\* A model is not to be written yet, or is not there.
Excused == \E k \in Kind : fit[k] = "cached" \/ cache[k].model = 0

FileAsCache ==
  /\ \A k \in Kind : fit[k] = "writing" => /\ file = WrittenBefore(writer[k].sections)
                                           /\ writer[k].offset = Len(file)
  /\ (\A k \in Kind : fit[k] # "writing") => Load = cache

FileIInv ==
  /\ FileTypeOK
  /\ WritersWrite
  /\ ~shared => OneWriter /\ (Excused \/ FileAsCache)

LEMMA MaxOfTwo ==
  ASSUME NEW a \in Nat, NEW b \in Nat
  PROVE  Max({a, b}) = IF a >= b THEN a ELSE b
<1> DEFINE m == IF a >= b THEN a ELSE b
<1>1. m \in {a, b} /\ \A y \in {a, b} : m >= y
  OBVIOUS
<1>2. \A x \in {a, b} : (\A y \in {a, b} : x >= y) => x = m
  OBVIOUS
<1> QED
  BY <1>1, <1>2 DEF Max

LEMMA OverlayType ==
  ASSUME file \in Seq(Cell), NEW cells \in Seq(Cell), NEW offset \in Nat
  PROVE  Overlay(cells, offset) \in Seq(Cell)
<1> DEFINE m == Max({Len(file), offset + Len(cells)})
<1>1. Len(file) \in Nat /\ Len(cells) \in Nat /\ offset + Len(cells) \in Nat
  OBVIOUS
<1>2. m \in Nat
  BY <1>1, MaxOfTwo
<1> DEFINE At(i) == IF i > offset /\ i <= offset + Len(cells) THEN cells[i - offset]
                    ELSE IF i <= Len(file) THEN file[i] ELSE Hole
<1>3. ASSUME NEW i \in 1 .. m PROVE At(i) \in Cell
  <2>0. i \in Nat /\ i >= 1
    BY <1>2
  <2>1. CASE i > offset /\ i <= offset + Len(cells)
    <3>1. i - offset \in 1 .. Len(cells)
      BY <1>1, <2>0, <2>1
    <3> QED
      BY <2>1, <3>1
  <2>2. CASE ~(i > offset /\ i <= offset + Len(cells)) /\ i <= Len(file)
    <3>1. i \in 1 .. Len(file)
      BY <1>1, <2>0, <2>2
    <3> QED
      BY <2>2, <3>1
  <2>3. CASE ~(i > offset /\ i <= offset + Len(cells)) /\ ~(i <= Len(file))
    BY <2>3 DEF Cell
  <2> QED
    BY <2>1, <2>2, <2>3
<1>4. Overlay(cells, offset) = [i \in 1 .. m |-> At(i)]
  BY DEF Overlay
<1> HIDE DEF m, At
<1>5. [i \in 1 .. m |-> At(i)] \in [1 .. m -> Cell]
  BY <1>3
<1> QED
  BY <1>2, <1>4, <1>5

\* Written at the end, cells are appended.
LEMMA OverlayAppends ==
  ASSUME file \in Seq(Cell), NEW cells \in Seq(Cell)
  PROVE  Overlay(cells, Len(file)) = file \o cells
<1> DEFINE l == Len(file) + Len(cells)
<1>1. Len(file) \in Nat /\ Len(cells) \in Nat
  OBVIOUS
<1>2. Max({Len(file), l}) = l
  BY <1>1, MaxOfTwo
<1>3. Overlay(cells, Len(file)) = [i \in 1 .. l |-> IF i > Len(file) THEN cells[i - Len(file)] ELSE file[i]]
  <2>1. \A i \in 1 .. l : i > Len(file) => i <= l
    BY <1>1
  <2>2. \A i \in 1 .. l : (IF i > Len(file) /\ i <= l THEN cells[i - Len(file)]
                              ELSE IF i <= Len(file) THEN file[i] ELSE Hole)
                           = IF i > Len(file) THEN cells[i - Len(file)] ELSE file[i]
    BY <1>1
  <2> QED
    BY <1>2, <2>2 DEF Overlay
<1>4. file \o cells \in Seq(Cell) /\ Len(file \o cells) = l
      /\ \A i \in 1 .. l : (file \o cells)[i] = IF i <= Len(file) THEN file[i] ELSE cells[i - Len(file)]
  BY ConcatProperties
<1>5. Overlay(cells, Len(file)) \in Seq(Cell)
  BY <1>1, OverlayType
<1>6. Len(Overlay(cells, Len(file))) = l
  BY <1>1, <1>3
<1>7. \A i \in 1 .. l : Overlay(cells, Len(file))[i] = (file \o cells)[i]
  BY <1>1, <1>3, <1>4
<1> HIDE DEF l
<1> QED
  BY <1>4, <1>5, <1>6, <1>7, SeqEqual

\* A file that was written alone holds what was written.
LEMMA WholeLoads ==
  ASSUME cache \in [Kind -> Pair], \A k \in Kind : cache[k].model # 0, file = WrittenBefore(<<>>)
  PROVE  Load = cache
<1> DEFINE r == cache["ranking"]
           c == cache["click"]
<1>1. r \in Pair /\ c \in Pair /\ r.model # 0 /\ c.model # 0
  BY LocalCacheAssumption
<1>2. file = <<<<"version", r.version, 0>>>> \o Cells("model", "ranking") \o <<<<"version", c.version, 0>>>>
          \o Cells("model", "click")
  <2>1. Len(<<>>) = 0
    OBVIOUS
  <2>2. file = Written(0)
    BY <2>1 DEF WrittenBefore
  <2>3. Written(0) = Cells("version", "ranking") \o Cells("model", "ranking") \o Cells("version", "click")
            \o Cells("model", "click")
    BY DEF Written
  <2>4. Cells("version", "ranking") = <<<<"version", r.version, 0>>>>
            /\ Cells("version", "click") = <<<<"version", c.version, 0>>>>
    BY DEF Cells
  <2> QED
    BY <2>2, <2>3, <2>4
<1>3. r = [version |-> r.version, model |-> r.model] /\ c = [version |-> c.version, model |-> c.model]
  BY <1>1 DEF Pair
<1>4. cache = [k \in Kind |-> IF k = "ranking" THEN r ELSE c]
  BY LocalCacheAssumption
<1>a. ASSUME VersionAt(1) = r.version, ModelAt(2) = r.model,
             ClickAt <= Len(file), file[ClickAt][1] = "version", VersionAt(ClickAt) = c.version,
                 ModelAt(ClickAt + 1) = c.model
      PROVE  Load = cache
  <2>1. PairAt(1) = r /\ PairAt(ClickAt) = c
    BY <1>3, <1>a DEF PairAt
  <2>2. Load = [k \in Kind |-> IF k = "ranking" THEN r ELSE c]
    <3>1. ModelAt(2) # 0 /\ HasClick
      BY <1>1, <1>a DEF HasClick
    <3> HIDE DEF r, c
    <3>2. \A k \in Kind : PairAt(IF k = "click" THEN ClickAt ELSE 1) = IF k = "ranking" THEN r ELSE c
      BY <2>1, LocalCacheAssumption
    <3> QED
      BY <3>1, <3>2 DEF Load
  <2> QED
    BY <1>4, <2>2
<1>5. CASE r.model \in Large /\ c.model \in Large
  <2>1. file = <<<<"version", r.version, 0>>, <<"model", r.model, 1>>, <<"model", r.model, 2>>,
                 <<"version", c.version, 0>>, <<"model", c.model, 1>>, <<"model", c.model, 2>>>>
    BY <1>2, <1>5 DEF Cells
  <2>2. VersionAt(1) = r.version
    BY <2>1 DEF VersionAt
  <2>3. ModelAt(2) = r.model
    BY <1>5, <2>1 DEF ModelAt
  <2>4. ClickAt = 4
    BY <1>5, <2>3 DEF ClickAt
  <2>5. 4 <= Len(file) /\ file[4][1] = "version" /\ VersionAt(4) = c.version
    BY <2>1 DEF VersionAt
  <2>6. ModelAt(5) = c.model
    BY <1>5, <2>1 DEF ModelAt
  <2> QED
    BY <1>a, <2>2, <2>3, <2>4, <2>5, <2>6
<1>6. CASE r.model \in Large /\ c.model \notin Large
  <2>1. file = <<<<"version", r.version, 0>>, <<"model", r.model, 1>>, <<"model", r.model, 2>>,
                 <<"version", c.version, 0>>, <<"model", c.model, 1>>>>
    BY <1>2, <1>6 DEF Cells
  <2>2. VersionAt(1) = r.version
    BY <2>1 DEF VersionAt
  <2>3. ModelAt(2) = r.model
    BY <1>6, <2>1 DEF ModelAt
  <2>4. ClickAt = 4
    BY <1>6, <2>3 DEF ClickAt
  <2>5. 4 <= Len(file) /\ file[4][1] = "version" /\ VersionAt(4) = c.version
    BY <2>1 DEF VersionAt
  <2>6. ModelAt(5) = c.model
    BY <1>6, <2>1 DEF ModelAt
  <2> QED
    BY <1>a, <2>2, <2>3, <2>4, <2>5, <2>6
<1>7. CASE r.model \notin Large /\ c.model \in Large
  <2>1. file = <<<<"version", r.version, 0>>, <<"model", r.model, 1>>,
                 <<"version", c.version, 0>>, <<"model", c.model, 1>>, <<"model", c.model, 2>>>>
    BY <1>2, <1>7 DEF Cells
  <2>2. VersionAt(1) = r.version
    BY <2>1 DEF VersionAt
  <2>3. ModelAt(2) = r.model
    BY <1>7, <2>1 DEF ModelAt
  <2>4. ClickAt = 3
    BY <1>7, <2>3 DEF ClickAt
  <2>5. 3 <= Len(file) /\ file[3][1] = "version" /\ VersionAt(3) = c.version
    BY <2>1 DEF VersionAt
  <2>6. ModelAt(4) = c.model
    BY <1>7, <2>1 DEF ModelAt
  <2> QED
    BY <1>a, <2>2, <2>3, <2>4, <2>5, <2>6
<1>8. CASE r.model \notin Large /\ c.model \notin Large
  <2>1. file = <<<<"version", r.version, 0>>, <<"model", r.model, 1>>,
                 <<"version", c.version, 0>>, <<"model", c.model, 1>>>>
    BY <1>2, <1>8 DEF Cells
  <2>2. VersionAt(1) = r.version
    BY <2>1 DEF VersionAt
  <2>3. ModelAt(2) = r.model
    BY <1>8, <2>1 DEF ModelAt
  <2>4. ClickAt = 3
    BY <1>8, <2>3 DEF ClickAt
  <2>5. 3 <= Len(file) /\ file[3][1] = "version" /\ VersionAt(3) = c.version
    BY <2>1 DEF VersionAt
  <2>6. ModelAt(4) = c.model
    BY <1>8, <2>1 DEF ModelAt
  <2> QED
    BY <1>a, <2>2, <2>3, <2>4, <2>5, <2>6
<1> QED
  BY <1>5, <1>6, <1>7, <1>8

LEMMA CellsType ==
  ASSUME cache \in [Kind -> Pair], NEW section \in {"version", "model"}, NEW k \in Kind
  PROVE  Cells(section, k) \in Seq(Cell)
<1>1. cache[k].version \in Nat /\ cache[k].model \in Nat
  BY DEF Pair
<1>2. <<"version", cache[k].version, 0>> \in Cell /\ <<"model", cache[k].model, 1>> \in Cell
          /\ <<"model", cache[k].model, 2>> \in Cell
  BY <1>1 DEF Cell
<1> HIDE DEF Cell
<1>3. CASE section = "version"
  BY <1>2, <1>3 DEF Cells
<1>4. CASE section = "model" /\ cache[k].model \in Large
  BY <1>2, <1>4 DEF Cells
<1>5. CASE section = "model" /\ cache[k].model \notin Large
  BY <1>2, <1>5 DEF Cells
<1> QED
  BY <1>3, <1>4, <1>5

LEMMA LoadType ==
  ASSUME file \in Seq(Cell)
  PROVE  Load \in [Kind -> Pair]
<1>1. ASSUME NEW i \in Nat \ {0} PROVE VersionAt(i) \in Nat /\ ModelAt(i) \in Nat
  <2>1. CASE i <= Len(file)
    <3>1. file[i] \in Cell
      BY <2>1
    <3>2. file[i][1] \in {"version", "model"} => file[i][2] \in Nat
      BY <3>1 DEF Cell, Hole
    <3> QED
      BY <3>2 DEF VersionAt, ModelAt
  <2>2. CASE ~(i <= Len(file))
    BY <2>2 DEF VersionAt, ModelAt
  <2> QED
    BY <2>1, <2>2
<1>2. \A i \in Nat \ {0} : PairAt(i) \in Pair
  BY <1>1 DEF PairAt, Pair
<1>3. ClickAt \in Nat \ {0}
  BY DEF ClickAt
<1>4. NoModel \in Pair
  BY DEF NoModel, Pair
<1> QED
  BY <1>2, <1>3, <1>4 DEF Load

\* What is left gets shorter section by section.
LEMMA RestsShrink ==
  ASSUME NEW rest \in Rests, rest # <<>>, cache \in [Kind -> Pair]
  PROVE  /\ Head(rest)[1] \in {"version", "model"} /\ Head(rest)[2] \in Kind
         /\ Tail(rest) \in Rests
         /\ WrittenBefore(Tail(rest)) = WrittenBefore(rest) \o Cells(Head(rest)[1], Head(rest)[2])
<1> DEFINE vr == Cells("version", "ranking")
           mr == Cells("model", "ranking")
           vc == Cells("version", "click")
           mc == Cells("model", "click")
<1>0. vr \in Seq(Cell) /\ mr \in Seq(Cell) /\ vc \in Seq(Cell) /\ mc \in Seq(Cell)
  BY CellsType, LocalCacheAssumption
<1>s1. /\ Sections = << <<"version", "ranking">>, <<"model", "ranking">>, <<"version", "click">>,
              <<"model", "click">> >>
       /\ Tail(Sections) = << <<"model", "ranking">>, <<"version", "click">>, <<"model", "click">> >>
       /\ Tail(Tail(Sections)) = << <<"version", "click">>, <<"model", "click">> >>
       /\ Tail(Tail(Tail(Sections))) = << <<"model", "click">> >>
       /\ Tail(Tail(Tail(Tail(Sections)))) = <<>>
  BY DEF Sections
<1>s2. Written(4) = <<>> /\ Written(3) = vr /\ Written(2) = vr \o mr
  BY DEF Written
<1>s3. Written(1) = vr \o mr \o vc /\ Written(0) = vr \o mr \o vc \o mc
  BY DEF Written
<1>s4. /\ Cells("version", "ranking") = vr /\ Cells("model", "ranking") = mr
       /\ Cells("version", "click") = vc /\ Cells("model", "click") = mc
  OBVIOUS
<1> HIDE DEF vr, mr, vc, mc
<1>1. CASE rest = Sections
  <2>1. Head(rest) = <<"version", "ranking">> /\ Len(rest) = 4 /\ Len(Tail(rest)) = 3
    BY <1>1, <1>s1
  <2>2. WrittenBefore(rest) = <<>> /\ WrittenBefore(Tail(rest)) = vr
    BY <1>s2, <1>s3, <2>1 DEF WrittenBefore
  <2>3. <<>> \o vr = vr
    BY <1>0, ConcatEmptySeq
  <2>5. Tail(rest) \in Rests
    BY <1>1, <1>s1 DEF Rests
  <2> QED
    <3>1. Cells(Head(rest)[1], Head(rest)[2]) = vr
      BY <2>1, <1>s4
    <3> QED
      BY <1>1, <2>1, <2>2, <2>3, <2>5, <3>1, LocalCacheAssumption
<1>2. CASE rest = Tail(Sections)
  <2>1. Head(rest) = <<"model", "ranking">> /\ Len(rest) = 3 /\ Len(Tail(rest)) = 2
    BY <1>2, <1>s1
  <2>2. WrittenBefore(rest) = vr /\ WrittenBefore(Tail(rest)) = vr \o mr
    BY <1>s2, <1>s3, <2>1 DEF WrittenBefore
  <2>5. Tail(rest) \in Rests
    BY <1>2, <1>s1 DEF Rests
  <2> QED
    <3>1. Cells(Head(rest)[1], Head(rest)[2]) = mr
      BY <2>1, <1>s4
    <3> QED
      BY <1>2, <2>1, <2>2, <2>5, <3>1, LocalCacheAssumption
<1>3. CASE rest = Tail(Tail(Sections))
  <2>1. Head(rest) = <<"version", "click">> /\ Len(rest) = 2 /\ Len(Tail(rest)) = 1
    BY <1>3, <1>s1
  <2>2. WrittenBefore(rest) = vr \o mr /\ WrittenBefore(Tail(rest)) = vr \o mr \o vc
    BY <1>s2, <1>s3, <2>1 DEF WrittenBefore
  <2>5. Tail(rest) \in Rests
    BY <1>3, <1>s1 DEF Rests
  <2> QED
    <3>1. Cells(Head(rest)[1], Head(rest)[2]) = vc
      BY <2>1, <1>s4
    <3>2. WrittenBefore(Tail(rest)) = (vr \o mr) \o vc
      BY <2>2
    <3>3. WrittenBefore(Tail(rest)) = WrittenBefore(rest) \o Cells(Head(rest)[1], Head(rest)[2])
      BY <2>2, <3>1, <3>2, Zenon
    <3>4. Head(rest)[1] \in {"version", "model"} /\ Head(rest)[2] \in Kind
      BY <2>1, LocalCacheAssumption
    <3> QED
      BY <2>5, <3>3, <3>4, Zenon
<1>4. CASE rest = Tail(Tail(Tail(Sections)))
  <2>1. Head(rest) = <<"model", "click">> /\ Len(rest) = 1 /\ Len(Tail(rest)) = 0 /\ Tail(rest) = <<>>
    BY <1>4, <1>s1
  <2>2. WrittenBefore(rest) = vr \o mr \o vc /\ WrittenBefore(Tail(rest)) = vr \o mr \o vc \o mc
    BY <1>s2, <1>s3, <2>1 DEF WrittenBefore
  <2>5. Tail(rest) \in Rests
    BY <1>4, <1>s1 DEF Rests
  <2> QED
    <3>1. Cells(Head(rest)[1], Head(rest)[2]) = mc
      BY <2>1, <1>s4
    <3>2. WrittenBefore(Tail(rest)) = (vr \o mr \o vc) \o mc
      BY <2>2
    <3>3. WrittenBefore(Tail(rest)) = WrittenBefore(rest) \o Cells(Head(rest)[1], Head(rest)[2])
      BY <2>2, <3>1, <3>2, Zenon
    <3>4. Head(rest)[1] \in {"version", "model"} /\ Head(rest)[2] \in Kind
      BY <2>1, LocalCacheAssumption
    <3> QED
      BY <2>5, <3>3, <3>4, Zenon
<1> QED
  BY <1>1, <1>2, <1>3, <1>4 DEF Rests

LEMMA FileStarts ==
  ASSUME FileInit
  PROVE  FileIInv
<1>1. /\ cache = [k \in Kind |-> NoModel] /\ model = [k \in Kind |-> 0] /\ fit = [k \in Kind |-> "idle"]
             /\ made = 0 /\ restarts = 0
      /\ version = [k \in Kind |-> FirstVersion(NoModel, 0)] /\ file = <<>> /\ writer = [k \in Kind |-> NoWriter]
  BY DEF FileInit, MasterInit
<1>2. FirstVersion(NoModel, 0) \in Nat
  BY ModelsAssumption DEF FirstVersion, NoModel, RandomVersion
<1>3. NoModel \in Pair /\ NoWriter \in [offset : Nat, sections : Rests] /\ NoWriter.sections = <<>>
  BY DEF NoModel, Pair, NoWriter, Rests
<1>4. FileTypeOK
  <2>1. <<>> \in Seq(Cell) /\ "idle" \in FitStage
    BY DEF FitStage
  <2> QED
    BY <1>1, <1>2, <1>3, <2>1 DEF FileTypeOK
<1>5. WritersWrite /\ OneWriter
  BY <1>1, <1>3 DEF WritersWrite, OneWriter
<1>6. Excused
  BY <1>1, LocalCacheAssumption DEF Excused, NoModel
<1> QED
  BY <1>4, <1>5, <1>6 DEF FileIInv

\* The invariant depends on little of what a fit task does.
LEMMA FileFramed ==
  ASSUME FileIInv, FileTypeOK', UNCHANGED <<file, writer, shared, cache>>,
         \A j \in Kind : (fit'[j] = "writing" <=> fit[j] = "writing"),
         Excused => Excused'
  PROVE  FileIInv'
<1>1. Load' = Load
  BY DEF Load, VersionAt, ModelAt, ClickAt, HasClick, PairAt
<1>2. \A rest : WrittenBefore(rest)' = WrittenBefore(rest)
  BY DEF WrittenBefore, Written, Cells
<1>3. FileAsCache => FileAsCache'
  BY <1>1, <1>2 DEF FileAsCache
<1> QED
  BY <1>3 DEF FileIInv, WritersWrite, OneWriter

\* A step of a fit task beside the file.
LEMMA FileOfFits ==
  ASSUME FileIInv, NEW k \in Kind, FitsModel(k)
  PROVE  FileIInv'
<1>0. FileTypeOK /\ WritersWrite /\ UNCHANGED <<file, writer, shared>>
  BY DEF FitsModel, fileVars, FileIInv
<1>a. fit \in [Kind -> FitStage] /\ {"idle", "fitting", "published", "cached"} \subseteq FitStage
  BY <1>0 DEF FileTypeOK, FitStage
<1>1. CASE FitBegins(k)
  <2>1. fit[k] = "idle" /\ fit' = [fit EXCEPT ![k] = "fitting"] /\ UNCHANGED <<version, cache, restarts>>
    BY <1>1 DEF FitBegins
  <2>2. made' \in Nat /\ model' \in [Kind -> Nat]
    <3>1. CASE TakesSearched(k)
      BY <1>0, <3>1 DEF TakesSearched, FileTypeOK
    <3>2. CASE UNCHANGED <<searched, made, model>>
      BY <1>0, <3>2 DEF FileTypeOK
    <3> QED
      BY <1>1, <3>1, <3>2 DEF FitBegins
  <2>3. \A j \in Kind : fit'[j] = IF j = k THEN "fitting" ELSE fit[j]
    BY <2>1, <1>0 DEF FileTypeOK
  <2>4. FileTypeOK'
    <3>1. fit' \in [Kind -> FitStage]
      BY <1>a, <2>1
    <3> QED
      BY <1>0, <2>1, <2>2, <3>1 DEF FileTypeOK
  <2>5. Excused => Excused'
    BY <2>1, <2>3 DEF Excused
  <2> QED
    BY <1>0, <2>1, <2>3, <2>4, <2>5, FileFramed
<1>2. CASE Publishes(k)
  <2>1. fit[k] = "fitting" /\ fit' = [fit EXCEPT ![k] = "published"] /\ UNCHANGED <<cache, restarts>>
    BY <1>2 DEF Publishes
  <2>2. made' \in Nat /\ model' \in [Kind -> Nat] /\ version' \in [Kind -> Nat]
    BY <1>0, <1>2 DEF Publishes, FileTypeOK
  <2>3. \A j \in Kind : fit'[j] = IF j = k THEN "published" ELSE fit[j]
    BY <2>1, <1>0 DEF FileTypeOK
  <2>4. FileTypeOK'
    <3>1. fit' \in [Kind -> FitStage]
      BY <1>a, <2>1
    <3> QED
      BY <1>0, <2>1, <2>2, <2>3, <3>1 DEF FileTypeOK
  <2>5. Excused => Excused'
    BY <2>1, <2>3 DEF Excused
  <2> QED
    BY <1>0, <2>1, <2>3, <2>4, <2>5, FileFramed
<1>3. CASE Caches(k)
  <2>1. fit[k] = "published" /\ fit' = [fit EXCEPT ![k] = "cached"] /\ UNCHANGED <<made, model, version, restarts>>
    BY <1>3 DEF Caches
  <2>2. cache' \in [Kind -> Pair]
    BY <1>0, <1>3 DEF Caches, FileTypeOK, Pair
  <2>3. \A j \in Kind : fit'[j] = IF j = k THEN "cached" ELSE fit[j]
    BY <2>1, <1>0 DEF FileTypeOK
  <2>4. FileTypeOK'
    <3>1. fit' \in [Kind -> FitStage]
      BY <1>a, <2>1
    <3> QED
      BY <1>0, <2>1, <2>2, <2>3, <3>1 DEF FileTypeOK
  <2>5. Excused'
    BY <2>3 DEF Excused
  <2>6. WritersWrite' /\ (OneWriter => OneWriter')
    BY <1>0, <2>1, <2>3 DEF WritersWrite, OneWriter
  <2> QED
    BY <1>0, <2>4, <2>5, <2>6 DEF FileIInv
<1>4. CASE SkipsFile(k)
  <2>1. fit[k] = "cached" /\ fit' = [fit EXCEPT ![k] = "idle"] /\ UNCHANGED <<made, model, version, cache, restarts>>
    BY <1>4 DEF SkipsFile
  <2>3. \A j \in Kind : fit'[j] = IF j = k THEN "idle" ELSE fit[j]
    BY <2>1, <1>0 DEF FileTypeOK
  <2>4. FileTypeOK'
    <3>1. fit' \in [Kind -> FitStage]
      BY <1>a, <2>1
    <3> QED
      BY <1>0, <2>1, <2>3, <3>1 DEF FileTypeOK
  <2>5. Excused'
    BY <1>4 DEF SkipsFile, Excused
  <2> QED
    BY <1>0, <2>1, <2>3, <2>4, <2>5, FileFramed
<1> QED
  BY <1>1, <1>2, <1>3, <1>4 DEF FitsModel, FitStep

LEMMA FileIsWritten ==
  ASSUME FileIInv, NEW k \in Kind, Creates(k) \/ WritesSection(k) \/ Closes(k)
  PROVE  FileIInv'
<1>0. FileTypeOK /\ WritersWrite
  BY DEF FileIInv
<1>a. fit \in [Kind -> FitStage] /\ writer \in [Kind -> [offset : Nat, sections : Rests]]
          /\ cache \in [Kind -> Pair] /\ file \in Seq(Cell)
  BY <1>0 DEF FileTypeOK
<1>b. UNCHANGED <<cache, version, model, made, restarts>>
  BY DEF Creates, BeginsFile, WritesSection, Closes, EndsFile, masterVars
<1>c. \A rest : WrittenBefore(rest)' = WrittenBefore(rest)
  BY <1>b DEF WrittenBefore, Written, Cells
<1>1. CASE Creates(k)
  <2> DEFINE w == [offset |-> 0, sections |-> Sections]
  <2>1. fit[k] = "cached" /\ fit' = [fit EXCEPT ![k] = "writing"] /\ file' = <<>>
            /\ writer' = [writer EXCEPT ![k] = w]
    BY <1>1 DEF Creates, BeginsFile
  <2>2. w \in [offset : Nat, sections : Rests]
    BY DEF Rests
  <2>3. \A j \in Kind : fit'[j] = IF j = k THEN "writing" ELSE fit[j]
    BY <1>a, <2>1
  <2>4. FileTypeOK'
    <3> HIDE DEF w
    <3> QED
      BY <1>0, <1>a, <1>b, <2>1, <2>2, <2>3 DEF FileTypeOK, FitStage
  <2>5. writer'[k] = w /\ \A j \in Kind : j # k => writer'[j] = writer[j]
    BY <1>a, <2>1
  <2>6. WritersWrite'
    BY <1>0, <2>3, <2>5 DEF WritersWrite
  <2>7. ASSUME ~shared' PROVE OneWriter' /\ FileAsCache'
    <3>1. \A j \in Kind : j # k => fit[j] # "writing"
      BY <1>1, <2>7 DEF Creates
    <3>2. OneWriter'
      BY <2>3, <3>1 DEF OneWriter
    <3>3. WrittenBefore(Sections) = <<>> /\ Len(<<>>) = 0
      <4>1. Len(Sections) = 4
        BY DEF Sections
      <4>2. Written(4) = <<>>
        BY DEF Written
      <4> QED
        BY <4>1, <4>2 DEF WrittenBefore
    <3>4. file' = WrittenBefore(Sections)' /\ w.sections = Sections /\ w.offset = Len(file')
      BY <1>c, <2>1, <3>3
    <3> HIDE DEF w
    <3> QED
      BY <2>3, <2>5, <3>1, <3>2, <3>4 DEF FileAsCache
  <2> QED
    BY <2>4, <2>6, <2>7 DEF FileIInv
<1>2. CASE WritesSection(k)
  <2> DEFINE rest == writer[k].sections
             cells == Cells(Head(rest)[1], Head(rest)[2])
             w == [offset |-> writer[k].offset + Len(cells), sections |-> Tail(rest)]
  <2>1. rest # <<>> /\ file' = Overlay(cells, writer[k].offset) /\ writer' = [writer EXCEPT ![k] = w]
            /\ UNCHANGED <<fit, shared>>
    BY <1>2 DEF WritesSection, masterVars
  <2>2. rest \in Rests /\ writer[k].offset \in Nat
    BY <1>a
  <2>3. Head(rest)[1] \in {"version", "model"} /\ Head(rest)[2] \in Kind /\ Tail(rest) \in Rests
    BY <1>a, <2>1, <2>2, RestsShrink
  <2>4. WrittenBefore(Tail(rest)) = WrittenBefore(rest) \o cells
    BY <1>a, <2>1, <2>2, RestsShrink
  <2>5. cells \in Seq(Cell)
    BY <1>a, <2>3, CellsType
  <2> HIDE DEF cells, rest
  <2>6. w \in [offset : Nat, sections : Rests]
    BY <2>2, <2>3, <2>5
  <2>7. file' \in Seq(Cell)
    BY <1>a, <2>1, <2>2, <2>5, OverlayType
  <2>8. FileTypeOK'
    <3> HIDE DEF w
    <3> QED
      BY <1>0, <1>a, <1>b, <2>1, <2>6, <2>7 DEF FileTypeOK
  <2>9. writer'[k] = w /\ \A j \in Kind : j # k => writer'[j] = writer[j]
    BY <1>a, <2>1
  <2>10. fit[k] = "writing"
    BY <1>0, <2>1 DEF WritersWrite, rest
  <2>11. WritersWrite'
    BY <1>0, <2>1, <2>9, <2>10 DEF WritersWrite
  <2>12. ASSUME ~shared' PROVE OneWriter' /\ (Excused' \/ FileAsCache')
    <3>1. OneWriter /\ (Excused \/ FileAsCache)
      BY <2>1, <2>12 DEF FileIInv
    <3>2. CASE Excused
      BY <1>b, <2>1, <3>1, <3>2 DEF Excused, OneWriter
    <3>3. CASE FileAsCache
      <4>1. file = WrittenBefore(rest) /\ writer[k].offset = Len(file)
        BY <2>10, <3>3 DEF FileAsCache, rest
      <4>2. file' = file \o cells
        BY <1>a, <2>1, <2>5, <4>1, OverlayAppends
      <4>3. file' = WrittenBefore(Tail(rest))
        BY <2>4, <4>1, <4>2
      <4>4. Len(file') = Len(file) + Len(cells)
        BY <1>a, <2>5, <4>2
      <4>5. \A j \in Kind : fit'[j] = "writing" => j = k
        BY <2>1, <2>10, <3>1 DEF OneWriter
      <4>6. w.offset = Len(file') /\ w.sections = Tail(rest)
        BY <4>1, <4>4
      <4> HIDE DEF w
      <4>7. \A j \in Kind : fit'[j] = "writing" => file' = WrittenBefore(writer[j].sections)'
                /\ writer'[j].offset = Len(file')
        <5>1. \A n : Written(n)' = Written(n)
          BY <1>b DEF Written, Cells
        <5>2. \A j \in Kind : fit'[j] = "writing" => file' = Written(Len(writer'[j].sections))
                  /\ writer'[j].offset = Len(file')
          BY <2>9, <4>3, <4>5, <4>6 DEF WrittenBefore
        <5> QED
          BY <1>b, <5>2 DEF WrittenBefore, Written, Cells
      <4> QED
        BY <2>1, <2>10, <3>1, <4>7 DEF FileAsCache, OneWriter
    <3> QED
      BY <3>1, <3>2, <3>3
  <2> QED
    BY <2>8, <2>11, <2>12 DEF FileIInv
<1>3. CASE Closes(k)
  <2>1. /\ fit[k] = "writing" /\ writer[k].sections = <<>> /\ writer' = [writer EXCEPT ![k] = NoWriter]
        /\ fit' = [fit EXCEPT ![k] = "idle"] /\ UNCHANGED <<file, shared>>
    BY <1>3 DEF Closes, EndsFile
  <2>2. \A j \in Kind : fit'[j] = IF j = k THEN "idle" ELSE fit[j]
    BY <1>a, <2>1
  <2>3. NoWriter \in [offset : Nat, sections : Rests] /\ NoWriter.sections = <<>>
    BY DEF NoWriter, Rests
  <2>4. writer'[k] = NoWriter /\ \A j \in Kind : j # k => writer'[j] = writer[j]
    BY <1>a, <2>1
  <2>5. FileTypeOK'
    BY <1>0, <1>b, <2>1, <2>3 DEF FileTypeOK, FitStage
  <2>6. WritersWrite'
    BY <1>0, <2>2, <2>3, <2>4 DEF WritersWrite
  <2>7. ASSUME ~shared' PROVE OneWriter' /\ (Excused' \/ FileAsCache')
    <3>1. OneWriter /\ (Excused \/ FileAsCache)
      BY <2>1, <2>7 DEF FileIInv
    <3>2. OneWriter'
      BY <2>2, <3>1 DEF OneWriter
    <3>3. CASE Excused
      BY <1>b, <2>1, <2>2, <3>2, <3>3 DEF Excused
    <3>4. CASE ~Excused
      <4>1. \A j \in Kind : cache[j].model # 0
        BY <3>4 DEF Excused
      <4>2. file = WrittenBefore(<<>>)
        BY <2>1, <3>1, <3>4 DEF FileAsCache
      <4>3. Load = cache
        BY <1>a, <4>1, <4>2, WholeLoads
      <4>4. Load' = Load
        BY <2>1 DEF Load, VersionAt, ModelAt, ClickAt, HasClick, PairAt
      <4>5. \A j \in Kind : fit'[j] # "writing"
        BY <2>1, <2>2, <3>1 DEF OneWriter
      <4> QED
        BY <1>b, <3>2, <4>3, <4>4, <4>5 DEF FileAsCache
    <3> QED
      BY <3>3, <3>4
  <2> QED
    BY <2>5, <2>6, <2>7 DEF FileIInv
<1> QED
  BY <1>1, <1>2, <1>3

LEMMA FileIsRead ==
  ASSUME FileIInv, MasterRestarts
  PROVE  FileIInv'
<1>1. /\ cache' = Load /\ model' = [k \in Kind |-> Load[k].model] /\ restarts' = restarts + 1
      /\ version' = [k \in Kind |-> FirstVersion(Load[k], restarts')] /\ fit' = [k \in Kind |-> "idle"]
      /\ made' = made /\ file' = file /\ writer' = [k \in Kind |-> NoWriter]
  BY DEF MasterRestarts, Restarts
<1>2. Load \in [Kind -> Pair]
  BY LoadType DEF FileIInv, FileTypeOK
<1>3. restarts' \in Nat /\ \A k \in Kind : FirstVersion(Load[k], restarts') \in Nat /\ Load[k].model \in Nat
  <2>1. restarts' \in Nat /\ Spread \in Nat
    BY <1>1, ModelsAssumption DEF FileIInv, FileTypeOK
  <2>2. RandomVersion(restarts') \in Nat
    <3> DEFINE n == restarts'
    <3>1. n \in Nat
      BY <2>1
    <3> HIDE DEF n
    <3>2. (n + 1) * Spread \in Nat
      BY <2>1, <3>1
    <3> QED
      BY <3>2 DEF RandomVersion, n
  <2>3. \A k \in Kind : Load[k].version \in Nat /\ Load[k].model \in Nat
    BY <1>2 DEF Pair
  <2> QED
    BY <2>1, <2>2, <2>3 DEF FirstVersion
<1>4. NoWriter \in [offset : Nat, sections : Rests] /\ NoWriter.sections = <<>>
  BY DEF NoWriter, Rests
<1>5. FileTypeOK'
  BY <1>1, <1>2, <1>3, <1>4 DEF FileIInv, FileTypeOK, FitStage
<1>6. Load' = cache'
  <2>1. file' = file /\ cache' = Load
    BY <1>1
  <2>2. \A i : VersionAt(i)' = VersionAt(i) /\ ModelAt(i)' = ModelAt(i)
    BY <2>1 DEF VersionAt, ModelAt
  <2>3. \A i : PairAt(i)' = PairAt(i)
    BY <2>2 DEF PairAt
  <2>4. ClickAt' = ClickAt
    BY <2>2 DEF ClickAt
  <2>5. HasClick' = HasClick
    BY <2>1, <2>2, <2>4 DEF HasClick
  <2>6. Load' = Load
    BY <2>2, <2>3, <2>4, <2>5 DEF Load
  <2> QED
    BY <2>1, <2>6
<1>7. OneWriter' /\ FileAsCache' /\ WritersWrite'
  BY <1>1, <1>4, <1>6 DEF OneWriter, FileAsCache, WritersWrite
<1> QED
  BY <1>5, <1>7 DEF FileIInv

\* A file that no fit task is about to write is what the local cache holds, so
\* a restart serves the models and versions served before.
THEOREM FileIsCache == FileSpec => []QuietFileIsCache
<1>1. FileInit => FileIInv
  BY FileStarts
<1>2. FileIInv /\ [FileNext]_localCacheVars => FileIInv'
  <2> SUFFICES ASSUME FileIInv, [FileNext]_localCacheVars PROVE FileIInv'
    OBVIOUS
  <2>1. CASE RankingOnlySearched /\ UNCHANGED fileVars
    <3>1. FileTypeOK'
      BY <2>1 DEF RankingOnlySearched, TakesSearched, fileVars, FileIInv, FileTypeOK
    <3> QED
      BY <2>1, <3>1, FileFramed DEF RankingOnlySearched, fileVars, Excused
  <2>2. CASE UNCHANGED localCacheVars
    <3>1. FileTypeOK'
      BY <2>2 DEF localCacheVars, masterVars, fileVars, FileIInv, FileTypeOK
    <3> QED
      BY <2>2, <3>1, FileFramed DEF localCacheVars, masterVars, fileVars, Excused
  <2> QED
    BY <2>1, <2>2, FileOfFits, FileIsWritten, FileIsRead DEF FileNext
<1>3. FileIInv => QuietFileIsCache
  <2> SUFFICES ASSUME FileIInv, \A k \in Kind : fit[k] \in {"idle", "fitting"} /\ cache[k].model # 0, ~shared
               PROVE  Load = cache
    BY DEF QuietFileIsCache
  <2>1. \A k \in Kind : fit[k] # "writing" /\ fit[k] # "cached"
    OBVIOUS
  <2> QED
    BY <2>1 DEF FileIInv, Excused, FileAsCache
<1> QED
  BY <1>1, <1>2, <1>3, PTL DEF FileSpec

----------------------------------------------------------------------------
(* The neighbors of items *)

\* Stamps are times or digests; a task keeps to the data that was loaded.
Configuration == [type : Types, index : Indexed]
Stamp == [at : Nat] \cup [of : Configuration] \cup {NoStamp}
TaskSteps == {"check", "search", "reclaim", "stamp", "done"}
TaskOf(s, v) ==
  /\ DOMAIN s = Present(v)
  /\ \A n \in Present(v) :
       /\ DOMAIN s[n] = {"step", "known", "touched"}
       /\ s[n].step \in TaskSteps /\ s[n].known \subseteq 1 .. v
NeighborsTypeOK ==
  /\ dataVersion \in 1 .. Len(Content) /\ trainSet \in 0 .. dataVersion
  /\ clock \in Nat /\ config \in Configuration
  /\ DOMAIN change = {"way", "left", "at"} /\ change.at \in 0 .. clock
  /\ stamps \in [Keys -> [Nodes -> Stamp]]
  /\ noted \in [Nodes -> SUBSET (1 .. dataVersion)]
  /\ computed \in [Nodes -> Nat]
  /\ collector \in [key : Keys, node : Nodes] \cup {NoStamp}
  /\ search # <<>> => trainSet # 0 /\ TaskOf(search, trainSet)

\* Times are not in the future, and nothing was searched in data not loaded.
TimesPast ==
  /\ \A k \in {"modified", "updated"}, n \in Nodes :
       stamps[k][n] # NoStamp => stamps[k][n] \in [at : 0 .. clock]
  /\ \A n \in Nodes : computed[n] <= dataVersion /\ (trainSet # 0 => computed[n] <= trainSet)
  /\ \A n \in DOMAIN covered :
       covered[n] \subseteq 1 .. dataVersion /\ (trainSet # 0 => covered[n] \subseteq 1 .. trainSet)

SearchedFor(n, versions) == computed[n] >= 1 /\ \A v \in versions : computed[n] >= v

\* What the stamps say of an item that was not missed is true.
Fresh(n) ==
  /\ NoStamp \notin {stamps["modified"][n], stamps["updated"][n]}
  /\ stamps["updated"][n].at > stamps["modified"][n].at
StampsTell == \A n \in Nodes \ missed : Fresh(n) => SearchedFor(n, noted[n])

\* What a run has done with an item.
RunTells ==
  search # <<>> =>
    \A n \in Nodes \cap Present(trainSet) :
      /\ search[n].step \in {"reclaim", "stamp"} => computed[n] = trainSet
      /\ search[n].step = "done" /\ ~failedRun /\ n \notin missed => SearchedFor(n, search[n].known)

NeighborsIInv ==
  NeighborsTypeOK /\ TimesPast /\ StampsTell /\ RunTells /\ RunsCoverModifications

LEMMA NeighborsStart == NeighborsInit => NeighborsIInv
<1> SUFFICES ASSUME NeighborsInit PROVE NeighborsIInv
  OBVIOUS
<1>1. stamps \in [Keys -> [Nodes -> Stamp]]
  <2>1. \A k \in Keys, n \in Nodes : (IF k = "modified" /\ n \in Inserted THEN [at |-> 0] ELSE NoStamp) \in Stamp
    BY DEF Stamp
  <2> QED
    BY <2>1 DEF NeighborsInit
<1>2. NeighborsTypeOK
  BY <1>1, NeighborsAssumption DEF NeighborsInit, NoChange, NeighborsTypeOK, Configuration
<1>3. TimesPast
  BY NeighborsAssumption DEF NeighborsInit, TimesPast, Keys
<1>4. StampsTell
  BY DEF NeighborsInit, StampsTell, Fresh, Keys
<1>5. RunTells /\ RunsCoverModifications
  BY DEF NeighborsInit, RunTells, RunsCoverModifications
<1> QED
  BY <1>2, <1>3, <1>4, <1>5 DEF NeighborsIInv

LEMMA ProceedsAt ==
  ASSUME NeighborsTypeOK, NEW at, Proceeds(at)
  PROVE  DOMAIN change' = {"way", "left", "at"} /\ change'.at \in {0, at}
<1>1. CASE Len(change.left) = 1
  BY <1>1 DEF Proceeds, NoChange
<1>2. CASE Len(change.left) # 1
  <2>1. change' = [change EXCEPT !.left = Tail(@), !.at = at]
    BY <1>2 DEF Proceeds
  <2> QED
    BY <2>1 DEF NeighborsTypeOK
<1> QED
  BY <1>1, <1>2

\* What stamps, runs and histories are about stays.
LEMMA NeighborsFramed ==
  ASSUME NeighborsIInv, NeighborsTypeOK',
         UNCHANGED <<stamps, computed, noted, covered, missed>>,
         UNCHANGED <<search, failedRun>> \/ search' = <<>>,
         clock' >= clock, dataVersion' >= dataVersion,
         trainSet' = trainSet \/ trainSet' = 0 \/ trainSet' = dataVersion,
         search = <<>> \/ trainSet' = trainSet \/ search' = <<>>
  PROVE  NeighborsIInv'
<1>1. NeighborsTypeOK /\ TimesPast /\ StampsTell /\ RunTells /\ RunsCoverModifications
  BY DEF NeighborsIInv
<1>2. TimesPast'
  <2>1. \A n \in Nodes : computed[n] <= dataVersion' /\ (trainSet' # 0 => computed[n] <= trainSet')
    BY <1>1 DEF NeighborsTypeOK, TimesPast
  <2>2. \A n \in DOMAIN covered :
          covered[n] \subseteq 1 .. dataVersion' /\ (trainSet' # 0 => covered[n] \subseteq 1 .. trainSet')
    BY <1>1 DEF NeighborsTypeOK, TimesPast
  <2>3. \A k \in {"modified", "updated"}, n \in Nodes :
          stamps[k][n] # NoStamp => stamps[k][n] \in [at : 0 .. clock']
    BY <1>1 DEF NeighborsTypeOK, TimesPast
  <2> QED
    BY <2>1, <2>2, <2>3 DEF TimesPast
<1>3. StampsTell' /\ RunsCoverModifications'
  BY <1>1 DEF StampsTell, Fresh, RunsCoverModifications, SearchedFor
<1>4. RunTells'
  BY <1>1 DEF RunTells, SearchedFor
<1> QED
  BY <1>2, <1>3, <1>4 DEF NeighborsIInv

\* Time passes, configurations change and data is loaded while no task runs;
\* requests come, write the data, and fail.
LEMMA NeighborsOutside ==
  ASSUME NeighborsIInv,
         \/ Passes \/ Reconfigures \/ Loads \/ Arrives \/ WritesData \/ RequestFails \/ UNCHANGED neighborVars
         \/ \E k \in Keys, n \in Nodes : Collects(k, n)
         \/ \E n \in DOMAIN search : Panics(n)
  PROVE  NeighborsIInv'
<1>1. NeighborsTypeOK
  BY DEF NeighborsIInv
<1>2. CASE Passes
  <2>1. NeighborsTypeOK'
    BY <1>1, <1>2 DEF Passes, NeighborsTypeOK
  <2> QED
    BY <1>1, <1>2, <2>1, NeighborsFramed DEF Passes, NeighborsTypeOK
<1>3. CASE Reconfigures
  <2>1. NeighborsTypeOK'
    BY <1>1, <1>3 DEF Reconfigures, NeighborsTypeOK, Configuration
  <2> QED
    BY <1>1, <1>3, <2>1, NeighborsFramed DEF Reconfigures, NeighborsTypeOK
<1>4. CASE Loads
  <2>1. NeighborsTypeOK'
    BY <1>1, <1>4 DEF Loads, NeighborsTypeOK
  <2> QED
    BY <1>1, <1>4, <2>1, NeighborsFramed DEF Loads, NeighborsTypeOK
<1>5. CASE Arrives \/ RequestFails
  <2>1. /\ DOMAIN change' = {"way", "left", "at"} /\ change'.at = 0
        /\ UNCHANGED <<dataVersion, trainSet, clock, config, stamps, noted, computed, collector, search>>
    BY <1>5 DEF Arrives, RequestFails, NoChange
  <2>2. NeighborsTypeOK'
    BY <1>1, <2>1 DEF NeighborsTypeOK
  <2> QED
    BY <1>1, <1>5, <2>1, <2>2, NeighborsFramed DEF Arrives, RequestFails, NeighborsTypeOK
<1>6. CASE WritesData
  <2>1. /\ dataVersion' = dataVersion + 1 /\ dataVersion' \in 1 .. Len(Content)
        /\ UNCHANGED <<trainSet, clock, config, stamps, noted, computed, collector, search>>
    BY <1>1, <1>6, NeighborsAssumption DEF WritesData, NeighborsTypeOK
  <2>2. DOMAIN change' = {"way", "left", "at"} /\ change'.at \in 0 .. clock
    BY <1>1, <1>6, ProceedsAt DEF WritesData, NeighborsTypeOK
  <2>3. noted \in [Nodes -> SUBSET (1 .. dataVersion + 1)]
    BY <1>1 DEF NeighborsTypeOK
  <2>4. NeighborsTypeOK'
    BY <1>1, <2>1, <2>2, <2>3 DEF NeighborsTypeOK
  <2> QED
    BY <1>1, <1>6, <2>1, <2>4, NeighborsFramed DEF WritesData, NeighborsTypeOK
<1>7. CASE UNCHANGED neighborVars
  <2>1. NeighborsTypeOK'
    BY <1>1, <1>7 DEF neighborVars, NeighborsTypeOK
  <2> QED
    BY <1>1, <1>7, <2>1, NeighborsFramed DEF neighborVars, NeighborsTypeOK
<1>8. CASE \E k \in Keys, n \in Nodes : Collects(k, n)
  <2>1. NeighborsTypeOK'
    BY <1>1, <1>8 DEF Collects, NeighborsTypeOK
  <2> QED
    BY <1>1, <1>8, <2>1, NeighborsFramed DEF Collects, NeighborsTypeOK
<1>9. CASE \E n \in DOMAIN search : Panics(n)
  <2>1. /\ search' = <<>> /\ trainSet' = 0 /\ collector' = NoStamp
        /\ UNCHANGED <<config, dataVersion, change, clock, stamps, noted, covered, computed, missed>>
    BY <1>9 DEF Panics
  <2>2. NeighborsTypeOK'
    BY <1>1, <2>1 DEF NeighborsTypeOK
  <2> QED
    BY <1>1, <2>1, <2>2, NeighborsFramed DEF NeighborsTypeOK
<1> QED
  BY <1>2, <1>3, <1>4, <1>5, <1>6, <1>7, <1>8, <1>9

\* A stamp is of a time that no search of older data has passed, or it was
\* overtaken.
LEMMA NeighborsOfStamps ==
  ASSUME NeighborsIInv, WritesStamp
  PROVE  NeighborsIInv'
<1>1. NeighborsTypeOK /\ TimesPast /\ StampsTell /\ RunTells /\ RunsCoverModifications
  BY DEF NeighborsIInv
<1>2. PICK at \in change.at .. clock :
        /\ stamps' = [stamps EXCEPT !["modified"] =
             [n \in Nodes |-> IF n \in Modified(dataVersion) THEN [at |-> at] ELSE @[n]]]
        /\ missed' = missed \cup
             {n \in Nodes \cap Modified(dataVersion) :
                stamps["updated"][n] # NoStamp /\ stamps["updated"][n].at > at /\ computed[n] < dataVersion}
  BY DEF WritesStamp
<1> DEFINE modified == [n \in Nodes |-> IF n \in Modified(dataVersion) THEN [at |-> at] ELSE stamps["modified"][n]]
<1>3. stamps' = [stamps EXCEPT !["modified"] = modified]
  BY <1>2
<1>4. /\ noted' = [n \in Nodes |-> IF n \in Modified(dataVersion) THEN noted[n] \cup {dataVersion} ELSE noted[n]]
      /\ UNCHANGED <<config, dataVersion, clock, trainSet, search, failedRun, collector, covered, computed>>
      /\ missed \subseteq missed'
  BY <1>2 DEF WritesStamp
<1>5. modified \in [Nodes -> Stamp] /\ at \in 0 .. clock
  BY <1>1 DEF NeighborsTypeOK, Stamp, Keys
<1>6. /\ stamps' \in [Keys -> [Nodes -> Stamp]]
      /\ \A n \in Nodes :
           /\ stamps'["updated"][n] = stamps["updated"][n]
           /\ stamps'["modified"][n] = modified[n]
  <2> HIDE DEF modified
  <2> QED
    BY <1>1, <1>3, <1>5 DEF NeighborsTypeOK, Keys
<1>7. noted' \in [Nodes -> SUBSET (1 .. dataVersion)]
  BY <1>1, <1>4 DEF NeighborsTypeOK
<1>8. DOMAIN change' = {"way", "left", "at"} /\ change'.at \in 0 .. clock
  BY <1>1, ProceedsAt DEF WritesStamp, NeighborsTypeOK
<1>9. NeighborsTypeOK'
  BY <1>1, <1>4, <1>6, <1>7, <1>8 DEF NeighborsTypeOK
<1>10. TimesPast'
  <2>1. [at |-> at] \in [at : 0 .. clock]
    BY <1>5
  <2>2. \A k \in {"modified", "updated"}, n \in Nodes : stamps'[k][n] # NoStamp => stamps'[k][n] \in [at : 0 .. clock]
    BY <1>1, <1>6, <2>1 DEF TimesPast
  <2> QED
    BY <1>1, <1>4, <2>2 DEF TimesPast
<1>11. StampsTell'
  <2> SUFFICES ASSUME NEW n \in Nodes, n \notin missed', Fresh(n)'
               PROVE  computed[n] >= 1 /\ \A v \in noted'[n] : computed[n] >= v
    BY <1>4 DEF StampsTell, SearchedFor
  <2>1. CASE n \in Modified(dataVersion)
    <3>1. modified[n] = [at |-> at]
      BY <2>1
    <3>2. stamps["updated"][n] # NoStamp /\ stamps["updated"][n].at > at
      BY <1>6, <3>1 DEF Fresh
    <3>3. computed[n] >= dataVersion
      BY <1>1, <1>2, <2>1, <3>2 DEF NeighborsTypeOK
    <3>4. noted'[n] \subseteq 1 .. dataVersion /\ dataVersion >= 1 /\ computed[n] \in Nat
      BY <1>1, <1>7 DEF NeighborsTypeOK
    <3> QED
      BY <1>1, <3>3, <3>4 DEF NeighborsTypeOK
  <2>2. CASE n \notin Modified(dataVersion)
    <3>1. Fresh(n) /\ noted'[n] = noted[n] /\ n \notin missed
      BY <1>4, <1>6, <2>2 DEF Fresh
    <3> QED
      BY <1>1, <3>1 DEF StampsTell, SearchedFor
  <2> QED
    BY <2>1, <2>2
<1>12. RunTells' /\ RunsCoverModifications'
  BY <1>1, <1>4 DEF RunTells, RunsCoverModifications, SearchedFor
<1> QED
  BY <1>9, <1>10, <1>11, <1>12 DEF NeighborsIInv

\* What requests write to the cache concerns no stamp.
LEMMA NeighborsOfWrites ==
  ASSUME NeighborsIInv, WritesCache \/ DropsCached
  PROVE  NeighborsIInv'
<1>1. NeighborsTypeOK /\ TimesPast /\ StampsTell /\ RunTells /\ RunsCoverModifications
  BY DEF NeighborsIInv
<1>2. /\ UNCHANGED <<config, dataVersion, clock, trainSet, failedRun, stamps, collector, noted, covered, computed,
                     missed>>
      /\ \E items : Touches(items)
      /\ DOMAIN change' = {"way", "left", "at"} /\ change'.at \in 0 .. clock
  BY <1>1, ProceedsAt DEF WritesCache, DropsCached, NeighborsTypeOK
<1>3. /\ DOMAIN search' = DOMAIN search
      /\ \A n \in DOMAIN search :
           /\ search'[n].step = search[n].step /\ search'[n].known = search[n].known
           /\ DOMAIN search'[n] = DOMAIN search[n]
  BY <1>2 DEF Touches
<1>4. search' # <<>> => search # <<>>
  <2> SUFFICES ASSUME search = <<>> PROVE search' = <<>>
    OBVIOUS
  <2>1. DOMAIN search = {}
    OBVIOUS
  <2> QED
    BY <1>2, <2>1 DEF Touches
<1>5. NeighborsTypeOK'
  BY <1>1, <1>2, <1>3, <1>4 DEF NeighborsTypeOK, TaskOf
<1>6. TimesPast' /\ StampsTell' /\ RunsCoverModifications'
  BY <1>1, <1>2 DEF TimesPast, StampsTell, Fresh, RunsCoverModifications, SearchedFor
<1>7. RunTells'
  BY <1>1, <1>2, <1>3, <1>4 DEF RunTells, SearchedFor, NeighborsTypeOK, TaskOf
<1> QED
  BY <1>5, <1>6, <1>7 DEF NeighborsIInv

\* A stamp that is deleted tells nothing.
LEMMA NeighborsOfCollection ==
  ASSUME NeighborsIInv, Deletes
  PROVE  NeighborsIInv'
<1> DEFINE k == collector.key
           n == collector.node
<1>1. /\ k \in Keys /\ n \in Nodes
      /\ stamps' = [stamps EXCEPT ![k][n] = NoStamp]
      /\ collector' = NoStamp
      /\ UNCHANGED <<config, dataVersion, change, clock, trainSet, search, failedRun, noted, covered, computed,
                     missed>>
  BY DEF Deletes, NeighborsIInv, NeighborsTypeOK
<1> HIDE DEF k, n
<1>2. NeighborsTypeOK /\ TimesPast /\ StampsTell /\ RunTells /\ RunsCoverModifications
  BY DEF NeighborsIInv
<1>3. stamps' \in [Keys -> [Nodes -> Stamp]]
  BY <1>1, <1>2 DEF NeighborsTypeOK, Stamp
<1>4. \A j \in Keys, m \in Nodes : stamps'[j][m] = IF j = k /\ m = n THEN NoStamp ELSE stamps[j][m]
  BY <1>1, <1>2 DEF NeighborsTypeOK
<1>5. NeighborsTypeOK'
  BY <1>1, <1>2, <1>3 DEF NeighborsTypeOK
<1>6. TimesPast'
  BY <1>1, <1>2, <1>4 DEF TimesPast, Keys
<1>7. StampsTell'
  <2>1. \A m \in Nodes : Fresh(m)' => Fresh(m)
    BY <1>4 DEF Fresh, Keys
  <2> QED
    BY <1>1, <1>2, <2>1 DEF StampsTell, SearchedFor
<1>8. RunTells' /\ RunsCoverModifications'
  BY <1>1, <1>2 DEF RunTells, RunsCoverModifications, SearchedFor
<1> QED
  BY <1>5, <1>6, <1>7, <1>8 DEF NeighborsIInv

\* One step of a goroutine sets what is next for its item.
LEMMA StepsOn ==
  ASSUME NeighborsIInv, search # <<>>, NEW n \in DOMAIN search,
         NEW s \in TaskSteps, NEW k \in SUBSET (1 .. trainSet),
         \/ search' = [search EXCEPT ![n].step = s] /\ k = search[n].known
         \/ search' = [search EXCEPT ![n] = [step |-> s, known |-> k, touched |-> {}]]
         \/ search' = [search EXCEPT ![n].step = s, ![n].touched = {}] /\ k = search[n].known
  PROVE  /\ n \in Present(trainSet) /\ trainSet # 0
         /\ TaskOf(search', trainSet)
         /\ search'[n].step = s /\ search'[n].known = k
         /\ \A m \in Present(trainSet) : m # n => search'[m] = search[m]
<1>1. TaskOf(search, trainSet) /\ trainSet # 0
  BY DEF NeighborsIInv, NeighborsTypeOK
<1>2. n \in Present(trainSet) /\ DOMAIN search' = DOMAIN search
  BY <1>1 DEF TaskOf
<1>3. \A m \in Present(trainSet) : m # n => search'[m] = search[m]
  BY <1>1, <1>2 DEF TaskOf
<1>4. /\ DOMAIN search[n] = {"step", "known", "touched"}
      /\ \/ search'[n] = [search[n] EXCEPT !.step = s] /\ k = search[n].known
         \/ search'[n] = [step |-> s, known |-> k, touched |-> {}]
         \/ search'[n] = [search[n] EXCEPT !.step = s, !.touched = {}] /\ k = search[n].known
  BY <1>1, <1>2 DEF TaskOf
<1>5. /\ search'[n].step = s /\ search'[n].known = k
      /\ DOMAIN search'[n] = {"step", "known", "touched"}
  BY <1>4
<1> QED
  BY <1>1, <1>2, <1>3, <1>5 DEF TaskOf

LEMMA TaskBeginsInv ==
  ASSUME NeighborsIInv, TaskBegins
  PROVE  NeighborsIInv'
<1>1. /\ trainSet # 0
      /\ search' = [n \in Present(trainSet) |-> [step |-> "check", known |-> {}, touched |-> {}]]
      /\ UNCHANGED <<config, dataVersion, change, clock, trainSet, stamps, collector, noted, covered, computed,
                     missed>>
  BY DEF TaskBegins
<1>2. NeighborsTypeOK /\ TimesPast /\ StampsTell /\ RunTells /\ RunsCoverModifications
  BY DEF NeighborsIInv
<1>3. TaskOf(search', trainSet)
  BY <1>1 DEF TaskOf, TaskSteps
<1>4. NeighborsTypeOK'
  BY <1>1, <1>2, <1>3 DEF NeighborsTypeOK
<1>5. TimesPast' /\ StampsTell' /\ RunsCoverModifications'
  BY <1>1, <1>2 DEF TimesPast, StampsTell, Fresh, RunsCoverModifications, SearchedFor
<1>6. RunTells'
  BY <1>1 DEF RunTells
<1> QED
  BY <1>4, <1>5, <1>6 DEF NeighborsIInv

\* An item whose stamps say so is left as it is, a search is of the data loaded.
LEMMA ChecksInv ==
  ASSUME NeighborsIInv, NEW n \in DOMAIN search, search # <<>>, Checks(n)
  PROVE  NeighborsIInv'
<1> DEFINE known == noted[n] \cap 1 .. trainSet
<1>1. /\ UNCHANGED <<config, dataVersion, change, clock, trainSet, failedRun, stamps, collector, noted, covered,
                     computed, missed>>
      /\ \E next \in {"search", "done"} :
           /\ search' = [search EXCEPT ![n] = [step |-> next, known |-> known, touched |-> {}]]
           /\ next = "done" => ~TimedOut(n)
  BY DEF Checks
<1>2. NeighborsTypeOK /\ TimesPast /\ StampsTell /\ RunTells /\ RunsCoverModifications
  BY DEF NeighborsIInv
<1>3. /\ TaskOf(search', trainSet) /\ trainSet # 0
      /\ \A m \in Present(trainSet) : m # n => search'[m] = search[m]
      /\ search'[n].step = "search" \/ (~TimedOut(n) /\ search'[n].step = "done" /\ search'[n].known = known)
  <2>1. PICK next \in {"search", "done"} :
          /\ search' = [search EXCEPT ![n] = [step |-> next, known |-> known, touched |-> {}]]
          /\ next = "done" => ~TimedOut(n)
    BY <1>1
  <2>2. known \in SUBSET (1 .. trainSet) /\ next \in TaskSteps
    BY DEF TaskSteps
  <2> HIDE DEF known
  <2>3. /\ TaskOf(search', trainSet) /\ trainSet # 0
        /\ search'[n].step = next /\ search'[n].known = known
        /\ \A m \in Present(trainSet) : m # n => search'[m] = search[m]
    BY <2>1, <2>2, StepsOn
  <2> QED
    BY <2>1, <2>3
<1>4. NeighborsTypeOK'
  BY <1>1, <1>2, <1>3 DEF NeighborsTypeOK
<1>5. TimesPast' /\ StampsTell' /\ RunsCoverModifications'
  BY <1>1, <1>2 DEF TimesPast, StampsTell, Fresh, RunsCoverModifications, SearchedFor
<1>6. ASSUME n \in Nodes \ missed, ~TimedOut(n) PROVE SearchedFor(n, known)
  <2>1. NoStamp \notin {stamps["modified"][n], stamps["updated"][n]}
        /\ ~(stamps["updated"][n].at <= stamps["modified"][n].at)
    BY <1>6 DEF TimedOut, StampsOutOfDate
  <2>2. stamps["updated"][n].at \in Nat /\ stamps["modified"][n].at \in Nat
    BY <1>2, <1>6, <2>1 DEF TimesPast, NeighborsTypeOK
  <2>3. Fresh(n)
    BY <2>1, <2>2 DEF Fresh
  <2> QED
    BY <1>2, <1>6, <2>3 DEF StampsTell, SearchedFor
<1>7. RunTells'
  <2> SUFFICES ASSUME NEW m \in Nodes \cap Present(trainSet)
               PROVE  /\ search'[m].step \in {"reclaim", "stamp"} => computed[m] = trainSet
                      /\ search'[m].step = "done" /\ ~failedRun /\ m \notin missed
                           => SearchedFor(m, search'[m].known)
    BY <1>1 DEF RunTells, SearchedFor
  <2>1. CASE m = n
    <3> HIDE DEF known
    <3> QED
      BY <1>3, <1>6, <2>1
  <2>2. CASE m # n
    BY <1>2, <1>3, <2>2 DEF RunTells
  <2> QED
    BY <2>1, <2>2
<1> QED
  BY <1>4, <1>5, <1>7 DEF NeighborsIInv

LEMMA SearchesInv ==
  ASSUME NeighborsIInv, NEW n \in DOMAIN search, search # <<>>, Searches(n)
  PROVE  NeighborsIInv'
<1>1. /\ UNCHANGED <<config, dataVersion, change, clock, trainSet, failedRun, stamps, collector, noted, covered,
                     missed>>
      /\ search' = [search EXCEPT ![n].step = "reclaim"]
      /\ computed' = [computed EXCEPT ![n] = trainSet]
  BY DEF Searches
<1>2. NeighborsTypeOK /\ TimesPast /\ StampsTell /\ RunTells /\ RunsCoverModifications
  BY DEF NeighborsIInv
<1>k. search[n].known \in SUBSET (1 .. trainSet)
  BY <1>2 DEF NeighborsTypeOK, TaskOf
<1>3. /\ TaskOf(search', trainSet) /\ trainSet # 0 /\ n \in Present(trainSet)
      /\ \A m \in Present(trainSet) : m # n => search'[m] = search[m]
      /\ search'[n].step = "reclaim"
  BY <1>1, <1>k, StepsOn DEF TaskSteps
<1>t. trainSet \in Nat /\ trainSet >= 1 /\ dataVersion \in Nat /\ trainSet <= dataVersion
  BY <1>2, <1>3 DEF NeighborsTypeOK
<1>c. /\ computed' \in [Nodes -> Nat]
      /\ \A m \in Nodes : computed'[m] = IF m = n THEN trainSet ELSE computed[m]
  BY <1>1, <1>2, <1>t DEF NeighborsTypeOK
<1>4. NeighborsTypeOK'
  BY <1>1, <1>2, <1>3, <1>c DEF NeighborsTypeOK
<1>5. TimesPast'
  BY <1>1, <1>2, <1>c, <1>t DEF TimesPast
<1>g. \A m \in Nodes : computed[m] \in Nat /\ computed'[m] \in Nat /\ computed'[m] >= computed[m]
  BY <1>2, <1>c, <1>t DEF TimesPast, NeighborsTypeOK
<1>6. StampsTell'
  <2> SUFFICES ASSUME NEW m \in Nodes \ missed, Fresh(m)
               PROVE  computed'[m] >= 1 /\ \A v \in noted[m] : computed'[m] >= v
    BY <1>1 DEF StampsTell, Fresh, SearchedFor
  <2>1. noted[m] \subseteq Nat
    BY <1>2 DEF NeighborsTypeOK
  <2> QED
    BY <1>2, <1>g, <2>1 DEF StampsTell, SearchedFor
<1>7. RunsCoverModifications'
  <2> SUFFICES ASSUME NEW m \in (Nodes \cap DOMAIN covered) \ missed
               PROVE  computed'[m] >= 1 /\ \A v \in covered[m] : computed'[m] >= v
    BY <1>1 DEF RunsCoverModifications
  <2>1. covered[m] \subseteq Nat
    BY <1>2, <1>t DEF TimesPast
  <2> QED
    BY <1>2, <1>g, <2>1 DEF RunsCoverModifications
<1>8. RunTells'
  <2> SUFFICES ASSUME NEW m \in Nodes \cap Present(trainSet)
               PROVE  /\ search'[m].step \in {"reclaim", "stamp"} => computed'[m] = trainSet
                      /\ search'[m].step = "done" /\ ~failedRun /\ m \notin missed
                           => computed'[m] >= 1 /\ \A v \in search'[m].known : computed'[m] >= v
    BY <1>1 DEF RunTells, SearchedFor
  <2>1. CASE m = n
    BY <1>3, <1>c, <2>1
  <2>2. CASE m # n
    BY <1>2, <1>3, <1>c, <2>2 DEF RunTells, SearchedFor
  <2> QED
    BY <2>1, <2>2
<1> QED
  BY <1>4, <1>5, <1>6, <1>7, <1>8 DEF NeighborsIInv

LEMMA ReclaimsInv ==
  ASSUME NeighborsIInv, NEW n \in DOMAIN search, search # <<>>, Reclaims(n) \/ CallFails(n)
  PROVE  NeighborsIInv'
<1>1. /\ UNCHANGED <<config, dataVersion, change, clock, trainSet, stamps, collector, noted, covered, computed,
                     missed>>
      /\ \/ /\ search[n].step = "reclaim" /\ failedRun' = failedRun
            /\ search' = [search EXCEPT ![n].step = "stamp"]
         \/ search' = [search EXCEPT ![n].step = "done", ![n].touched = {}] /\ failedRun' = TRUE
  BY DEF Reclaims, CallFails
<1>2. NeighborsTypeOK /\ TimesPast /\ StampsTell /\ RunTells /\ RunsCoverModifications
  BY DEF NeighborsIInv
<1>k. search[n].known \in SUBSET (1 .. trainSet)
  BY <1>2 DEF NeighborsTypeOK, TaskOf
<1>3. /\ TaskOf(search', trainSet) /\ trainSet # 0 /\ n \in Present(trainSet)
      /\ \A m \in Present(trainSet) : m # n => search'[m] = search[m]
      /\ \/ search[n].step = "reclaim" /\ search'[n].step = "stamp" /\ failedRun' = failedRun
         \/ search'[n].step = "done" /\ failedRun'
  <2>1. CASE /\ search[n].step = "reclaim" /\ failedRun' = failedRun
             /\ search' = [search EXCEPT ![n].step = "stamp"]
    BY <1>k, <2>1, StepsOn DEF TaskSteps
  <2>2. CASE search' = [search EXCEPT ![n].step = "done", ![n].touched = {}] /\ failedRun'
    BY <1>k, <2>2, StepsOn DEF TaskSteps
  <2> QED
    BY <1>1, <2>1, <2>2
<1>4. NeighborsTypeOK'
  BY <1>1, <1>2, <1>3 DEF NeighborsTypeOK
<1>5. TimesPast' /\ StampsTell' /\ RunsCoverModifications'
  BY <1>1, <1>2 DEF TimesPast, StampsTell, Fresh, RunsCoverModifications, SearchedFor
<1>6. RunTells'
  <2> SUFFICES ASSUME NEW m \in Nodes \cap Present(trainSet)
               PROVE  /\ search'[m].step \in {"reclaim", "stamp"} => computed[m] = trainSet
                      /\ search'[m].step = "done" /\ ~failedRun' /\ m \notin missed
                           => SearchedFor(m, search'[m].known)
    BY <1>1 DEF RunTells, SearchedFor
  <2>1. CASE m = n
    BY <1>2, <1>3, <2>1 DEF RunTells
  <2>2. CASE m # n
    <3>1. ~failedRun' => ~failedRun
      BY <1>3
    <3> QED
      BY <1>2, <1>3, <2>2, <3>1 DEF RunTells
  <2> QED
    BY <2>1, <2>2
<1> QED
  BY <1>4, <1>5, <1>6 DEF NeighborsIInv

\* The stamp tells the truth of the search, or the item is remembered as missed.
LEMMA StampsInv ==
  ASSUME NeighborsIInv, NEW n \in DOMAIN search, search # <<>>, Stamps(n)
  PROVE  NeighborsIInv'
<1> DEFINE now == [at |-> clock]
           under == [of |-> config]
<1>1. /\ UNCHANGED <<config, dataVersion, change, clock, trainSet, failedRun, collector, noted, covered, computed>>
      /\ search[n].step = "stamp" /\ search' = [search EXCEPT ![n].step = "done", ![n].touched = {}]
      /\ stamps' = [stamps EXCEPT !["updated"][n] = now, !["digest"][n] = under]
      /\ missed' = IF Overtaken(n) THEN missed \cup {n} ELSE missed \ {n}
  BY DEF Stamps
<1>2. NeighborsTypeOK /\ TimesPast /\ StampsTell /\ RunTells /\ RunsCoverModifications
  BY DEF NeighborsIInv
<1>k. search[n].known \in SUBSET (1 .. trainSet)
  BY <1>2 DEF NeighborsTypeOK, TaskOf
<1>3. /\ TaskOf(search', trainSet) /\ trainSet # 0 /\ n \in Present(trainSet)
      /\ \A m \in Present(trainSet) : m # n => search'[m] = search[m]
      /\ search'[n].step = "done" /\ search'[n].known = search[n].known
  BY <1>1, <1>k, StepsOn DEF TaskSteps
<1>t. trainSet \in Nat /\ trainSet >= 1 /\ dataVersion \in Nat
  BY <1>2, <1>3 DEF NeighborsTypeOK
<1>d. now \in Stamp /\ under \in Stamp /\ now \in [at : 0 .. clock] /\ now.at = clock
  BY <1>2 DEF NeighborsTypeOK, Stamp
<1> HIDE DEF now, under
<1>s. stamps' \in [Keys -> [Nodes -> Stamp]]
  BY <1>1, <1>2, <1>d DEF NeighborsTypeOK, Keys
<1>u. \A m \in Nodes : /\ stamps'["modified"][m] = stamps["modified"][m]
                       /\ stamps'["updated"][m] = IF m = n THEN now ELSE stamps["updated"][m]
  BY <1>1, <1>2 DEF NeighborsTypeOK, Keys
<1>c. n \in Nodes => computed[n] = trainSet
  BY <1>1, <1>2, <1>3 DEF RunTells
<1>4. NeighborsTypeOK'
  BY <1>1, <1>2, <1>3, <1>s DEF NeighborsTypeOK
<1>5. TimesPast'
  BY <1>1, <1>2, <1>d, <1>u DEF TimesPast
<1>m. \A m \in Nodes : m # n => (m \in missed' <=> m \in missed)
  BY <1>1
<1>o. n \notin missed' => ~Overtaken(n)
  BY <1>1
<1>6. StampsTell'
  <2> SUFFICES ASSUME NEW m \in Nodes, m \notin missed', Fresh(m)' PROVE SearchedFor(m, noted[m])
    BY <1>1 DEF StampsTell, SearchedFor
  <2>1. CASE m = n
    <3>1. stamps["modified"][n] # NoStamp /\ clock > stamps["modified"][n].at
      BY <1>d, <1>u, <2>1 DEF Fresh
    <3>2. stamps["modified"][n] \in [at : 0 .. clock]
      BY <1>2, <2>1, <3>1 DEF TimesPast
    <3>3. stamps["modified"][n].at < clock
      BY <1>2, <3>1, <3>2 DEF NeighborsTypeOK
    <3>4. ~\E v \in noted[n] : v > trainSet
      BY <1>o, <2>1, <3>1, <3>3 DEF Overtaken
    <3>5. noted[n] \subseteq Nat
      BY <1>2, <2>1 DEF NeighborsTypeOK
    <3> QED
      BY <1>c, <1>t, <2>1, <3>4, <3>5 DEF SearchedFor
  <2>2. CASE m # n
    <3>1. Fresh(m)
      BY <1>u, <2>2 DEF Fresh
    <3> QED
      BY <1>2, <1>m, <2>2, <3>1 DEF StampsTell
  <2> QED
    BY <2>1, <2>2
<1>7. RunsCoverModifications'
  <2> SUFFICES ASSUME NEW m \in Nodes \cap DOMAIN covered, m \notin missed'
               PROVE  computed[m] >= 1 /\ \A v \in covered[m] : computed[m] >= v
    BY <1>1 DEF RunsCoverModifications
  <2>1. CASE m = n
    <3>1. covered[n] \subseteq 1 .. trainSet
      BY <1>2, <1>3, <2>1 DEF TimesPast
    <3> QED
      BY <1>c, <1>t, <2>1, <3>1
  <2>2. CASE m # n
    BY <1>2, <1>m, <2>2 DEF RunsCoverModifications
  <2> QED
    BY <2>1, <2>2
<1>8. RunTells'
  <2> SUFFICES ASSUME NEW m \in Nodes \cap Present(trainSet)
               PROVE  /\ search'[m].step \in {"reclaim", "stamp"} => computed[m] = trainSet
                      /\ search'[m].step = "done" /\ ~failedRun /\ m \notin missed'
                           => SearchedFor(m, search'[m].known)
    BY <1>1 DEF RunTells, SearchedFor
  <2>1. CASE m = n
    BY <1>3, <1>k, <1>c, <1>t, <2>1 DEF SearchedFor
  <2>2. CASE m # n
    BY <1>2, <1>3, <1>m, <2>2 DEF RunTells
  <2> QED
    BY <2>1, <2>2
<1> QED
  BY <1>4, <1>5, <1>6, <1>7, <1>8 DEF NeighborsIInv

\* A run that ends without errors has searched, or found searched, every item.
LEMMA TaskEndsInv ==
  ASSUME NeighborsIInv, TaskEnds
  PROVE  NeighborsIInv'
<1>1. /\ search # <<>> /\ search' = <<>>
      /\ \A n \in DOMAIN search : search[n].step = "done" \/ (failedRun /\ search[n].step = "check")
      /\ covered' = IF failedRun THEN covered ELSE [n \in Present(trainSet) |-> search[n].known]
      /\ UNCHANGED <<config, dataVersion, change, clock, trainSet, stamps, collector, noted, computed, missed>>
  BY DEF TaskEnds
<1>2. NeighborsTypeOK /\ TimesPast /\ StampsTell /\ RunTells /\ RunsCoverModifications
  BY DEF NeighborsIInv
<1>3. TaskOf(search, trainSet)
  BY <1>1, <1>2 DEF NeighborsTypeOK
<1>4. NeighborsTypeOK'
  BY <1>1, <1>2 DEF NeighborsTypeOK
<1>5. StampsTell' /\ RunTells'
  BY <1>1, <1>2 DEF StampsTell, Fresh, RunTells, SearchedFor
<1>6. CASE failedRun
  <2>1. TimesPast' /\ RunsCoverModifications'
    BY <1>1, <1>2, <1>6 DEF TimesPast, RunsCoverModifications
  <2> QED
    BY <1>4, <1>5, <2>1 DEF NeighborsIInv
<1>7. CASE ~failedRun
  <2>1. \A n \in DOMAIN covered' :
          /\ n \in Present(trainSet) /\ search[n].step = "done"
          /\ covered'[n] = search[n].known /\ covered'[n] \subseteq 1 .. trainSet
    BY <1>1, <1>3, <1>7 DEF TaskOf
  <2>2. TimesPast'
    <3>1. \A n \in DOMAIN covered' :
            covered'[n] \subseteq 1 .. dataVersion /\ (trainSet # 0 => covered'[n] \subseteq 1 .. trainSet)
      BY <1>2, <2>1 DEF NeighborsTypeOK
    <3> QED
      BY <1>1, <1>2, <3>1 DEF TimesPast
  <2>3. RunsCoverModifications'
    <3> SUFFICES ASSUME NEW n \in (Nodes \cap DOMAIN covered') \ missed
                 PROVE  computed[n] >= 1 /\ \A v \in covered'[n] : computed[n] >= v
      BY <1>1 DEF RunsCoverModifications
    <3> QED
      BY <1>1, <1>2, <1>7, <2>1 DEF RunTells, SearchedFor
  <2> QED
    BY <1>4, <1>5, <2>2, <2>3 DEF NeighborsIInv
<1> QED
  BY <1>6, <1>7

LEMMA NeighborsStep == NeighborsIInv /\ [NeighborsNext]_neighborVars => NeighborsIInv'
<1> SUFFICES ASSUME NeighborsIInv, [NeighborsNext]_neighborVars PROVE NeighborsIInv'
  OBVIOUS
<1>1. CASE \/ Passes \/ Reconfigures \/ Loads \/ Arrives \/ WritesData \/ RequestFails \/ UNCHANGED neighborVars
           \/ \E k \in Keys, n \in Nodes : Collects(k, n)
           \/ \E n \in DOMAIN search : Panics(n)
  BY <1>1, NeighborsOutside
<1>2. CASE WritesStamp \/ WritesCache \/ DropsCached
  BY <1>2, NeighborsOfStamps, NeighborsOfWrites
<1>3. CASE Deletes
  BY <1>3, NeighborsOfCollection
<1>4. CASE TaskBegins \/ TaskEnds
  BY <1>4, TaskBeginsInv, TaskEndsInv
<1>5. CASE \E n \in DOMAIN search : Checks(n) \/ Searches(n) \/ Reclaims(n) \/ Stamps(n) \/ CallFails(n)
  <2>1. PICK n \in DOMAIN search : Checks(n) \/ Searches(n) \/ Reclaims(n) \/ Stamps(n) \/ CallFails(n)
    BY <1>5
  <2>2. search # <<>>
    BY SMT
  <2> QED
    BY <2>1, <2>2, ChecksInv, SearchesInv, ReclaimsInv, StampsInv
<1> QED
  BY <1>1, <1>2, <1>3, <1>4, <1>5 DEF NeighborsNext

\* After a run without errors the neighbors of every item of its data were
\* searched in data with the modifications whose stamp the run could find, for
\* any data, requests, failures, collections, restarts and panics; except where a
\* stamp was overtaken.
THEOREM NeighborsAreCovered == NeighborsSpec => []RunsCoverModifications
<1>1. NeighborsInit => NeighborsIInv
  BY NeighborsStart
<1>2. NeighborsIInv /\ [NeighborsNext]_neighborVars => NeighborsIInv'
  BY NeighborsStep
<1>3. NeighborsIInv => RunsCoverModifications
  BY DEF NeighborsIInv
<1> QED
  BY <1>1, <1>2, <1>3, PTL DEF NeighborsSpec

----------------------------------------------------------------------------
(* The inductive invariant *)

Goes(p) == fitting[p].stage # "idle"
IsModel(given) == "weights" \in DOMAIN given
IsSequence(s) == s \in Seq(ToSet(s))

FitFields == {"stage", "model", "epoch", "left", "user", "row", "best", "log", "fair"}

\* The best of a fit is in its log, and nothing there is better.
BestIsLogged(f) ==
  /\ f.best.none \in BOOLEAN
  /\ f.best.none => f.log = {} /\ f.epoch = 0 /\ f.stage \in {"evaluate", "make", "sample", "rank"}
  /\ ~f.best.none => <<f.best.weights, f.best.score>> \in f.log
  /\ f.best.score.value \in Nat
  /\ \A entry \in f.log : entry[2].value \in Nat /\ entry[2].value <= f.best.score.value

\* What is true of a fit by itself.
Sound(f) ==
  /\ DOMAIN f = FitFields /\ IsModel(f.model)
  /\ f.epoch \in Nat /\ f.row \in Nat
  /\ f.stage \in {"evaluate", "make", "sample", "rank", "train", "draw", "restore", "done"}
  /\ BestIsLogged(f)
  /\ f.stage = "done" => f.model.weights = f.best.weights

\* The negative samples, as long as nobody has come between.
NegativesAreMade ==
  /\ \A p \in Task : fitting[p].stage = "sample" =>
       negatives.made /\ fitting[p].row # 0 /\ negatives.filled = 1 .. fitting[p].row - 1
  /\ \A p, q \in Task : fitting[p].stage = "sample" /\ fitting[q].stage = "sample" => p = q
  /\ \A p \in Task : fitting[p].stage = "rank" => negatives.made /\ AllFilled
  /\ negatives.made /\ ~AllFilled => \E p \in Task : fitting[p].stage = "sample"

FitsAreSound ==
  /\ generation \in DOMAIN LoadedData
  /\ fitting = [p \in Task |-> fitting[p]]
  /\ negatives = [made |-> negatives.made, filled |-> negatives.filled]
  /\ negatives.made \in BOOLEAN /\ raced \in BOOLEAN
  /\ \A p \in Task : Goes(p) => Sound(fitting[p]) /\ fitting[p].fair \in BOOLEAN /\ (fitting[p].fair \/ raced)
  /\ raced \/ NegativesAreMade

Known(best) == best # Missing => best = WithScore(best.model, best.score) /\ IsModel(best.model)
SearchIsSound ==
  /\ IsModel(served.model) /\ (searcher.model # Missing => IsModel(searcher.model))
  /\ study = [kinds |-> study.kinds, trials |-> study.trials, best |-> study.best]
  /\ IsSequence(study.trials) /\ Known(study.best)
  /\ study.best # Missing => study.best.score.value \in Nat
  /\ \A k \in DOMAIN study.trials : study.trials[k].score.value \in Nat
  /\ SearchKeepsBest

FitIInv == FitsAreSound /\ SearchIsSound
----------------------------------------------------------------------------
(* One fit *)

LEMMA FitOfModel ==
  ASSUME NEW given, IsModel(given)
  PROVE  /\ Sound(Fits(given)) /\ Fits(given).stage = "evaluate" /\ Fits(given).fair = TRUE
<1> DEFINE m == Initialized(given, data)
           f == Fits(given)
<1>1. DOMAIN m = DOMAIN given
  BY DEF Initialized
<1>2. IsModel(m)
  BY <1>1 DEF IsModel
<1> HIDE DEF m
<1>3. f = [stage |-> "evaluate", model |-> m, epoch |-> 0, left |-> 0, user |-> NotId,
           row |-> 0, best |-> NoSnapshot, log |-> {}, fair |-> TRUE]
  BY DEF Fits, m
<1> HIDE DEF f
<1>4. /\ DOMAIN f = FitFields /\ f.stage = "evaluate" /\ f.model = m /\ f.epoch = 0 /\ f.row = 0
      /\ f.best = NoSnapshot /\ f.log = {} /\ f.fair = TRUE
  BY <1>3 DEF FitFields
<1>5. NoSnapshot.none = TRUE /\ NoSnapshot.score.value = 0
  BY DEF NoSnapshot, Zero
<1>6. f.best.none = TRUE /\ f.best.score.value = 0 /\ f.log = {}
  BY <1>4, <1>5, Zenon
<1>7. /\ f.best.none \in BOOLEAN
      /\ f.best.none => f.log = {} /\ f.epoch = 0 /\ f.stage \in {"evaluate", "make", "sample", "rank"}
      /\ ~f.best.none => <<f.best.weights, f.best.score>> \in f.log
  BY <1>4, <1>6, Zenon
<1>8. BestIsLogged(f)
  BY <1>6, <1>7 DEF BestIsLogged
<1> QED
  BY <1>2, <1>4, <1>8 DEF Sound, f

LEMMA SoundRated ==
  ASSUME NEW f, Sound(f), f.stage \in {"evaluate", "rank"}, NEW score, score.value \in Nat, NEW fair
  PROVE  LET g == Rated(f, score, fair) IN
           Sound(g) /\ g.stage \in {"restore", "train"} /\ g.fair = (f.fair /\ fair)
<1> DEFINE g == Rated(f, score, fair)
           b == AddSnapshot(f.best, score, f.epoch)
           ends == f.epoch = Epochs[f.model.kind]
<1>1. DOMAIN f = FitFields /\ BestIsLogged(f) /\ f.epoch \in Nat
  BY DEF Sound
<1>b. b = IF f.best.none \/ score.value > f.best.score.value
          THEN [score |-> score, weights |-> f.epoch, none |-> FALSE] ELSE f.best
  BY DEF AddSnapshot
<1> HIDE DEF b
<1>2. /\ DOMAIN g = FitFields /\ g.model = f.model /\ g.epoch = f.epoch /\ g.row = f.row
      /\ g.best = b /\ g.log = f.log \cup {<<f.epoch, score>>} /\ g.fair = (f.fair /\ fair)
      /\ g.stage \in {"restore", "train"}
  BY <1>1 DEF Rated, FitFields, b
<1> HIDE DEF g
<1>3. CASE f.best.none \/ score.value > f.best.score.value
  <2>1. b.score = score /\ b.weights = f.epoch /\ b.none = FALSE
    BY <1>b, <1>3
  <2>2. \A entry \in f.log : entry[2].value \in Nat /\ entry[2].value <= score.value
    BY <1>1, <1>3 DEF BestIsLogged
  <2>4. g.best.none = FALSE /\ g.best.score = score /\ g.best.weights = f.epoch
    BY <1>2, <2>1, Zenon
  <2>5. <<g.best.weights, g.best.score>> \in g.log
    BY <1>2, <2>4, Zenon
  <2>6. ASSUME NEW entry \in g.log PROVE entry[2].value \in Nat /\ entry[2].value <= score.value
    <3>1. CASE entry \in f.log
      BY <3>1, <2>2
    <3>2. CASE entry = <<f.epoch, score>>
      <4>1. entry[2] = score
        BY <3>2
      <4> QED
        BY <4>1
    <3> QED
      BY <3>1, <3>2, <1>2
  <2>3. BestIsLogged(g)
    BY <2>4, <2>5, <2>6 DEF BestIsLogged
  <2> QED
    BY <1>2, <2>3 DEF Sound, g
<1>4. CASE ~(f.best.none \/ score.value > f.best.score.value)
  <2>1. b = f.best /\ f.best.none = FALSE /\ score.value <= f.best.score.value
    BY <1>b, <1>4, <1>1 DEF BestIsLogged
  <2>3. BestIsLogged(g)
    BY <1>1, <1>2, <2>1 DEF BestIsLogged
  <2> QED
    BY <1>2, <2>3 DEF Sound, g
<1> QED
  BY <1>3, <1>4

\* An epoch ends in training or drawing, after the first rating.
LEMMA SoundEpoch ==
  ASSUME NEW f, Sound(f), f.stage \in {"train", "draw"}
  PROVE  LET g == EpochEnds(f) IN
           Sound(g) /\ g.stage \in {"evaluate", "train"} /\ g.fair = f.fair
<1> DEFINE g == EpochEnds(f)
<1>1. DOMAIN f = FitFields /\ BestIsLogged(f) /\ f.epoch \in Nat
  BY DEF Sound
<1>2. /\ DOMAIN g = FitFields /\ g.model = f.model /\ g.epoch = f.epoch + 1 /\ g.row = f.row
      /\ g.best = f.best /\ g.log = f.log /\ g.fair = f.fair
      /\ g.stage \in {"evaluate", "train"}
  BY <1>1 DEF EpochEnds, FitFields
<1> HIDE DEF g
<1>3. f.best.none = FALSE
  BY <1>1 DEF BestIsLogged
<1>4. BestIsLogged(g)
  BY <1>1, <1>2, <1>3 DEF BestIsLogged
<1> QED
  BY <1>1, <1>2, <1>4 DEF Sound, g

\* A fit that only goes to another stage, or to other data.
LEMMA SoundOn ==
  ASSUME NEW f, Sound(f), NEW g, DOMAIN g = FitFields, g.row \in Nat, g.fair = f.fair,
         g.model = f.model \/ (IsModel(g.model) /\ g.model.weights = f.best.weights),
         g.epoch = f.epoch, g.best = f.best, g.log = f.log,
         \/ f.stage \in {"evaluate", "make", "sample", "rank"} /\ g.stage \in {"make", "sample", "rank"}
         \/ f.stage = "evaluate" /\ f.epoch > 0 /\ g.stage = "restore"
         \/ f.stage \in {"train", "draw"} /\ g.stage = "draw"
         \/ f.stage = "restore" /\ g.stage = "done" /\ g.model.weights = f.best.weights
  PROVE  Sound(g)
<1>1. BestIsLogged(f) /\ f.epoch \in Nat /\ IsModel(f.model)
  BY DEF Sound
<1>2. BestIsLogged(g)
  BY <1>1 DEF BestIsLogged
<1> QED
  BY <1>1, <1>2 DEF Sound

----------------------------------------------------------------------------
(* The fits together *)

LEMMA StepsOne ==
  ASSUME FitsAreSound, NEW p \in Task, NEW f, fitting' = [fitting EXCEPT ![p] = f]
  PROVE  /\ fitting' = [q \in Task |-> fitting'[q]] /\ fitting'[p] = f
         /\ \A q \in Task : q # p => fitting'[q] = fitting[q]
  BY DEF FitsAreSound

\* Steps that leave the negative samples alone, and do not come to them.
LEMMA SoundAside ==
  ASSUME FitsAreSound, UNCHANGED <<generation, negativeVars>>, NEW p \in Task, NEW f,
         fitting' = [fitting EXCEPT ![p] = f], fitting[p].stage # "sample", f.stage \notin {"sample", "rank"},
         f.stage # "idle" => Sound(f) /\ f.fair \in BOOLEAN /\ (f.fair \/ raced)
  PROVE  FitsAreSound'
<1>1. /\ fitting' = [q \in Task |-> fitting'[q]] /\ fitting'[p] = f
      /\ \A q \in Task : q # p => fitting'[q] = fitting[q]
  BY StepsOne
<1>2. generation' = generation /\ negatives' = negatives /\ raced' = raced /\ data' = data
          /\ (AllFilled' <=> AllFilled)
  BY DEF negativeVars, data, AllFilled
<1>3. /\ generation' \in DOMAIN LoadedData /\ negatives' = [made |-> negatives'.made, filled |-> negatives'.filled]
      /\ negatives'.made \in BOOLEAN /\ raced' \in BOOLEAN
  BY <1>2, Zenon DEF FitsAreSound
<1>4. ASSUME NEW q \in Task, Goes(q)'
      PROVE  Sound(fitting'[q]) /\ fitting'[q].fair \in BOOLEAN /\ (fitting'[q].fair \/ raced')
  BY <1>1, <1>2, <1>4, Zenon DEF FitsAreSound, Goes
<1>5. ASSUME NegativesAreMade PROVE NegativesAreMade'
  <2>1. \A q \in Task : fitting'[q].stage \in {"sample", "rank"} => fitting'[q] = fitting[q]
    BY <1>1
  <2>2. \A q \in Task : fitting[q].stage = "sample" => fitting'[q].stage = "sample"
    BY <1>1
  <2>3. \A q \in Task : fitting'[q].stage = "sample" =>
          negatives'.made /\ fitting'[q].row # 0 /\ negatives'.filled = 1 .. fitting'[q].row - 1
    BY <1>2, <1>5, <2>1 DEF NegativesAreMade
  <2>4. \A q, r \in Task : fitting'[q].stage = "sample" /\ fitting'[r].stage = "sample" => q = r
    BY <1>5, <2>1, Zenon DEF NegativesAreMade
  <2>5. \A q \in Task : fitting'[q].stage = "rank" => negatives'.made /\ AllFilled'
    BY <1>2, <1>5, <2>1 DEF NegativesAreMade
  <2>6. negatives'.made /\ ~AllFilled' => \E q \in Task : fitting'[q].stage = "sample"
    BY <1>2, <1>5, <2>2 DEF NegativesAreMade
  <2> QED
    BY <2>3, <2>4, <2>5, <2>6 DEF NegativesAreMade
<1>6. raced' \/ NegativesAreMade'
  BY <1>2, <1>5 DEF FitsAreSound
<1> QED
  BY <1>1, <1>3, <1>4, <1>6 DEF FitsAreSound

LEMMA SoundLook ==
  ASSUME FitsAreSound, NEW p \in Task, LooksForNegatives(p)
  PROVE  FitsAreSound'
<1> DEFINE s == IF negatives.made THEN "rank" ELSE "make"
           f == [fitting[p] EXCEPT !.stage = s]
<1>1. /\ fitting[p].stage = "evaluate" /\ fitting' = [fitting EXCEPT ![p] = f]
      /\ raced' = (raced \/ (negatives.made /\ ~AllFilled)) /\ negatives' = negatives /\ generation' = generation
  BY DEF LooksForNegatives, Step, FitOnly
<1>2. Sound(fitting[p]) /\ fitting[p].fair \in BOOLEAN /\ (fitting[p].fair \/ raced)
  BY <1>1 DEF FitsAreSound, Goes
<1>3. DOMAIN f = FitFields /\ f.stage = s /\ f.model = fitting[p].model /\ f.epoch = fitting[p].epoch
      /\ f.best = fitting[p].best /\ f.log = fitting[p].log /\ f.fair = fitting[p].fair /\ f.row = fitting[p].row
  BY <1>2 DEF Sound, FitFields
<1>4. s \in {"rank", "make"} /\ (s = "rank" => negatives.made) /\ (negatives.made => s = "rank")
  BY DEF s
<1> HIDE DEF s, f
<1>5. Sound(f)
  BY <1>1, <1>2, <1>3, <1>4, SoundOn DEF Sound
<1>6. CASE s = "make"
  <2>1. raced' = raced
    BY <1>1, <1>4, <1>6, Zenon DEF FitsAreSound
  <2> QED
    BY <1>1, <1>2, <1>3, <1>5, <1>6, <2>1, SoundAside DEF negativeVars
<1>7. CASE s = "rank"
  <2>1. /\ fitting' = [q \in Task |-> fitting'[q]] /\ fitting'[p] = f
        /\ \A q \in Task : q # p => fitting'[q] = fitting[q]
    BY <1>1, StepsOne
  <2>2. data' = data /\ (AllFilled' <=> AllFilled) /\ negatives.made
    BY <1>1, <1>4, <1>7 DEF data, AllFilled
  <2>3. /\ generation' \in DOMAIN LoadedData /\ negatives' = [made |-> negatives'.made, filled |-> negatives'.filled]
        /\ negatives'.made \in BOOLEAN /\ raced' \in BOOLEAN
    <3>1. generation' \in DOMAIN LoadedData /\ negatives' = [made |-> negatives'.made, filled |-> negatives'.filled]
      BY <1>1, Zenon DEF FitsAreSound
    <3> QED
      BY <3>1, <1>1, Zenon DEF FitsAreSound
  <2>4. raced => raced'
    BY <1>1, Zenon
  <2>5. ASSUME NEW q \in Task, Goes(q)'
        PROVE  Sound(fitting'[q]) /\ fitting'[q].fair \in BOOLEAN /\ (fitting'[q].fair \/ raced')
    BY <1>2, <1>3, <1>5, <2>1, <2>4, <2>5, Zenon DEF FitsAreSound, Goes
  <2>6. raced' \/ NegativesAreMade'
    <3> SUFFICES ASSUME ~raced' PROVE NegativesAreMade'
      OBVIOUS
    <3>1. AllFilled' /\ NegativesAreMade
      BY <1>1, <2>2, Zenon DEF FitsAreSound
    <3>2. \A q \in Task : fitting'[q].stage = "sample" => fitting'[q] = fitting[q]
      BY <2>1, <1>3, <1>7
    <3> QED
      BY <1>1, <2>2, <3>1, <3>2 DEF NegativesAreMade
  <2> QED
    BY <2>1, <2>3, <2>5, <2>6 DEF FitsAreSound
<1> QED
  BY <1>4, <1>6, <1>7

LEMMA SoundMake ==
  ASSUME FitsAreSound, NEW p \in Task, MakesNegatives(p)
  PROVE  FitsAreSound'
<1> DEFINE f == [fitting[p] EXCEPT !.stage = "sample", !.row = 1]
<1>1. /\ fitting[p].stage = "make" /\ fitting' = [fitting EXCEPT ![p] = f]
      /\ raced' = (raced \/ negatives.made) /\ generation' = generation
      /\ negatives' = [made |-> TRUE, filled |-> {}]
  BY DEF MakesNegatives, Step, FitOnly
<1>2. Sound(fitting[p]) /\ fitting[p].fair \in BOOLEAN /\ (fitting[p].fair \/ raced)
  BY <1>1 DEF FitsAreSound, Goes
<1>3. DOMAIN f = FitFields /\ f.stage = "sample" /\ f.model = fitting[p].model /\ f.epoch = fitting[p].epoch
      /\ f.best = fitting[p].best /\ f.log = fitting[p].log /\ f.fair = fitting[p].fair /\ f.row = 1
  BY <1>2 DEF Sound, FitFields
<1> HIDE DEF f
<1>5. Sound(f)
  BY <1>1, <1>2, <1>3, SoundOn DEF Sound
<1>6. /\ fitting' = [q \in Task |-> fitting'[q]] /\ fitting'[p] = f
      /\ \A q \in Task : q # p => fitting'[q] = fitting[q]
  BY <1>1, StepsOne
<1>7. negatives'.made = TRUE /\ negatives'.filled = {}
  BY <1>1
<1>8. /\ generation' \in DOMAIN LoadedData /\ negatives' = [made |-> negatives'.made, filled |-> negatives'.filled]
      /\ negatives'.made \in BOOLEAN /\ raced' \in BOOLEAN
  <2>1. generation' \in DOMAIN LoadedData /\ negatives' = [made |-> negatives'.made, filled |-> negatives'.filled]
    BY <1>1, <1>7 DEF FitsAreSound
  <2> QED
    BY <2>1, <1>1, <1>7, Zenon DEF FitsAreSound
<1>9. raced => raced'
  BY <1>1, Zenon
<1>10. ASSUME NEW q \in Task, Goes(q)'
       PROVE  Sound(fitting'[q]) /\ fitting'[q].fair \in BOOLEAN /\ (fitting'[q].fair \/ raced')
  BY <1>2, <1>3, <1>5, <1>6, <1>9, <1>10, Zenon DEF FitsAreSound, Goes
<1>11. raced' \/ NegativesAreMade'
  <2> SUFFICES ASSUME ~raced' PROVE NegativesAreMade'
    OBVIOUS
  <2>1. NegativesAreMade /\ ~negatives.made
    BY <1>1, Zenon DEF FitsAreSound
  <2>2. \A q \in Task : q # p => fitting'[q].stage \notin {"sample", "rank"}
    BY <1>6, <2>1 DEF NegativesAreMade
  <2>3. fitting'[p].stage = "sample" /\ fitting'[p].row = 1
    BY <1>3, <1>6
  <2> QED
    BY <1>7, <2>2, <2>3 DEF NegativesAreMade
<1> QED
  BY <1>6, <1>8, <1>10, <1>11 DEF FitsAreSound

LEMMA SoundSample ==
  ASSUME FitsAreSound, NEW p \in Task, SamplesNegatives(p)
  PROVE  FitsAreSound'
<1> DEFINE last == fitting[p].row = Len(data.users)
           f == IF last THEN [fitting[p] EXCEPT !.stage = "rank", !.row = 0] ELSE [fitting[p] EXCEPT !.row = @ + 1]
<1>1. /\ fitting[p].stage = "sample" /\ fitting' = [fitting EXCEPT ![p] = f]
      /\ raced' = raced /\ generation' = generation
      /\ negatives' = [negatives EXCEPT !.filled = @ \cup {fitting[p].row}]
  BY DEF SamplesNegatives, Step, FitOnly
<1>2. Sound(fitting[p]) /\ fitting[p].fair \in BOOLEAN /\ (fitting[p].fair \/ raced)
  BY <1>1 DEF FitsAreSound, Goes
<1>3. /\ DOMAIN f = FitFields /\ f.model = fitting[p].model /\ f.epoch = fitting[p].epoch
      /\ f.best = fitting[p].best /\ f.log = fitting[p].log /\ f.fair = fitting[p].fair
      /\ f.stage = (IF last THEN "rank" ELSE "sample") /\ f.row = (IF last THEN 0 ELSE fitting[p].row + 1)
  BY <1>1, <1>2 DEF Sound, FitFields
<1> HIDE DEF f
<1>4. f.row \in Nat
  BY <1>2, <1>3 DEF Sound
<1>5. Sound(f)
  BY <1>1, <1>2, <1>3, <1>4, SoundOn
<1>6. /\ fitting' = [q \in Task |-> fitting'[q]] /\ fitting'[p] = f
      /\ \A q \in Task : q # p => fitting'[q] = fitting[q]
  BY <1>1, StepsOne
<1>7. negatives'.made = negatives.made /\ negatives'.filled = negatives.filled \cup {fitting[p].row}
      /\ negatives' = [made |-> negatives'.made, filled |-> negatives'.filled]
  BY <1>1 DEF FitsAreSound
<1>8. /\ generation' \in DOMAIN LoadedData /\ negatives' = [made |-> negatives'.made, filled |-> negatives'.filled]
      /\ negatives'.made \in BOOLEAN /\ raced' \in BOOLEAN
  BY <1>1, <1>7, Zenon DEF FitsAreSound
<1>10. ASSUME NEW q \in Task, Goes(q)'
       PROVE  Sound(fitting'[q]) /\ fitting'[q].fair \in BOOLEAN /\ (fitting'[q].fair \/ raced')
  BY <1>1, <1>2, <1>3, <1>5, <1>6, <1>10, Zenon DEF FitsAreSound, Goes
<1>11. raced' \/ NegativesAreMade'
  <2> SUFFICES ASSUME ~raced PROVE NegativesAreMade'
    BY <1>1
  <2>1. NegativesAreMade
    BY DEF FitsAreSound
  <2>2. \A q \in Task : q # p => fitting[q].stage # "sample"
    BY <1>1, <2>1 DEF NegativesAreMade
  <2>3. fitting[p].row \in Nat /\ fitting[p].row # 0 /\ negatives.filled = 1 .. fitting[p].row - 1 /\ negatives.made
    BY <1>1, <1>2, <2>1 DEF NegativesAreMade, Sound
  <2>4. negatives'.filled = 1 .. fitting[p].row /\ negatives'.made
    BY <1>7, <2>3
  <2>5. data' = data /\ data \in ToSet(LoadedData)
    BY <1>1, ModelFitAssumption DEF data, FitsAreSound, ToSet
  <2>6. DOMAIN data.users = 1 .. Len(data.users) /\ Len(data.users) \in Nat
    BY <2>5, ModelFitAssumption
  <2>7. AllFilled => AllFilled'
    BY <1>7, <2>5 DEF AllFilled
  <2>8. CASE last
    <3>1. AllFilled'
      BY <2>4, <2>5, <2>6, <2>8 DEF AllFilled
    <3>2. fitting'[p].stage = "rank"
      BY <1>3, <1>6, <2>8
    <3>3. \A q \in Task : fitting'[q].stage # "sample"
      BY <1>6, <2>2, <3>2
    <3> QED
      BY <2>4, <3>1, <3>3 DEF NegativesAreMade
  <2>9. CASE ~last
    <3>1. fitting'[p].stage = "sample" /\ fitting'[p].row = fitting[p].row + 1
      BY <1>3, <1>6, <2>9
    <3>2. negatives'.filled = 1 .. fitting'[p].row - 1 /\ fitting'[p].row # 0
      BY <2>3, <2>4, <3>1
    <3>3. \A q \in Task : q # p => fitting'[q].stage # "sample"
      BY <1>6, <2>2
    <3>4. \A q \in Task : fitting'[q].stage = "rank" => AllFilled
      BY <1>6, <2>1, <3>1 DEF NegativesAreMade
    <3> QED
      BY <2>4, <2>7, <3>1, <3>2, <3>3, <3>4 DEF NegativesAreMade
  <2> QED
    BY <2>8, <2>9
<1> QED
  BY <1>6, <1>8, <1>10, <1>11 DEF FitsAreSound

LEMMA ScoresAreNumbers == \A score \in Measurable : score.value \in Nat
<1> SUFFICES ASSUME NEW score \in Measurable PROVE score.value \in Nat
  OBVIOUS
<1>1. score.value \in ScoreRange \cup {0}
  BY DEF Measurable
<1>2. ScoreRange \subseteq Nat
  BY ModelFitAssumption
<1>3. score.value \in ScoreRange \/ score.value = 0
  BY <1>1
<1>4. \A v : v \in ScoreRange => v \in Nat
  BY <1>2, Zenon
<1> QED
  BY <1>3, <1>4

\* A step of a fit.
LEMMA SoundGoesOn ==
  ASSUME FitsAreSound, NEW p \in Task, FitGoesOn(p)
  PROVE  FitsAreSound'
<1> USE DEF Step, FitOnly
<1>w. Goes(p) => Sound(fitting[p]) /\ fitting[p].fair \in BOOLEAN /\ (fitting[p].fair \/ raced)
  BY DEF FitsAreSound
<1>r. ASSUME NEW score \in Measurable, NEW fair \in BOOLEAN, fitting[p].stage \in {"evaluate", "rank"}, fair \/ raced,
             fitting' = [fitting EXCEPT ![p] = Rated(fitting[p], score, fair)], UNCHANGED <<generation, negativeVars>>
      PROVE  FitsAreSound'
  <2> DEFINE g == Rated(fitting[p], score, fair)
  <2>1. Sound(fitting[p]) /\ fitting[p].fair \in BOOLEAN /\ (fitting[p].fair \/ raced) /\ score.value \in Nat
    BY <1>r, <1>w, ScoresAreNumbers DEF Goes
  <2>2. Sound(g) /\ g.stage \in {"restore", "train"} /\ g.fair = (fitting[p].fair /\ fair)
    BY <1>r, <2>1, SoundRated
  <2> HIDE DEF g
  <2>3. g.fair \in BOOLEAN /\ (g.fair \/ raced)
    BY <1>r, <2>1, <2>2, Zenon
  <2>4. fitting' = [fitting EXCEPT ![p] = g]
    BY <1>r DEF g
  <2>5. g.stage \notin {"sample", "rank"} /\ fitting[p].stage # "sample"
    BY <1>r, <2>2
  <2> QED
    BY <1>r, <2>2, <2>3, <2>4, <2>5, SoundAside
<1>e. ASSUME fitting[p].stage \in {"train", "draw"}, UNCHANGED <<generation, negativeVars>>,
             fitting' = [fitting EXCEPT ![p] = EpochEnds(fitting[p])]
      PROVE  FitsAreSound'
  <2> DEFINE g == EpochEnds(fitting[p])
  <2>1. Sound(fitting[p]) /\ fitting[p].fair \in BOOLEAN /\ (fitting[p].fair \/ raced)
    BY <1>e, <1>w DEF Goes
  <2>2. Sound(g) /\ g.stage \in {"evaluate", "train"} /\ g.fair = fitting[p].fair
    BY <1>e, <2>1, SoundEpoch
  <2> HIDE DEF g
  <2>3. g.stage \notin {"sample", "rank"} /\ fitting[p].stage # "sample"
    BY <1>e, <2>2
  <2>4. fitting' = [fitting EXCEPT ![p] = g]
    BY <1>e DEF g
  <2> QED
    BY <1>e, <2>1, <2>2, <2>3, <2>4, SoundAside
<1>s. ASSUME NEW g, fitting' = [fitting EXCEPT ![p] = g], UNCHANGED <<generation, negativeVars>>,
             Goes(p), DOMAIN g = FitFields, g.row \in Nat, g.fair = fitting[p].fair,
             g.model = fitting[p].model \/ (IsModel(g.model) /\ g.model.weights = fitting[p].best.weights),
             g.epoch = fitting[p].epoch, g.best = fitting[p].best, g.log = fitting[p].log,
             \/ fitting[p].stage = "evaluate" /\ fitting[p].epoch > 0 /\ g.stage = "restore"
             \/ fitting[p].stage \in {"train", "draw"} /\ g.stage = "draw"
             \/ fitting[p].stage = "restore" /\ g.stage = "done" /\ g.model.weights = fitting[p].best.weights
      PROVE  FitsAreSound'
  <2>1. Sound(fitting[p]) /\ fitting[p].fair \in BOOLEAN /\ (fitting[p].fair \/ raced)
    BY <1>s, <1>w
  <2>2. Sound(g)
    BY <1>s, <2>1, SoundOn
  <2>3. g.stage \notin {"sample", "rank"} /\ fitting[p].stage # "sample"
    BY <1>s
  <2> QED
    BY <1>s, <2>1, <2>2, <2>3, SoundAside
<1>1. CASE EvaluatesRanking(p)
  <2>1. PICK score \in Measurable : fitting' = [fitting EXCEPT ![p] = Rated(fitting[p], score, AllFilled)]
    BY <1>1 DEF EvaluatesRanking
  <2>2. fitting[p].stage = "rank" /\ UNCHANGED <<generation, negativeVars>>
    BY <1>1 DEF EvaluatesRanking
  <2>3. AllFilled \/ raced
    BY <2>2 DEF FitsAreSound, NegativesAreMade
  <2>4. AllFilled \in BOOLEAN
    BY DEF AllFilled
  <2> QED
    BY <1>r, <2>1, <2>2, <2>3, <2>4
<1>2. CASE Classifies(p)
  <2>1. PICK score \in Measurable : fitting' = [fitting EXCEPT ![p] = Rated(fitting[p], score, TRUE)]
    BY <1>2 DEF Classifies
  <2>2. fitting[p].stage = "evaluate" /\ UNCHANGED <<generation, negativeVars>>
    BY <1>2 DEF Classifies
  <2> QED
    BY <1>r, <2>1, <2>2
<1>3. CASE Diverges(p)
  <2> DEFINE g == [fitting[p] EXCEPT !.stage = "restore"]
  <2>1. fitting[p].stage = "evaluate" /\ fitting[p].epoch > 0 /\ UNCHANGED <<generation, negativeVars>>
        /\ fitting' = [fitting EXCEPT ![p] = g]
    BY <1>3 DEF Diverges, FitsAreSound
  <2>2. Goes(p) /\ Sound(fitting[p])
    BY <1>w, <2>1 DEF Goes
  <2>3. DOMAIN g = FitFields /\ g.stage = "restore" /\ g.row = fitting[p].row /\ g.fair = fitting[p].fair
        /\ g.model = fitting[p].model /\ g.epoch = fitting[p].epoch /\ g.best = fitting[p].best
               /\ g.log = fitting[p].log
    BY <2>2 DEF Sound, FitFields
  <2> HIDE DEF g
  <2> QED
    BY <1>s, <2>1, <2>2, <2>3 DEF Sound
<1>4. CASE Trains(p)
  <2>1. fitting[p].stage = "train" /\ UNCHANGED <<generation, negativeVars>>
    BY <1>4 DEF Trains
  <2>2. Goes(p) /\ Sound(fitting[p])
    BY <1>w, <2>1 DEF Goes
  <2>3. CASE fitting[p].model.kind = "bpr"
    <3> DEFINE g == [fitting[p] EXCEPT !.stage = "draw", !.left = Feedback]
    <3>1. fitting' = [fitting EXCEPT ![p] = g]
      BY <1>4, <2>3 DEF Trains
    <3>2. DOMAIN g = FitFields /\ g.stage = "draw" /\ g.row = fitting[p].row /\ g.fair = fitting[p].fair
          /\ g.model = fitting[p].model /\ g.epoch = fitting[p].epoch /\ g.best = fitting[p].best
                 /\ g.log = fitting[p].log
      BY <2>2 DEF Sound, FitFields
    <3> HIDE DEF g
    <3> QED
      BY <1>s, <2>1, <2>2, <3>1, <3>2 DEF Sound
  <2>4. CASE fitting[p].model.kind # "bpr"
    BY <1>4, <1>e, <2>1, <2>4 DEF Trains
  <2> QED
    BY <2>3, <2>4
<1>5. CASE DrawsUser(p)
  <2>1. PICK u \in {v \in DOMAIN data.train : data.train[v] # <<>>} : fitting' = [fitting EXCEPT ![p].user = u]
    BY <1>5 DEF DrawsUser
  <2> DEFINE g == [fitting[p] EXCEPT !.user = u]
  <2>2. fitting[p].stage = "draw" /\ UNCHANGED <<generation, negativeVars>> /\ fitting' = [fitting EXCEPT ![p] = g]
    BY <1>5, <2>1 DEF DrawsUser, FitsAreSound
  <2>3. Goes(p) /\ Sound(fitting[p])
    BY <1>w, <2>2 DEF Goes
  <2>4. DOMAIN g = FitFields /\ g.stage = "draw" /\ g.row = fitting[p].row /\ g.fair = fitting[p].fair
        /\ g.model = fitting[p].model /\ g.epoch = fitting[p].epoch /\ g.best = fitting[p].best
               /\ g.log = fitting[p].log
    BY <2>2, <2>3 DEF Sound, FitFields
  <2> HIDE DEF g
  <2> QED
    BY <1>s, <2>2, <2>3, <2>4 DEF Sound
<1>6. CASE DrawsNegative(p)
  <2>1. fitting[p].stage = "draw" /\ UNCHANGED <<generation, negativeVars>>
    BY <1>6 DEF DrawsNegative
  <2>2. Goes(p) /\ Sound(fitting[p])
    BY <1>w, <2>1 DEF Goes
  <2>3. CASE fitting[p].left = 1
    <3>1. fitting' = [fitting EXCEPT ![p] = EpochEnds(fitting[p])]
      BY <1>6, <2>3 DEF DrawsNegative, FitsAreSound
    <3> QED
      BY <1>e, <2>1, <3>1
  <2>4. CASE fitting[p].left # 1
    <3> DEFINE g == [fitting[p] EXCEPT !.left = @ - 1, !.user = NotId]
    <3>1. fitting' = [fitting EXCEPT ![p] = g]
      BY <1>6, <2>4 DEF DrawsNegative, FitsAreSound
    <3>2. DOMAIN g = FitFields /\ g.stage = "draw" /\ g.row = fitting[p].row /\ g.fair = fitting[p].fair
          /\ g.model = fitting[p].model /\ g.epoch = fitting[p].epoch /\ g.best = fitting[p].best
                 /\ g.log = fitting[p].log
      BY <2>1, <2>2 DEF Sound, FitFields
    <3> HIDE DEF g
    <3> QED
      BY <1>s, <2>1, <2>2, <3>1, <3>2 DEF Sound
  <2> QED
    BY <2>3, <2>4
<1>7. CASE Restores(p)
  <2> DEFINE m == [fitting[p].model EXCEPT !.weights = fitting[p].best.weights]
             g == [fitting[p] EXCEPT !.stage = "done", !.model = m]
  <2>1. fitting[p].stage = "restore" /\ UNCHANGED <<generation, negativeVars>>
    BY <1>7 DEF Restores
  <2>2. Goes(p) /\ Sound(fitting[p])
    BY <1>w, <2>1 DEF Goes
  <2>3. fitting' = [fitting EXCEPT ![p] = g]
    BY <1>7, <2>2 DEF Restores, Sound
  <2>4. IsModel(m) /\ m.weights = fitting[p].best.weights
    BY <2>2 DEF Sound, IsModel
  <2>5. DOMAIN g = FitFields /\ g.stage = "done" /\ g.row = fitting[p].row /\ g.fair = fitting[p].fair
        /\ g.model = m /\ g.epoch = fitting[p].epoch /\ g.best = fitting[p].best /\ g.log = fitting[p].log
    BY <2>2 DEF Sound, FitFields
  <2> HIDE DEF g, m
  <2> QED
    BY <1>s, <2>1, <2>2, <2>3, <2>4, <2>5 DEF Sound
<1> QED
  BY <1>1, <1>2, <1>3, <1>4, <1>5, <1>6, <1>7, SoundLook, SoundMake, SoundSample DEF FitGoesOn

----------------------------------------------------------------------------
(* The tasks *)

LEMMA ReceivedIsModel ==
  ASSUME NEW s
  PROVE  IsModel(Unmarshaled(s))
<1>1. IsModel(NewModel(s[1], s[2])) /\ IsModel(NewModel("fm", s[2]))
  BY DEF IsModel, NewModel
<1>2. IsModel(UnmarshaledFactors(s)) /\ IsModel(UnmarshaledFeatures(s))
  BY <1>1 DEF IsModel, UnmarshaledFactors, UnmarshaledFeatures
<1> QED
  BY <1>2 DEF Unmarshaled

LEMMA FirstSound == ModelFitInit => FitIInv
<1> SUFFICES ASSUME ModelFitInit PROVE FitIInv
  OBVIOUS
<1>1. fitting = [p \in Task |-> NoFit] /\ negatives = [made |-> FALSE, filled |-> {}] /\ raced = FALSE
      /\ served = FirstServed /\ study = NoSearch /\ searcher = NoneKnown /\ generation = 1
  BY DEF ModelFitInit
<1>2. \A p \in Task : fitting[p].stage = "idle"
  BY <1>1 DEF NoFit
<1>3. FitsAreSound
  <2>1. generation \in DOMAIN LoadedData
    BY <1>1, ModelFitAssumption
  <2> QED
    BY <1>1, <1>2, <2>1 DEF FitsAreSound, NegativesAreMade, Goes
<1>4. IsModel(served.model)
  BY <1>1 DEF FirstServed, WithScore, NewModel, IsModel
<1>5. searcher.model = Missing /\ study = [kinds |-> <<>>, trials |-> <<>>, best |-> Missing]
  BY <1>1 DEF NoneKnown, NoSearch, SearchOf
<1>6. IsSequence(<<>>) /\ DOMAIN <<>> = {}
  BY DEF IsSequence
<1>7. study.trials = <<>> /\ study.best = Missing
          /\ study = [kinds |-> study.kinds, trials |-> study.trials, best |-> study.best]
  BY <1>5
<1> QED
  BY <1>3, <1>4, <1>5, <1>6, <1>7 DEF FitIInv, SearchIsSound, SearchKeepsBest, Known

\* A search that begins, or goes on to the next kind of model.
LEMMA SearchAnew ==
  ASSUME NEW kinds, study' = SearchOf(kinds), IsModel(served'.model),
         searcher'.model # Missing => IsModel(searcher'.model)
  PROVE  SearchIsSound'
<1>1. study' = [kinds |-> kinds, trials |-> <<>>, best |-> Missing]
  BY DEF SearchOf
<1>2. study'.trials = <<>> /\ study'.best = Missing
      /\ study' = [kinds |-> study'.kinds, trials |-> study'.trials, best |-> study'.best]
  BY <1>1
<1>3. IsSequence(<<>>) /\ DOMAIN <<>> = {}
  BY DEF IsSequence
<1> QED
  BY <1>2, <1>3 DEF SearchIsSound, SearchKeepsBest, Known

LEMMA TakesModel ==
  ASSUME SearchIsSound, TakesBetter
  PROVE  IsModel(served'.model)
<1>1. Adopts => IsModel(searcher.model)
  BY DEF Adopts, SearchIsSound
<1>2. \A m, score : WithScore(m, score).model = m
  BY DEF WithScore
<1> QED
  BY <1>1, <1>2 DEF TakesBetter, SearchIsSound

\* A fit that begins while its task rests.
LEMMA SoundBegins ==
  ASSUME FitsAreSound, UNCHANGED <<generation, negativeVars>>, NEW p \in Task, NEW given, IsModel(given),
         Step(p, "idle", Fits(given))
  PROVE  FitsAreSound'
<1> DEFINE g == Fits(given)
<1>1. Sound(g) /\ g.stage = "evaluate" /\ g.fair = TRUE
  BY FitOfModel
<1>2. fitting[p].stage = "idle" /\ fitting' = [fitting EXCEPT ![p] = g]
  BY DEF Step
<1> HIDE DEF g
<1>3. fitting[p].stage # "sample" /\ g.stage \notin {"sample", "rank"}
  BY <1>1, <1>2
<1>4. g.fair \in BOOLEAN /\ (g.fair \/ raced)
  BY <1>1, Zenon
<1> QED
  BY <1>1, <1>2, <1>3, <1>4, SoundAside

LEMMA SoundEnds ==
  ASSUME FitsAreSound, UNCHANGED <<generation, negativeVars>>, NEW p \in Task, Step(p, "done", NoFit)
  PROVE  FitsAreSound'
<1>1. fitting[p].stage = "done" /\ fitting' = [fitting EXCEPT ![p] = NoFit]
  BY DEF Step
<1>2. NoFit.stage = "idle" /\ fitting[p].stage # "sample"
  BY <1>1 DEF NoFit
<1> QED
  BY <1>1, <1>2, SoundAside

\* Nothing runs, and there are no negative samples.
LEMMA SoundAnew ==
  ASSUME generation' \in DOMAIN LoadedData, \A p \in Task : fitting'[p].stage = "idle",
         fitting' = [p \in Task |-> fitting'[p]], negatives' = [made |-> FALSE, filled |-> {}], raced' = FALSE
  PROVE  FitsAreSound'
  BY DEF FitsAreSound, NegativesAreMade, Goes

\* A search that is left alone.
LEMMA SearchStays ==
  ASSUME SearchIsSound, study' = study, IsModel(served'.model), searcher'.model # Missing => IsModel(searcher'.model)
  PROVE  SearchIsSound'
  BY DEF SearchIsSound, SearchKeepsBest, Known

LEMMA Trial ==
  ASSUME FitIInv, TrialEnds
  PROVE  SearchIsSound'
<1> DEFINE f == fitting["search"]
           score == f.best.score
           x == [params |-> f.model.params, score |-> score]
           better == Beats(score, study.best)
           b == IF better THEN WithScore(f.model, score) ELSE study.best
           t == Append(study.trials, x)
<1>1. /\ study' = [study EXCEPT !.trials = t, !.best = b]
      /\ served' = served /\ searcher' = searcher /\ f.stage = "done"
  BY DEF TrialEnds, Step, modelVars
<1>2. /\ study = [kinds |-> study.kinds, trials |-> study.trials, best |-> study.best]
      /\ IsSequence(study.trials) /\ Known(study.best) /\ SearchKeepsBest
      /\ study.best # Missing => study.best.score.value \in Nat
      /\ \A k \in DOMAIN study.trials : study.trials[k].score.value \in Nat
  BY DEF FitIInv, SearchIsSound
<1>3. study'.trials = t /\ study'.best = b /\ study'.kinds = study.kinds
      /\ study' = [kinds |-> study'.kinds, trials |-> study'.trials, best |-> study'.best]
  BY <1>1, <1>2
<1>4. IsModel(f.model) /\ score.value \in Nat
  BY <1>1 DEF FitIInv, FitsAreSound, Goes, Task, Sound, BestIsLogged
<1>5. x.params = f.model.params /\ x.score = score
  OBVIOUS
<1> DEFINE S == ToSet(study.trials) \cup {x}
<1>6. study.trials \in Seq(S) /\ x \in S
  BY <1>2 DEF IsSequence
<1>s. S = ToSet(study.trials) \cup {x}
  OBVIOUS
<1>b. b = IF better THEN WithScore(f.model, score) ELSE study.best
  OBVIOUS
<1>m. better <=> IF study.best = Missing THEN score.value > 0 \/ family = "click"
          ELSE score.value > study.best.score.value
  BY DEF Beats
<1>7. /\ t \in Seq(S) /\ Len(t) = Len(study.trials) + 1
      /\ \A i \in 1 .. Len(study.trials) : t[i] = study.trials[i]
      /\ t[Len(study.trials) + 1] = x
  <2> HIDE DEF S, x
  <2> QED
    BY <1>6, AppendProperties
<1> HIDE DEF S, x, t, b, better, f
<1>8. /\ DOMAIN t = 1 .. Len(t) /\ DOMAIN study.trials = 1 .. Len(study.trials) /\ Len(study.trials) \in Nat
      /\ t \in [1 .. Len(t) -> S]
  BY <1>6, <1>7, LenProperties
<1>9. /\ ToSet(t) = S
      /\ IsSequence(t)
  <2>1. \A y \in ToSet(study.trials) : \E i \in 1 .. Len(study.trials) : study.trials[i] = y
    BY <1>8 DEF ToSet
  <2>2. ToSet(t) = S
    <3>1. \A i \in 1 .. Len(t) : t[i] \in S
      BY <1>8
    <3>2. x \in ToSet(t)
      BY <1>7, <1>8 DEF ToSet
    <3>3. \A y \in ToSet(study.trials) : y \in ToSet(t)
      <4> SUFFICES ASSUME NEW y \in ToSet(study.trials) PROVE y \in ToSet(t)
        OBVIOUS
      <4>1. PICK i \in 1 .. Len(study.trials) : study.trials[i] = y
        BY <2>1
      <4>2. t[i] = y /\ i \in DOMAIN t
        BY <4>1, <1>7, <1>8
      <4> QED
        BY <4>2 DEF ToSet
    <3>4. ToSet(t) \subseteq S
      BY <3>1, <1>8 DEF ToSet
    <3> QED
      BY <3>2, <3>3, <3>4, <1>s
  <2> QED
    BY <1>7, <2>2 DEF IsSequence
<1>10. \A k \in DOMAIN t : t[k].score.value \in Nat
  BY <1>2, <1>4, <1>5, <1>7, <1>8
<1>11. CASE better
  <2>1. b = [model |-> f.model, score |-> score]
    BY <1>b, <1>11 DEF WithScore
  <2>2. b.model = f.model /\ b.score = score /\ b # Missing
    <3>1. "model" \in DOMAIN b /\ "model" \notin DOMAIN Missing
      BY <2>1 DEF Missing
    <3> QED
      BY <2>1, <3>1
  <2>3. Known(b)
    BY <1>4, <2>1, <2>2 DEF Known, WithScore
  <2>4. [params |-> b.model.params, score |-> b.score] \in ToSet(t)
    BY <1>9, <1>s, <2>2 DEF x
  <2>5. ASSUME NEW k \in DOMAIN t PROVE t[k].score.value <= score.value
    <3>1. CASE k = Len(study.trials) + 1
      BY <3>1, <1>4, <1>5, <1>7
    <3>2. CASE k \in DOMAIN study.trials
      <4>1. t[k] = study.trials[k] /\ study.trials[k].score.value \in Nat
            /\ study.trials[k].score.value <= IF study.best = Missing THEN 0 ELSE study.best.score.value
        BY <3>2, <1>2, <1>7, <1>8 DEF SearchKeepsBest
      <4>2. CASE study.best = Missing
        BY <4>1, <4>2, <1>4
      <4>3. CASE study.best # Missing
        BY <4>1, <4>3, <1>2, <1>4, <1>11, <1>m
      <4> QED
        BY <4>2, <4>3
    <3> QED
      BY <3>1, <3>2, <1>7, <1>8
  <2>6. SearchKeepsBest'
    BY <1>3, <2>2, <2>4, <2>5 DEF SearchKeepsBest
  <2> QED
    BY <1>1, <1>3, <1>4, <1>9, <1>10, <2>2, <2>3, <2>6 DEF SearchIsSound, FitIInv
<1>12. CASE ~better
  <2>1. b = study.best
    BY <1>b, <1>12
  <2>2. score.value <= IF study.best = Missing THEN 0 ELSE study.best.score.value
    BY <1>2, <1>4, <1>12, <1>m
  <2>3. \A k \in DOMAIN t : t[k].score.value <= IF study.best = Missing THEN 0 ELSE study.best.score.value
    BY <1>2, <1>5, <1>7, <1>8, <2>2 DEF SearchKeepsBest
  <2>4. SearchKeepsBest'
    BY <1>2, <1>3, <1>9, <1>s, <2>1, <2>3 DEF SearchKeepsBest
  <2> QED
    BY <1>1, <1>2, <1>3, <1>9, <1>10, <2>1, <2>4 DEF SearchIsSound, FitIInv
<1> QED
  BY <1>11, <1>12

\* A step of a task.
LEMMA FitSteps == FitIInv /\ [ModelFitNext]_fitVars => FitIInv'
<1> SUFFICES ASSUME FitIInv, [ModelFitNext]_fitVars PROVE FitIInv'
  OBVIOUS
<1>i. FitsAreSound /\ SearchIsSound
  BY DEF FitIInv
<1>m. IsModel(served.model) /\ (searcher.model # Missing => IsModel(searcher.model))
  BY <1>i DEF SearchIsSound
<1>t. "fit" \in Task /\ "search" \in Task
  BY DEF Task
<1>w. \A m, score : WithScore(m, score).model = m
  BY DEF WithScore
<1>1. CASE FitTaskBegins
  <2>1. /\ UNCHANGED <<generation, negativeVars, searchTaskVars>> /\ TakesBetter
        /\ Step("fit", "idle", Fits(served'.model))
    BY <1>1 DEF FitTaskBegins
  <2>2. IsModel(served'.model)
    BY <1>i, <2>1, TakesModel
  <2>3. FitsAreSound'
    BY <1>i, <1>t, <2>1, <2>2, SoundBegins
  <2> QED
    BY <1>i, <1>m, <2>1, <2>2, <2>3, SearchStays DEF FitIInv, searchTaskVars
<1>2. CASE FitTaskSkips
  <2>1. UNCHANGED <<generation, negativeVars, fitting, searchTaskVars>> /\ TakesBetter
    BY <1>2 DEF FitTaskSkips
  <2>2. IsModel(served'.model)
    BY <1>i, <2>1, TakesModel
  <2>3. FitsAreSound'
    BY <1>i, <2>1 DEF FitsAreSound, NegativesAreMade, AllFilled, data, negativeVars, Goes
  <2> QED
    BY <1>i, <1>m, <2>1, <2>2, <2>3, SearchStays DEF FitIInv, searchTaskVars
<1>3. CASE FitTaskEnds
  <2>1. /\ UNCHANGED <<generation, negativeVars, searchTaskVars>> /\ Step("fit", "done", NoFit)
        /\ served' = WithScore(fitting["fit"].model, fitting["fit"].best.score)
    BY <1>3 DEF FitTaskEnds
  <2>2. IsModel(served'.model)
    BY <1>i, <1>t, <1>w, <2>1 DEF FitsAreSound, Goes, Step, Sound
  <2>3. FitsAreSound'
    BY <1>i, <1>t, <2>1, SoundEnds
  <2> QED
    BY <1>i, <1>m, <2>1, <2>2, <2>3, SearchStays DEF FitIInv, searchTaskVars
<1>4. CASE SearchTaskBegins
  <2>1. UNCHANGED <<generation, negativeVars, fitting, modelVars, searcher>> /\ study' = SearchOf(Kinds)
    BY <1>4 DEF SearchTaskBegins
  <2>2. FitsAreSound'
    BY <1>i, <2>1 DEF FitsAreSound, NegativesAreMade, AllFilled, data, negativeVars, Goes
  <2> QED
    BY <1>m, <2>1, <2>2, SearchAnew DEF FitIInv, modelVars
<1>5. CASE TrialBegins
  <2>1. /\ UNCHANGED <<generation, negativeVars, modelVars, searchTaskVars>>
        /\ \E kind, params : Step("search", "idle", Fits(NewModel(kind, params)))
    BY <1>5 DEF TrialBegins
  <2>2. PICK kind, params : Step("search", "idle", Fits(NewModel(kind, params)))
    BY <2>1
  <2>3. IsModel(NewModel(kind, params))
    BY DEF IsModel, NewModel
  <2>4. FitsAreSound'
    BY <1>i, <1>t, <2>1, <2>2, <2>3, SoundBegins
  <2> QED
    BY <1>i, <1>m, <2>1, <2>4, SearchStays DEF FitIInv, searchTaskVars, modelVars
<1>6. CASE TrialEnds
  <2>1. UNCHANGED <<generation, negativeVars>> /\ Step("search", "done", NoFit)
    BY <1>6 DEF TrialEnds
  <2> QED
    BY <1>6, <1>i, <1>t, <2>1, SoundEnds, Trial DEF FitIInv
<1>b. BestKnown.model # Missing => IsModel(BestKnown.model)
  <2>1. NoneKnown.model = Missing
    BY DEF NoneKnown
  <2>2. study.best # Missing => IsModel(study.best.model)
    BY <1>i DEF SearchIsSound, Known
  <2> QED
    BY <1>m, <2>1, <2>2 DEF BestKnown
<1>7. CASE KindEnds
  <2>1. UNCHANGED <<generation, negativeVars, fitting, modelVars>> /\ study' = SearchOf(Tail(study.kinds))
            /\ searcher' = BestKnown
    BY <1>7 DEF KindEnds
  <2>2. FitsAreSound'
    BY <1>i, <2>1 DEF FitsAreSound, NegativesAreMade, AllFilled, data, negativeVars, Goes
  <2>3. searcher'.model # Missing => IsModel(searcher'.model)
    BY <1>b, <2>1
  <2> QED
    BY <1>m, <2>1, <2>2, <2>3, SearchAnew DEF FitIInv, modelVars
<1>8. CASE SearchTaskEnds
  <2>1. UNCHANGED <<generation, negativeVars, fitting, modelVars>> /\ study' = SearchOf(<<>>) /\ searcher' = BestKnown
    BY <1>8 DEF SearchTaskEnds, NoSearch
  <2>2. FitsAreSound'
    BY <1>i, <2>1 DEF FitsAreSound, NegativesAreMade, AllFilled, data, negativeVars, Goes
  <2>3. searcher'.model # Missing => IsModel(searcher'.model)
    BY <1>b, <2>1
  <2> QED
    BY <1>m, <2>1, <2>2, <2>3, SearchAnew DEF FitIInv, modelVars
<1>f. \A p \in Task : fitting'[p] = NoFit => fitting'[p].stage = "idle"
  BY DEF NoFit
<1>9. CASE SearchPanics
  <2>1. /\ generation' = generation /\ study' = SearchOf(<<>>) /\ searcher' = NoneKnown
        /\ negatives' = [made |-> FALSE, filled |-> {}] /\ raced' = FALSE /\ fitting' = [p \in Task |-> NoFit]
        /\ served' = FirstServed \/ served' = WithScore(Unmarshaled(saved.stream), saved.score)
    BY <1>9 DEF SearchPanics, NoSearch
  <2>2. fitting' = [p \in Task |-> fitting'[p]] /\ \A p \in Task : fitting'[p].stage = "idle"
    BY <1>f, <2>1
  <2>3. FitsAreSound'
    BY <1>i, <2>1, <2>2, SoundAnew DEF FitsAreSound
  <2>4. IsModel(FirstServed.model)
    BY <1>w DEF FirstServed, NewModel, IsModel
  <2>5. IsModel(served'.model) /\ searcher'.model = Missing
    BY <1>w, <2>1, <2>4, ReceivedIsModel DEF NoneKnown
  <2> QED
    BY <2>1, <2>3, <2>5, SearchAnew DEF FitIInv
<1>10. CASE LoadsData
  <2>1. /\ generation' = generation + 1 /\ generation < Len(LoadedData)
        /\ UNCHANGED <<fitting, modelVars, searchTaskVars>> /\ \A p \in Task : fitting[p].stage = "idle"
        /\ negatives' = [made |-> FALSE, filled |-> {}] /\ raced' = FALSE
    BY <1>10 DEF LoadsData
  <2>2. generation' \in DOMAIN LoadedData
    BY <1>i, <2>1, ModelFitAssumption DEF FitsAreSound
  <2>3. FitsAreSound'
    BY <1>i, <2>1, <2>2, SoundAnew DEF FitsAreSound
  <2> QED
    BY <1>i, <1>m, <2>1, <2>3, SearchStays DEF FitIInv, searchTaskVars, modelVars
<1>11. ASSUME NEW p \in Task, FitGoesOn(p) PROVE FitIInv'
  <2>1. UNCHANGED <<modelVars, searchTaskVars>>
    BY <1>11 DEF FitGoesOn, LooksForNegatives, MakesNegatives, SamplesNegatives, EvaluatesRanking, Classifies,
           Diverges,
       Trains, DrawsUser, DrawsNegative, Restores, FitOnly
  <2> QED
    BY <1>11, <1>i, <1>m, <2>1, SoundGoesOn, SearchStays DEF FitIInv, searchTaskVars, modelVars
<1>12. CASE UNCHANGED fitVars
  <2>1. UNCHANGED <<generation, negativeVars, fitting, modelVars, searchTaskVars>>
    BY <1>12 DEF fitVars
  <2>2. FitsAreSound'
    BY <1>i, <2>1 DEF FitsAreSound, NegativesAreMade, AllFilled, data, negativeVars, Goes
  <2> QED
    BY <1>i, <1>m, <2>1, <2>2, SearchStays DEF FitIInv, searchTaskVars, modelVars
<1> QED
  BY <1>1, <1>2, <1>3, <1>4, <1>5, <1>6, <1>7, <1>8, <1>9, <1>10, <1>11, <1>12 DEF ModelFitNext

LEMMA FitKept == FitIInv => BestIsKept
<1> SUFFICES ASSUME FitIInv PROVE BestIsKept
  OBVIOUS
<1>1. ASSUME NEW p \in Task, fitting[p].stage = "done"
      PROVE  LET f == fitting[p] IN
               /\ <<f.model.weights, f.best.score>> \in f.log
               /\ \A entry \in f.log : entry[2].value <= f.best.score.value
               /\ f.fair \/ raced
  <2>1. Sound(fitting[p]) /\ (fitting[p].fair \/ raced)
    BY <1>1 DEF FitIInv, FitsAreSound, Goes
  <2>2. fitting[p].best.none = FALSE /\ fitting[p].model.weights = fitting[p].best.weights
    BY <1>1, <2>1 DEF Sound, BestIsLogged
  <2> QED
    BY <2>1, <2>2 DEF Sound, BestIsLogged
<1> QED
  BY <1>1 DEF BestIsKept, FitKeepsBest, FitIInv, SearchIsSound

\* For any data, grids, epochs and scores: a fit ends with the weights of the
\* best rating it has logged, rated with all negative samples unless the other
\* task has come between while they were made; and a search has kept the best of
\* its trials, whatever was fitted after it (ranking/model.go 439-497,
\* click/model.go 310-459, ranking/search.go 95-137, ranking/data.go 181-200).
THEOREM BestOfFitsIsKept == ModelFitSpec => []BestIsKept
<1>1. ModelFitInit => FitIInv
  BY FirstSound
<1>2. FitIInv /\ [ModelFitNext]_fitVars => FitIInv'
  BY FitSteps
<1>3. FitIInv => BestIsKept
  BY FitKept
<1> QED
  BY <1>1, <1>2, <1>3, PTL DEF ModelFitSpec

=============================================================================
