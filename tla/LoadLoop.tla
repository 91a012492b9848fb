------------------------------ MODULE LoadLoop ------------------------------
(***************************************************************************)
(* What makes the master load its data again: RunPrivilegedTasksLoop of    *)
(* master/master.go waits for the fit ticker and for imports.  An import   *)
(* (master/rest.go) sets DataImported in the cache store; a goroutine      *)
(* polls it, clears it and signals importedChan, a condition channel.      *)
(*                                                                         *)
(* The locks a load waits for are those of MasterTraining and left out, as *)
(* are the tasks that follow it.                                           *)
(***************************************************************************)
EXTENDS Naturals

CONSTANTS
  MaxChanges,   \* bound: changes of the data store
  MaxFailures   \* bound: failed calls to the stores

VARIABLES
  changes,    \* data store: changes made so far
  hasItems,   \* data store: it has items
  importing,  \* changes of imports that have not notified yet
  notified,   \* history: the last change an import has notified of
  flag,       \* cache store: DataImported
  poller,     \* the goroutine that polls it, see PollerStep
  signalled,  \* importedChan holds signals
  loop,       \* RunPrivilegedTasksLoop, see LoopStep
  reading,    \* a load reads all changes up to this one
  loaded,     \* ... and this one has been loaded
  searching,  \* RunRagtagTasksLoop has its first signal
  failures    \* counter for the bound

storeVars == <<changes, hasItems, importing, notified>>
pollVars == <<flag, poller>>
loopVars == <<loop, reading, loaded, searching>>
vars == <<storeVars, pollVars, signalled, loopVars, failures>>

PollerStep == {"poll", "clear", "signal"}

\* failed: waits as well, after a load that failed.
\* stopped: a panic has ended the loop.
LoopStep == {"wait", "failed", "items", "rest", "stopped"}

LoadInit ==
  /\ changes = 0
  /\ hasItems \in BOOLEAN
  /\ importing = {}
  /\ notified = 0
  /\ flag = FALSE
  /\ poller = "signal"
  /\ signalled = FALSE
  /\ loop = "wait"
  /\ reading = 0
  /\ loaded = 0
  /\ searching = FALSE
  /\ failures = 0

Fails == failures < MaxFailures /\ failures' = failures + 1

----------------------------------------------------------------------------
(* Requests *)

Changes ==
  /\ changes < MaxChanges
  /\ changes' = changes + 1

\* Users, items or feedback are imported; only items make the store non-empty.
Imports ==
  /\ Changes
  /\ hasItems' \in {hasItems, TRUE}
  /\ importing' = importing \cup {changes'}
  /\ UNCHANGED <<notified, pollVars, signalled, loopVars, failures>>

\* notifyDataImported; that Set has failed is logged only.
Notifies(change) ==
  /\ change \in importing
  /\ importing' = importing \ {change}
  /\ \/ /\ flag' = TRUE
        /\ notified' = IF change > notified THEN change ELSE notified
        /\ UNCHANGED failures
     \/ /\ Fails
        /\ UNCHANGED <<flag, notified>>
  /\ UNCHANGED <<changes, hasItems, poller, signalled, loopVars>>

\* Items inserted or deleted one by one notify nobody.
Edits ==
  /\ Changes
  /\ hasItems' \in BOOLEAN
  /\ UNCHANGED <<importing, notified, pollVars, signalled, loopVars, failures>>

----------------------------------------------------------------------------
(* checkDataImported, called once a second *)

Polls ==
  /\ poller = "poll"
  /\ poller' = IF flag THEN "clear" ELSE "poll"
  /\ UNCHANGED <<storeVars, flag, signalled, loopVars, failures>>

\* Whether the flag is cleared or not, Signal follows.
Clears ==
  /\ poller = "clear"
  /\ poller' = "signal"
  /\ \/ flag' = FALSE /\ UNCHANGED failures
     \/ Fails /\ UNCHANGED flag
  /\ UNCHANGED <<storeVars, signalled, loopVars>>

\* Bug: a signal that nobody waits for is lost
SignalsWhoWaits ==
  /\ poller = "signal"
  /\ poller' = "poll"
  /\ signalled' = (signalled \/ loop \in {"wait", "failed"})
  /\ UNCHANGED <<storeVars, flag, loopVars, failures>>

\* The condition channel counts signals that nobody waits for as one.
Signals ==
  /\ poller = "signal"
  /\ poller' = "poll"
  /\ signalled' = TRUE
  /\ UNCHANGED <<storeVars, flag, loopVars, failures>>

----------------------------------------------------------------------------
(* RunPrivilegedTasksLoop *)

\* What is stored before the load begins is read.
LoadBegins ==
  /\ loop \in {"wait", "failed"}
  /\ loop' = "items"
  /\ reading' = changes
  /\ UNCHANGED <<storeVars, pollVars, loaded, searching, failures>>

TickBegins == LoadBegins /\ UNCHANGED signalled
ImportBegins == signalled /\ signalled' = FALSE /\ LoadBegins

\* Split divides by the number of items; CheckPanic recovers in the function
\* of the loop, which returns.
ReadsItems ==
  /\ loop = "items"
  /\ loop' = IF hasItems THEN "rest" ELSE "stopped"
  /\ UNCHANGED <<storeVars, pollVars, signalled, reading, loaded, searching, failures>>

LoadEnds ==
  /\ loop = "rest"
  /\ loop' = "wait"
  /\ loaded' = reading
  /\ searching' = TRUE
  /\ UNCHANGED <<storeVars, pollVars, signalled, reading, failures>>

LoadFails ==
  /\ loop \in {"items", "rest"}
  /\ Fails
  /\ loop' = "failed"
  /\ UNCHANGED <<storeVars, pollVars, signalled, reading, loaded, searching>>

----------------------------------------------------------------------------
PollNext == Polls \/ Clears \/ Signals
LoopNext == TickBegins \/ ImportBegins \/ ReadsItems \/ LoadEnds \/ LoadFails

LoadNext ==
  \/ Imports \/ Edits \/ \E change \in importing : Notifies(change)
  \/ PollNext
  \/ LoopNext

LoadSafeSpec == LoadInit /\ [][LoadNext]_vars

\* Requests that have begun end, the goroutines run and the ticker fires.
LoadSpec ==
  /\ LoadSafeSpec
  /\ WF_vars(\E change \in importing : Notifies(change))
  /\ WF_vars(PollNext)
  /\ WF_vars(LoopNext)

----------------------------------------------------------------------------
(* Properties *)

FlagsAreBoolean == {hasItems, flag, signalled, searching} \subseteq BOOLEAN

CountersInOrder ==
  /\ changes \in Nat /\ failures \in Nat
  /\ importing \subseteq 1..changes
  /\ {notified, reading, loaded} \subseteq 0..changes

\* The variables of the stores, the poller and the loop keep to their types; in
\* particular nothing is notified of or read that was not stored before.
LoadTypeOK ==
  /\ FlagsAreBoolean
  /\ CountersInOrder
  /\ poller \in PollerStep
  /\ loop \in LoopStep

\* An import that has notified is loaded, or a load will begin without waiting
\* for the ticker: the flag is up, or the poller is about to signal, or the
\* channel holds a signal, or the load under way reads the import.  That holds
\* although a notification may come between reading and clearing the flag,
\* because the signal comes after both (master.go 501-518, 339-350).
NoImportForgotten ==
  loaded < notified /\ loop \notin {"failed", "stopped"} =>
    \/ flag \/ poller \in {"clear", "signal"} \/ signalled
    \/ loop \in {"items", "rest"} /\ notified <= reading

\* What was imported is loaded at last, if only when the fit ticker fires.
ImportIsLoaded ==
  \A change \in 1..MaxChanges : (change <= notified) ~> (change <= loaded)
=============================================================================
