--------------------------- MODULE RecommendRound ---------------------------
(***************************************************************************)
(* The rounds in which a worker renews the recommendations of its users:   *)
(* Recommend of worker/worker.go, run by the goroutines of                 *)
(* parallel.Parallel, while the server inserts feedback (rest.go).         *)
(*                                                                         *)
(* A document is known by its basis, the amount of feedback its list was   *)
(* computed from.  A list is laid over the documents of earlier lists,     *)
(* which stay unless it holds the same items.  Only the order of time      *)
(* stamps matters: whether the last recommendation of a user is later than *)
(* his last modification and has not expired (newer).                      *)
(*                                                                         *)
(* Where candidates come from is the subject of Candidates.  What a search *)
(* writes to CollaborativeRecommend no round reads, and is left out; that  *)
(* it may fail is not.                                                     *)
(*                                                                         *)
(* Definitions marked "Bug:" are not part of the model; putting one in the *)
(* place of the definition after it breaks a property.                     *)
(***************************************************************************)
EXTENDS Integers, FiniteSets

CONSTANTS
  User,         \* the users consistent hashing assigns to this worker
  Job,          \* goroutines of a round
  MaxFeedback,  \* bound: feedback of a user
  MaxFailures   \* bound: failed steps

ASSUME RoundAssumption == {MaxFeedback, MaxFailures} \subseteq Nat

VARIABLES
  feedback, \* data store: amount of feedback of a user
  insert,   \* users with feedback in the data store whose time is not set yet
  active,   \* users with LastModifyUserTime
  docs,     \* bases of the documents in OfflineRecommend
  last,     \* history: basis of the last list written, NoBasis without
  newer,    \* users whose LastUpdateUserRecommendTime is later than that
            \* and has not expired
  unread,   \* jobs of the round that no goroutine has read yet
  job,      \* goroutine -> what it does
  excused,  \* history: users with feedback that no time stamp tells of
  failures  \* counter for the bound

storeVars == <<feedback, insert, active, excused>>
cacheVars == <<docs, last, newer>>
roundVars == <<unread, job>>
recommendVars == <<storeVars, cacheVars, roundVars, failures>>

NoBasis == -1
JobStep == {"begun", "loaded", "timed", "added"}
NoJob == [step |-> "off"]
ReadyJob == [step |-> "ready"]
FailedJob == [step |-> "failed"]
\* A running job is [step, user, basis, newer]; newer: the time of the
\* recommendation is later than the last modification.

Running(j) == job[j].step \in JobStep
At(j, step) == job[j].step = step
On(u) == {j \in Job : Running(j) /\ job[j].user = u}

RoundInit ==
  /\ feedback = [u \in User |-> 0]
  /\ insert = {}
  /\ active = {}
  /\ docs = [u \in User |-> {}]
  /\ last = [u \in User |-> NoBasis]
  /\ newer = {}
  /\ unread = {}
  /\ job = [j \in Job |-> NoJob]
  /\ excused = {}
  /\ failures = 0

Fails == failures < MaxFailures /\ failures' = failures + 1

----------------------------------------------------------------------------
(* insertFeedback of the server: data store first, then the time. *)

StoresFeedback(u) ==
  /\ u \notin insert
  /\ feedback[u] < MaxFeedback
  /\ feedback' = [feedback EXCEPT ![u] = @ + 1]
  /\ insert' = insert \cup {u}
  /\ excused' = IF \E j \in On(u) : At(j, "loaded")
                THEN excused \cup {u} ELSE excused
  /\ UNCHANGED <<active, cacheVars, roundVars, failures>>

\* LastModifyUserTime is now: later than any recommendation.
SetsTime(u) ==
  /\ u \in insert
  /\ insert' = insert \ {u}
  /\ active' = active \cup {u}
  /\ newer' = newer \ {u}
  /\ job' = [j \in Job |-> IF j \in On(u) THEN [job[j] EXCEPT !.newer = FALSE] ELSE job[j]]
  /\ UNCHANGED <<feedback, excused, docs, last, unread, failures>>

InsertFails(u) ==
  /\ u \in insert
  /\ Fails
  /\ insert' = insert \ {u}
  /\ excused' = excused \cup {u}
  /\ UNCHANGED <<feedback, active, cacheVars, roundVars>>

----------------------------------------------------------------------------
(* A round *)

\* Bug: the recommendations of active users do not expire
ExpiresInactive(u) ==
  /\ u \in newer \ active
  /\ newer' = newer \ {u}
  /\ UNCHANGED <<storeVars, docs, last, roundVars, failures>>

\* CacheExpire or RefreshRecommendPeriod have passed.
Expires(u) ==
  /\ u \in newer
  /\ newer' = newer \ {u}
  /\ UNCHANGED <<storeVars, docs, last, roundVars, failures>>

\* checkRecommendCacheTimeout, but for the digest.
Stale(u) ==
  \/ docs[u] = {}
  \/ u \notin active
  \/ u \notin newer

RoundBegins ==
  /\ \A j \in Job : job[j] = NoJob
  /\ unread' = User
  /\ job' = [j \in Job |-> ReadyJob]
  /\ UNCHANGED <<storeVars, cacheVars, failures>>

\* The stored digest tells of the models and neighbours that were used, and
\* may differ from the worker's at any time.
ReadsJob(j, u) ==
  /\ At(j, "ready")
  /\ u \in unread
  /\ unread' = unread \ {u}
  /\ \E differs \in BOOLEAN :
       job' = IF Stale(u) \/ differs
              THEN [job EXCEPT ![j] = [step |-> "begun", user |-> u, basis |-> 0, newer |-> FALSE]]
              ELSE job
  /\ UNCHANGED <<storeVars, cacheVars, failures>>

Loads(j) ==
  /\ At(j, "begun")
  /\ job' = [job EXCEPT ![j].step = "loaded", ![j].basis = feedback[job[j].user]]
  /\ UNCHANGED <<storeVars, cacheVars, unread, failures>>

\* Candidates are searched and ranked, and recommendTime is taken, later
\* than what the server has set so far.
Searches(j) ==
  /\ At(j, "loaded")
  /\ job' = [job EXCEPT ![j].step = "timed", ![j].newer = TRUE]
  /\ UNCHANGED <<storeVars, cacheVars, unread, failures>>

\* AddScores inserts or overwrites: earlier documents stay unless the list
\* has their items.  A list without items writes nothing.
AddsScores(j) ==
  /\ At(j, "timed")
  /\ \/ \E kept \in SUBSET docs[job[j].user] :
          docs' = [docs EXCEPT ![job[j].user] = kept \cup {job[j].basis}]
     \/ UNCHANGED docs
  /\ last' = [last EXCEPT ![job[j].user] = job[j].basis]
  /\ job' = [job EXCEPT ![j].step = "added"]
  /\ UNCHANGED <<storeVars, newer, unread, failures>>

\* Bug: the time of Set is stored instead of recommendTime
SetsNow(j) ==
  LET u == job[j].user IN
    /\ At(j, "added")
    /\ job' = [job EXCEPT ![j] = ReadyJob]
    /\ newer' = newer \cup {u}
    /\ excused' = IF job[j].basis = feedback[u] THEN excused \ {u} ELSE excused
    /\ UNCHANGED <<feedback, insert, active, docs, last, unread, failures>>

\* Set of recommendTime; a failure is logged only.
SetsRecommended(j) ==
  LET u == job[j].user IN
    /\ At(j, "added")
    /\ job' = [job EXCEPT ![j] = ReadyJob]
    /\ \/ /\ newer' = IF job[j].newer THEN newer \cup {u} ELSE newer \ {u}
          /\ excused' = IF job[j].basis = feedback[u] THEN excused \ {u} ELSE excused
          /\ UNCHANGED failures
       \/ /\ Fails
          /\ UNCHANGED <<newer, excused>>
    /\ UNCHANGED <<feedback, insert, active, docs, last, unread>>

\* The goroutine returns; the others go on.
JobFails(j) ==
  /\ job[j].step \in JobStep \ {"added"}
  /\ Fails
  /\ job' = [job EXCEPT ![j] = FailedJob]
  /\ UNCHANGED <<storeVars, cacheVars, unread>>

\* The channel of jobs is closed and read, or every goroutine has failed.
RoundEnds ==
  /\ \A j \in Job : job[j] = FailedJob \/ (job[j] = ReadyJob /\ unread = {})
  /\ unread' = {}
  /\ job' = [j \in Job |-> NoJob]
  /\ UNCHANGED <<storeVars, cacheVars, failures>>

JobRuns(j) ==
  \/ \E u \in User : ReadsJob(j, u)
  \/ Loads(j) \/ Searches(j) \/ AddsScores(j) \/ SetsRecommended(j)

----------------------------------------------------------------------------
RoundNext ==
  \/ \E u \in User : StoresFeedback(u) \/ SetsTime(u) \/ InsertFails(u) \/ Expires(u)
  \/ \E j \in Job : JobRuns(j) \/ JobFails(j)
  \/ RoundBegins \/ RoundEnds

RoundSpec == RoundInit /\ [][RoundNext]_recommendVars

\* Goroutines run, tickers fire and time passes.
FairRoundSpec ==
  /\ RoundSpec
  /\ \A u \in User : WF_recommendVars(SetsTime(u)) /\ WF_recommendVars(Expires(u))
  /\ \A j \in Job : WF_recommendVars(JobRuns(j))
  /\ WF_recommendVars(RoundBegins)
  /\ WF_recommendVars(RoundEnds)

----------------------------------------------------------------------------
(* Properties *)

\* When checkRecommendCacheTimeout says that the recommendations of a user
\* need no renewal, the last list written for him was computed from all his
\* feedback (documents of earlier lists may lie beside it), unless feedback
\* is being inserted, or arrived between loading his history and taking
\* recommendTime, or its time could not be set (worker.go 1153).
FreshKnowsFeedback ==
  \A u \in User \ (insert \cup excused) : ~Stale(u) => last[u] = feedback[u]

\* When feedback stops every user in the end has a last list computed from
\* all of it, whatever was missed or failed before (cache expiry, worker.go
\* 1197); that no earlier document stays beside it is not so.
RecommendationsCatchUp == \A u \in User : <>[](last[u] = feedback[u])
=============================================================================
