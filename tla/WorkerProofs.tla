---------------------------- MODULE WorkerProofs ----------------------------
(***************************************************************************)
(* What holds of the rounds of a worker (RecommendRound), for any number   *)
(* of users and goroutines, and of what a goroutine caches for its user    *)
(* (Candidates), for any settings, stores and models.                      *)
(***************************************************************************)
EXTENDS RecommendRound, Candidates, SequencesExt, SequenceTheorems, TLAPS

----------------------------------------------------------------------------
(* Rounds of recommendation: the inductive invariant *)

RunningJob ==
  [step : JobStep, user : User, basis : Nat, newer : BOOLEAN]

RoundTypeOK ==
  /\ feedback \in [User -> Nat]
  /\ docs \in [User -> SUBSET Nat]
  /\ last \in [User -> Nat \cup {NoBasis}]
  /\ insert \cup active \cup newer \cup unread \cup excused \subseteq User
  /\ job \in [Job -> {NoJob, ReadyJob, FailedJob} \cup RunningJob]
  /\ failures \in Nat

\* The channel of jobs hands out each user once: no two goroutines renew the
\* recommendations of one user at the same time.
OneJobPerUser ==
  /\ \A j \in Job : Running(j) => job[j].user \notin unread
  /\ \A j, k \in Job : Running(j) /\ Running(k) /\ job[j].user = job[k].user => j = k

\* What a goroutine has loaded of its user is all there is, unless it was told.
KnowsLoaded(j) ==
  At(j, "loaded") /\ job[j].user \notin excused => job[j].basis = feedback[job[j].user]
LoadedKnow == \A j \in Job : KnowsLoaded(j)

\* The same after recommendTime was taken, while no later feedback is stamped.
KnowsTimed(j) ==
  job[j].step \in {"timed", "added"} =>
    /\ job[j].newer /\ job[j].user \notin insert \cup excused => job[j].basis = feedback[job[j].user]
    /\ job[j].user \in newer => job[j].newer
    /\ job[j].step = "added" => last[job[j].user] = job[j].basis
TimedKnow == \A j \in Job : KnowsTimed(j)

\* Recommendations stamped later than the last modification know all feedback.
NewerKnow == \A u \in newer \ (insert \cup excused) : last[u] = feedback[u]

RoundIInv == RoundTypeOK /\ OneJobPerUser /\ LoadedKnow /\ TimedKnow /\ NewerKnow

----------------------------------------------------------------------------
(* Every step keeps it *)

\* Steps that leave the jobs and what they hold alone.
LEMMA JobState ==
  ASSUME RoundTypeOK, NEW j \in Job
  PROVE  /\ job[j] \in {NoJob, ReadyJob, FailedJob} \cup RunningJob
         /\ Running(j) => /\ job[j] \in RunningJob /\ job[j].step \in JobStep
                          /\ job[j].user \in User /\ job[j].basis \in Nat
         /\ At(j, "loaded") => Running(j)
         /\ job[j].step \in {"timed", "added"} => Running(j)
BY DEF RoundTypeOK, Running, At, RunningJob, JobStep, NoJob, ReadyJob, FailedJob

LEMMA RoundInitInv == RoundInit => RoundIInv
<1> SUFFICES ASSUME RoundInit PROVE RoundIInv
  OBVIOUS
<1>1. RoundTypeOK
  BY DEF RoundInit, RoundTypeOK, NoJob
<1>2. OneJobPerUser /\ LoadedKnow /\ TimedKnow /\ NewerKnow
  BY DEF RoundInit, OneJobPerUser, LoadedKnow, KnowsLoaded, TimedKnow, KnowsTimed, NewerKnow,
         Running, At, NoJob, JobStep
<1> QED
  BY <1>1, <1>2 DEF RoundIInv

LEMMA StoresFeedbackInv ==
  ASSUME RoundIInv, NEW u \in User, StoresFeedback(u)
  PROVE  RoundIInv'
<1> USE DEF RoundIInv, StoresFeedback, cacheVars, roundVars
<1>1. RoundTypeOK'
  BY DEF RoundTypeOK
<1>2. OneJobPerUser'
  BY DEF OneJobPerUser, Running
<1>3. \A v \in User : v # u => feedback'[v] = feedback[v] /\ (v \in insert' <=> v \in insert)
                               /\ (v \in excused' <=> v \in excused)
  BY DEF RoundTypeOK
<1>4. LoadedKnow'
  <2> SUFFICES ASSUME NEW j \in Job, At(j, "loaded"), job[j].user \notin excused'
               PROVE  job[j].basis = feedback'[job[j].user]
    BY DEF LoadedKnow, KnowsLoaded, At
  <2>1. Running(j) /\ job[j].user \in User
    BY JobState
  <2>2. CASE job[j].user = u
    BY <2>1, <2>2 DEF On
  <2>3. CASE job[j].user # u
    BY <1>3, <2>1, <2>3 DEF LoadedKnow, KnowsLoaded
  <2> QED
    BY <2>2, <2>3
<1>5. TimedKnow'
  <2> SUFFICES ASSUME NEW j \in Job, job[j].step \in {"timed", "added"}
               PROVE  /\ job[j].newer /\ job[j].user \notin insert' \cup excused'
                           => job[j].basis = feedback'[job[j].user]
                      /\ job[j].user \in newer => job[j].newer
                      /\ job[j].step = "added" => last[job[j].user] = job[j].basis
    BY DEF TimedKnow, KnowsTimed
  <2>1. job[j].user \in User
    BY JobState
  <2> QED
    BY <1>3, <2>1 DEF TimedKnow, KnowsTimed
<1>6. NewerKnow'
  BY <1>3 DEF NewerKnow, RoundTypeOK
<1> QED
  BY <1>1, <1>2, <1>4, <1>5, <1>6

LEMMA SetsTimeInv ==
  ASSUME RoundIInv, NEW u \in User, SetsTime(u)
  PROVE  RoundIInv'
<1> USE DEF RoundIInv, SetsTime
<1>1. ASSUME NEW j \in Job
      PROVE  /\ job'[j] \in {NoJob, ReadyJob, FailedJob} \cup RunningJob
             /\ ~Running(j) => job'[j] = job[j]
             /\ job'[j].step = job[j].step
             /\ Running(j) => /\ job'[j].user = job[j].user /\ job'[j].basis = job[j].basis
                              /\ job[j].user = u => job'[j].newer = FALSE
                              /\ job[j].user # u => job'[j] = job[j]
  <2>1. job'[j] = IF j \in On(u) THEN [job[j] EXCEPT !.newer = FALSE] ELSE job[j]
    OBVIOUS
  <2>2. CASE j \in On(u)
    <3>1. job[j] \in RunningJob /\ Running(j) /\ job[j].user = u
      BY <2>2, JobState DEF On
    <3> QED
      BY <2>1, <2>2, <3>1 DEF RunningJob
  <2>3. CASE j \notin On(u)
    BY <2>1, <2>3, JobState DEF On
  <2> QED
    BY <2>2, <2>3
<1>2. RoundTypeOK'
  <2>1. job' \in [Job -> {NoJob, ReadyJob, FailedJob} \cup RunningJob]
    BY <1>1
  <2> QED
    BY <2>1 DEF RoundTypeOK
<1>3. OneJobPerUser'
  BY <1>1 DEF OneJobPerUser, Running
<1>4. LoadedKnow'
  BY <1>1, JobState DEF LoadedKnow, KnowsLoaded, At
<1>5. TimedKnow'
  <2> SUFFICES ASSUME NEW j \in Job, job'[j].step \in {"timed", "added"}
               PROVE  /\ job'[j].newer /\ job'[j].user \notin insert' \cup excused
                           => job'[j].basis = feedback[job'[j].user]
                      /\ job'[j].user \in newer' => job'[j].newer
                      /\ job'[j].step = "added" => last[job'[j].user] = job'[j].basis
    BY DEF TimedKnow, KnowsTimed
  <2>1. Running(j) /\ job[j].step \in {"timed", "added"} /\ job[j].user \in User
    BY <1>1, JobState
  <2>2. CASE job[j].user = u
    <3>1. job'[j].newer = FALSE /\ job'[j].user = u /\ u \notin newer'
      BY <1>1, <2>1, <2>2
    <3>2. job'[j].step = "added" => last[job'[j].user] = job'[j].basis
      BY <1>1, <2>1, <2>2 DEF TimedKnow, KnowsTimed
    <3> QED
      BY <3>1, <3>2, Zenon
  <2>3. CASE job[j].user # u
    <3>1. job'[j] = job[j]
      BY <1>1, <2>1, <2>3
    <3>2. (job[j].user \in newer' => job[j].user \in newer)
          /\ (job[j].user \notin insert' \cup excused' => job[j].user \notin insert \cup excused)
      BY <2>3
    <3> QED
      BY <2>1, <3>1, <3>2, Zenon DEF TimedKnow, KnowsTimed
  <2> QED
    BY <2>2, <2>3
<1>6. NewerKnow'
  BY DEF NewerKnow
<1> QED
  BY <1>2, <1>3, <1>4, <1>5, <1>6

LEMMA RequestEndsInv ==
  ASSUME RoundIInv, NEW u \in User, InsertFails(u) \/ Expires(u)
  PROVE  RoundIInv'
<1> USE DEF RoundIInv, InsertFails, Expires, Fails, storeVars, cacheVars, roundVars
<1>1. RoundTypeOK'
  BY DEF RoundTypeOK
<1>2. OneJobPerUser' /\ LoadedKnow' /\ TimedKnow' /\ NewerKnow'
  BY DEF OneJobPerUser, LoadedKnow, KnowsLoaded, TimedKnow, KnowsTimed, NewerKnow, Running, At
<1> QED
  BY <1>1, <1>2

\* A goroutine that keeps its step and its user knows what it knew if nothing
\* was done about that user.
LEMMA OthersKnow ==
  ASSUME RoundIInv, NEW k \in Job, job'[k].step = job[k].step,
         Running(k) => /\ job'[k].user = job[k].user /\ job'[k].basis = job[k].basis
                       /\ job'[k].newer = job[k].newer
                       /\ last'[job[k].user] = last[job[k].user]
                       /\ feedback'[job[k].user] = feedback[job[k].user]
                       /\ job[k].user \in insert' <=> job[k].user \in insert
                       /\ job[k].user \in excused' <=> job[k].user \in excused
                       /\ job[k].user \in newer' <=> job[k].user \in newer
  PROVE  KnowsLoaded(k)' /\ KnowsTimed(k)'
<1>1. KnowsLoaded(k) /\ KnowsTimed(k)
  BY DEF RoundIInv, LoadedKnow, TimedKnow
<1>2. At(k, "loaded")' => Running(k) /\ At(k, "loaded")
  BY DEF At, Running, JobStep
<1>3. job'[k].step \in {"timed", "added"} => Running(k) /\ job[k].step \in {"timed", "added"}
  BY DEF Running, JobStep
<1>4. KnowsLoaded(k)'
  BY <1>1, <1>2 DEF KnowsLoaded
<1>5. KnowsTimed(k)'
  BY <1>1, <1>3, Zenon DEF KnowsTimed
<1> QED
  BY <1>4, <1>5

\* While only the goroutines' steps change, those that keep their users are
\* still the only ones at work on them.
LEMMA OneStays ==
  ASSUME RoundIInv, unread' = unread,
         \A k \in Job : Running(k)' => Running(k) /\ job'[k].user = job[k].user
  PROVE  OneJobPerUser'
BY DEF RoundIInv, OneJobPerUser

LEMMA RoundBeginsInv ==
  ASSUME RoundIInv, RoundBegins \/ RoundEnds
  PROVE  RoundIInv'
<1> USE DEF RoundIInv, RoundBegins, RoundEnds, storeVars, cacheVars
<1>1. job' \in [Job -> {NoJob, ReadyJob}] /\ unread' \subseteq User
  BY DEF RoundTypeOK
<1>2. RoundTypeOK'
  BY <1>1 DEF RoundTypeOK
<1>3. \A j \in Job : ~Running(j)' /\ ~At(j, "loaded")' /\ job'[j].step \notin {"timed", "added"}
  BY <1>1 DEF Running, At, JobStep, NoJob, ReadyJob
<1>4. OneJobPerUser' /\ LoadedKnow' /\ TimedKnow'
  BY <1>3 DEF OneJobPerUser, LoadedKnow, KnowsLoaded, TimedKnow, KnowsTimed
<1>5. NewerKnow'
  BY DEF NewerKnow
<1> QED
  BY <1>2, <1>4, <1>5

LEMMA ReadsJobInv ==
  ASSUME RoundIInv, NEW j \in Job, NEW u \in User, ReadsJob(j, u)
  PROVE  RoundIInv'
<1> DEFINE r == [step |-> "begun", user |-> u, basis |-> 0, newer |-> FALSE]
<1> USE DEF RoundIInv, ReadsJob, storeVars, cacheVars
<1>1. r \in RunningJob
  BY DEF RunningJob, JobStep
<1>2. job' = job \/ job' = [job EXCEPT ![j] = r]
  OBVIOUS
<1>3. u \in unread /\ unread' = unread \ {u} /\ ~Running(j)
  BY DEF At, Running, JobStep
<1>4. RoundTypeOK'
  <2>1. job' \in [Job -> {NoJob, ReadyJob, FailedJob} \cup RunningJob]
    BY <1>1, <1>2 DEF RoundTypeOK
  <2> QED
    BY <2>1 DEF RoundTypeOK
<1>5. job \in [Job -> {NoJob, ReadyJob, FailedJob} \cup RunningJob]
  BY DEF RoundTypeOK
<1>6. CASE job' = job
  <2>1. OneJobPerUser'
    BY <1>3, <1>6 DEF OneJobPerUser, Running
  <2>2. LoadedKnow' /\ TimedKnow' /\ NewerKnow'
    BY <1>6 DEF LoadedKnow, KnowsLoaded, TimedKnow, KnowsTimed, NewerKnow, At
  <2> QED
    BY <1>4, <2>1, <2>2
<1>7. CASE job' = [job EXCEPT ![j] = r]
  <2>1. job'[j] = r /\ \A k \in Job \ {j} : job'[k] = job[k]
    BY <1>5, <1>7
  <2>2. OneJobPerUser'
    BY <1>3, <2>1 DEF OneJobPerUser, Running
  <2>3. KnowsLoaded(j)' /\ KnowsTimed(j)'
    BY <2>1 DEF KnowsLoaded, KnowsTimed, At
  <2>4. \A k \in Job \ {j} : KnowsLoaded(k)' /\ KnowsTimed(k)'
    BY <2>1, OthersKnow
  <2>5. LoadedKnow' /\ TimedKnow'
    BY <2>3, <2>4 DEF LoadedKnow, TimedKnow
  <2>6. NewerKnow'
    BY DEF NewerKnow
  <2> QED
    BY <1>4, <2>2, <2>5, <2>6
<1> QED
  BY <1>2, <1>6, <1>7

LEMMA LoadsInv ==
  ASSUME RoundIInv, NEW j \in Job, Loads(j)
  PROVE  RoundIInv'
<1> USE DEF RoundIInv, Loads, storeVars, cacheVars
<1>1. job[j] \in RunningJob /\ Running(j) /\ job[j].user \in User /\ job[j].step = "begun"
  <2>1. Running(j)
    BY DEF At, Running, JobStep
  <2> QED
    BY <2>1, JobState DEF At
<1>2. job'[j] = [job[j] EXCEPT !.step = "loaded", !.basis = feedback[job[j].user]]
      /\ \A k \in Job \ {j} : job'[k] = job[k]
  BY DEF RoundTypeOK
<1>3. job'[j] \in RunningJob /\ job'[j].step = "loaded" /\ job'[j].user = job[j].user
      /\ job'[j].basis = feedback[job[j].user]
  BY <1>1, <1>2 DEF RunningJob, RoundTypeOK, JobStep
<1>4. RoundTypeOK'
  <2>1. job' \in [Job -> {NoJob, ReadyJob, FailedJob} \cup RunningJob]
    BY <1>2, <1>3 DEF RoundTypeOK
  <2> QED
    BY <2>1 DEF RoundTypeOK
<1>5. OneJobPerUser'
  BY <1>1, <1>2, <1>3, OneStays DEF Running
<1>6. KnowsLoaded(j)' /\ KnowsTimed(j)'
  BY <1>3 DEF KnowsLoaded, KnowsTimed
<1>7. \A k \in Job \ {j} : KnowsLoaded(k)' /\ KnowsTimed(k)'
  BY <1>2, OthersKnow
<1>8. NewerKnow'
  BY DEF NewerKnow
<1> QED
  BY <1>4, <1>5, <1>6, <1>7, <1>8 DEF LoadedKnow, TimedKnow

LEMMA SearchesInv ==
  ASSUME RoundIInv, NEW j \in Job, Searches(j)
  PROVE  RoundIInv'
<1> USE DEF RoundIInv, Searches, storeVars, cacheVars
<1>1. job[j] \in RunningJob /\ Running(j) /\ job[j].user \in User /\ job[j].step = "loaded"
  <2>1. Running(j)
    BY DEF At, Running, JobStep
  <2> QED
    BY <2>1, JobState DEF At
<1>2. job'[j] = [job[j] EXCEPT !.step = "timed", !.newer = TRUE]
      /\ \A k \in Job \ {j} : job'[k] = job[k]
  BY DEF RoundTypeOK
<1>3. job'[j] \in RunningJob /\ job'[j].step = "timed" /\ job'[j].user = job[j].user
      /\ job'[j].basis = job[j].basis /\ job'[j].newer = TRUE
  <2>1. /\ job'[j] = [job[j] EXCEPT !.step = "timed", !.newer = TRUE]
        /\ job[j] \in RunningJob
    BY <1>1, <1>2
  <2> HIDE DEF RoundIInv, Searches, storeVars, cacheVars
  <2>2. job'[j] \in RunningJob
    BY <2>1 DEF RunningJob, JobStep
  <2>3. job'[j].step = "timed" /\ job'[j].user = job[j].user /\ job'[j].basis = job[j].basis
    BY <2>1 DEF RunningJob
  <2>4. job'[j].newer = TRUE
    BY <2>1 DEF RunningJob
  <2> QED
    BY <2>2, <2>3, <2>4
<1>4. RoundTypeOK'
  <2>1. job' \in [Job -> {NoJob, ReadyJob, FailedJob} \cup RunningJob]
    BY <1>2, <1>3 DEF RoundTypeOK
  <2> QED
    BY <2>1 DEF RoundTypeOK
<1>5. OneJobPerUser'
  BY <1>1, <1>2, <1>3, OneStays DEF Running
<1>6. KnowsLoaded(j)' /\ KnowsTimed(j)'
  <2>1. job[j].user \notin excused => job[j].basis = feedback[job[j].user]
    BY <1>1 DEF LoadedKnow, KnowsLoaded, At
  <2> QED
    BY <1>3, <2>1 DEF KnowsLoaded, KnowsTimed, At
<1>7. \A k \in Job \ {j} : KnowsLoaded(k)' /\ KnowsTimed(k)'
  BY <1>2, OthersKnow
<1>8. NewerKnow'
  BY DEF NewerKnow
<1> QED
  BY <1>4, <1>5, <1>6, <1>7, <1>8 DEF LoadedKnow, TimedKnow

LEMMA AddsScoresInv ==
  ASSUME RoundIInv, NEW j \in Job, AddsScores(j)
  PROVE  RoundIInv'
<1> USE DEF RoundIInv, AddsScores, storeVars
<1>1. job[j] \in RunningJob /\ Running(j) /\ job[j].user \in User /\ job[j].step = "timed"
      /\ job[j].basis \in Nat
  <2>1. Running(j)
    BY DEF At, Running, JobStep
  <2> QED
    BY <2>1, JobState DEF At
<1>2. job'[j] = [job[j] EXCEPT !.step = "added"] /\ \A k \in Job \ {j} : job'[k] = job[k]
  BY DEF RoundTypeOK
<1>3. job'[j] \in RunningJob /\ job'[j].step = "added" /\ job'[j].user = job[j].user
      /\ job'[j].basis = job[j].basis /\ job'[j].newer = job[j].newer
  BY <1>1, <1>2 DEF RunningJob, JobStep
<1>4. /\ last'[job[j].user] = job[j].basis /\ \A u \in User \ {job[j].user} : last'[u] = last[u]
      /\ last' \in [User -> Nat \cup {NoBasis}]
  BY <1>1 DEF RoundTypeOK
<1>a. docs' \in [User -> SUBSET Nat]
  <2>1. docs[job[j].user] \subseteq Nat
    BY <1>1 DEF RoundTypeOK
  <2> QED
    BY <1>1, <2>1 DEF RoundTypeOK
<1>5. RoundTypeOK'
  <2>1. job' \in [Job -> {NoJob, ReadyJob, FailedJob} \cup RunningJob]
    BY <1>2, <1>3 DEF RoundTypeOK
  <2> QED
    BY <1>1, <1>4, <1>a, <2>1 DEF RoundTypeOK
<1>6. OneJobPerUser'
  BY <1>1, <1>2, <1>3, OneStays DEF Running
<1>7. KnowsLoaded(j)'
  BY <1>3 DEF KnowsLoaded, At
<1>8. /\ job[j].newer /\ job[j].user \notin insert \cup excused
           => job[j].basis = feedback[job[j].user]
      /\ job[j].user \in newer => job[j].newer
  BY <1>1 DEF TimedKnow, KnowsTimed
<1>9. KnowsTimed(j)'
  <2>1. insert' = insert /\ excused' = excused /\ newer' = newer /\ feedback' = feedback
    OBVIOUS
  <2>2. last'[job'[j].user] = job'[j].basis
    BY <1>3, <1>4
  <2>3. /\ job'[j].newer /\ job'[j].user \notin insert' \cup excused'
             => job'[j].basis = feedback'[job'[j].user]
        /\ job'[j].user \in newer' => job'[j].newer
    BY <1>3, <1>8, <2>1, Zenon
  <2> QED
    BY <2>2, <2>3, Zenon DEF KnowsTimed
<1>10. \A k \in Job \ {j} : Running(k) => job[k].user \in User \ {job[j].user}
  BY <1>1, JobState DEF OneJobPerUser
<1>11. \A k \in Job \ {j} : KnowsLoaded(k)' /\ KnowsTimed(k)'
  BY <1>2, <1>4, <1>10, OthersKnow
<1>12. NewerKnow'
  <2> SUFFICES ASSUME NEW u \in newer \ (insert \cup excused)
               PROVE  last'[u] = feedback[u]
    BY DEF NewerKnow
  <2>1. CASE u = job[j].user
    BY <1>4, <1>8, <2>1, Zenon
  <2>2. CASE u # job[j].user
    BY <1>4, <2>2 DEF NewerKnow, RoundTypeOK
  <2> QED
    BY <2>1, <2>2
<1> QED
  BY <1>5, <1>6, <1>7, <1>9, <1>11, <1>12 DEF LoadedKnow, TimedKnow

LEMMA SetsRecommendedInv ==
  ASSUME RoundIInv, NEW j \in Job, SetsRecommended(j)
  PROVE  RoundIInv'
<1> DEFINE u == job[j].user
<1> USE DEF RoundIInv
<1>1. job[j] \in RunningJob /\ Running(j) /\ u \in User /\ job[j].step = "added"
  <2>1. Running(j)
    BY DEF SetsRecommended, At, Running, JobStep
  <2> QED
    BY <2>1, JobState DEF At, SetsRecommended
<1>2. /\ job'[j] = ReadyJob
      /\ \A k \in Job \ {j} : job'[k] = job[k]
      /\ job' \in [Job -> {NoJob, ReadyJob, FailedJob} \cup RunningJob]
  BY DEF RoundTypeOK, SetsRecommended
<1>3. UNCHANGED <<feedback, insert, active, docs, last, unread>>
  BY DEF SetsRecommended
<1>4. /\ newer' \subseteq newer \cup {u} /\ newer \subseteq newer' \cup {u}
      /\ excused' \subseteq excused /\ excused \subseteq excused' \cup {u}
      /\ failures' \in Nat
  BY DEF RoundTypeOK, SetsRecommended, Fails
<1>5. RoundTypeOK'
  BY <1>1, <1>2, <1>3, <1>4 DEF RoundTypeOK
<1>6. OneJobPerUser'
  BY <1>2, <1>3, OneStays DEF Running, JobStep, ReadyJob
<1>7. KnowsLoaded(j)' /\ KnowsTimed(j)'
  BY <1>2 DEF KnowsLoaded, KnowsTimed, At, ReadyJob
<1>8. \A k \in Job \ {j} : Running(k) => job[k].user \in User \ {u}
  BY <1>1, JobState DEF OneJobPerUser
<1>9. \A k \in Job \ {j} : KnowsLoaded(k)' /\ KnowsTimed(k)'
  BY <1>2, <1>3, <1>4, <1>8, OthersKnow
<1>10. last[u] = job[j].basis
       /\ (job[j].newer /\ u \notin insert \cup excused => job[j].basis = feedback[u])
  BY <1>1 DEF TimedKnow, KnowsTimed
<1>11. NewerKnow'
  <2> SUFFICES ASSUME NEW v \in newer' \ (insert \cup excused')
               PROVE  last[v] = feedback[v]
    BY <1>3 DEF NewerKnow
  <2>1. CASE v # u
    BY <1>4, <2>1 DEF NewerKnow
  <2>2. CASE v = u /\ job[j].basis # feedback[u]
    <3>1. u \notin excused
      BY <2>2 DEF SetsRecommended
    <3>2. job[j].newer \/ u \in newer
      BY <2>2, Zenon DEF SetsRecommended
    <3>3. CASE job[j].newer
      BY <1>10, <2>2, <3>1, <3>3
    <3>4. CASE u \in newer
      BY <2>2, <3>1, <3>4 DEF NewerKnow
    <3> QED
      BY <3>2, <3>3, <3>4
  <2>3. CASE v = u /\ job[j].basis = feedback[u]
    BY <1>10, <2>3
  <2> QED
    BY <2>1, <2>2, <2>3
<1> QED
  BY <1>5, <1>6, <1>7, <1>9, <1>11 DEF LoadedKnow, TimedKnow

LEMMA JobFailsInv ==
  ASSUME RoundIInv, NEW j \in Job, JobFails(j)
  PROVE  RoundIInv'
<1> USE DEF RoundIInv, JobFails, Fails, storeVars, cacheVars
<1>1. job'[j] = FailedJob /\ \A k \in Job \ {j} : job'[k] = job[k]
  BY DEF RoundTypeOK
<1>2. RoundTypeOK'
  BY DEF RoundTypeOK
<1>3. OneJobPerUser'
  BY <1>1, OneStays DEF Running, JobStep, FailedJob
<1>4. KnowsLoaded(j)' /\ KnowsTimed(j)'
  BY <1>1 DEF KnowsLoaded, KnowsTimed, At, FailedJob
<1>5. \A k \in Job \ {j} : KnowsLoaded(k)' /\ KnowsTimed(k)'
  BY <1>1, OthersKnow
<1>6. NewerKnow'
  BY DEF NewerKnow
<1> QED
  BY <1>2, <1>3, <1>4, <1>5, <1>6 DEF LoadedKnow, TimedKnow

LEMMA RoundNextInv == RoundIInv /\ [RoundNext]_recommendVars => RoundIInv'
<1> SUFFICES ASSUME RoundIInv, [RoundNext]_recommendVars
             PROVE  RoundIInv'
  OBVIOUS
<1>1. ASSUME NEW u \in User, StoresFeedback(u) \/ SetsTime(u) \/ InsertFails(u) \/ Expires(u)
      PROVE  RoundIInv'
  BY <1>1, StoresFeedbackInv, SetsTimeInv, RequestEndsInv
<1>2. ASSUME NEW j \in Job, JobRuns(j) \/ JobFails(j)
      PROVE  RoundIInv'
  BY <1>2, ReadsJobInv, LoadsInv, SearchesInv, AddsScoresInv,
     SetsRecommendedInv, JobFailsInv DEF JobRuns
<1>3. CASE RoundBegins \/ RoundEnds
  BY <1>3, RoundBeginsInv
<1>4. CASE UNCHANGED recommendVars
  BY <1>4 DEF RoundIInv, recommendVars, storeVars, cacheVars, roundVars, RoundTypeOK, OneJobPerUser,
              LoadedKnow, KnowsLoaded, TimedKnow, KnowsTimed, NewerKnow, Running, At
<1> QED
  BY <1>1, <1>2, <1>3, <1>4 DEF RoundNext

LEMMA RoundInvariance == RoundSpec => []RoundIInv
<1>1. RoundInit => RoundIInv
  BY RoundInitInv
<1> QED
  BY <1>1, RoundNextInv, PTL DEF RoundSpec

----------------------------------------------------------------------------
(* What follows *)

\* Every recommendation is stamped by the one goroutine that renews the user's
\* documents: two never overwrite each other's (Recommend, worker.go 589).
THEOREM OneRenewsAUser == RoundSpec => []OneJobPerUser
<1>1. RoundIInv => OneJobPerUser
  BY DEF RoundIInv
<1> QED
  BY <1>1, RoundInvariance, PTL

\* checkRecommendCacheTimeout never calls recommendations fresh when the last
\* list written was computed without some of the user's feedback, but for the
\* feedback its time stamps cannot tell of, for any number of users,
\* goroutines, insertions and failures.  Documents of earlier lists may lie
\* beside those of the last.
THEOREM FreshIsInformed == RoundSpec => []FreshKnowsFeedback
<1>1. RoundIInv => FreshKnowsFeedback
  BY DEF RoundIInv, NewerKnow, FreshKnowsFeedback, Stale
<1> QED
  BY <1>1, RoundInvariance, PTL

----------------------------------------------------------------------------
(* What a goroutine of a round caches for its user *)

\* Every positive item has shown a digest of its neighbors.
DigestsShown(digests) ==
  /\ digests # {} => Positive(world.feedback) # {}
  /\ \A f \in Positive(world.feedback) :
       \E v \in DOMAIN world.neighbors[f.item] : world.neighbors[f.item][v].digest \in digests

\* What was used, as far as the digest says.
UsesOnlyWhatIs ==
  /\ configured \in DOMAIN Settings /\ situation \in DOMAIN Worlds
  /\ collaborativeUsed \in BOOLEAN /\ (collaborativeUsed => ModelKnowsUser)
  /\ ctrUsed \in BOOLEAN /\ (ctrUsed => world.ctr # NoRanker)
  /\ setting.item /\ stage \notin {"collaborative", "item"} => DigestsShown(itemDigests)
  /\ setting.user /\ stage \notin {"collaborative", "item", "user"} /\ userDigests # {} => SimilarUsers # {}
  /\ stage = "done" => digest = OfflineRecommendDigest(collaborativeUsed, ctrUsed, itemDigests, userDigests)

LEMMA UsesFirst == CandidatesInit => UsesOnlyWhatIs
  BY DEF CandidatesInit, UsesOnlyWhatIs

\* The recommenders, which come before the ranking.
Recommending ==
  \/ RecommendsCollaborative \/ RecommendsItemBased \/ RecommendsUserBased
  \/ RecommendsByImage \/ RecommendsLatest \/ RecommendsPopular

\* Whatever version of its neighbors a read finds, it has a digest.
LEMMA DigestsAreShown ==
  ASSUME UsesOnlyWhatIs, RecommendsItemBased, setting.item
  PROVE  DigestsShown(itemDigests')
<1>1. PICK moment \in [Renewed -> Moments] :
        itemDigests' = ReadDigests(moment)
  BY DEF RecommendsItemBased
<1>2. "" \in Categories
  BY DEF Categories
<1>3. ASSUME NEW f \in Positive(world.feedback)
      PROVE  \E v \in DOMAIN world.neighbors[f.item] : world.neighbors[f.item][v].digest \in itemDigests'
  <2> DEFINE early == f.item \in Renewed /\ "" \in moment[f.item].digests
             v == IF f.item \in Renewed /\ ~early THEN 2 ELSE 1
  <2>1. f \in world.feedback
    BY DEF Positive
  <2>2. f.item \in DOMAIN world.neighbors /\ DOMAIN world.neighbors[f.item] \in {{1}, {1, 2}}
    BY <2>1, WorldsAssumption DEF UsesOnlyWhatIs, world
  <2>3. v \in DOMAIN world.neighbors[f.item]
    BY <2>2 DEF Renewed
  <2>4. world.neighbors[f.item][v].digest = Version(f.item, early).digest
    BY DEF Version
  <2>5. ReadDigest(f.item, "", moment) \in itemDigests'
    <3>1. ReadDigest(f.item, "", moment) \in {ReadDigest(f.item, c, moment) : c \in Categories}
      BY <1>2
    <3>2. {ReadDigest(f.item, c, moment) : c \in Categories}
            \in {{ReadDigest(g.item, c, moment) : c \in Categories} : g \in Positive(world.feedback)}
      BY <1>3
    <3>3. ReadDigest(f.item, "", moment) \in ReadDigests(moment)
      BY <3>1, <3>2, Zenon DEF ReadDigests
    <3> QED
      BY <3>3, <1>1, Zenon
  <2>6. ReadDigest(f.item, "", moment) = Version(f.item, early).digest
    BY DEF ReadDigest
  <2> HIDE DEF v, early
  <2> QED
    BY <2>3, <2>4, <2>5, <2>6
<1>4. itemDigests' # {} => Positive(world.feedback) # {}
  BY <1>1 DEF ReadDigests
<1> QED
  BY <1>3, <1>4 DEF DigestsShown

LEMMA UsesWhatRecommends ==
  ASSUME UsesOnlyWhatIs, Recommending
  PROVE  UsesOnlyWhatIs'
<1>1. UNCHANGED <<configured, situation, ctrUsed, digest>> /\ stage' # "done"
  BY DEF Recommending, RecommendsCollaborative, RecommendsItemBased, RecommendsUserBased, RecommendsByImage,
     RecommendsLatest, RecommendsPopular, Gathers, WorldStays
<1>2. setting' = setting /\ world' = world /\ SimilarUsers' = SimilarUsers /\ (ModelKnowsUser' <=> ModelKnowsUser)
  BY <1>1 DEF setting, world, SimilarUsers, ModelKnowsUser
<1>3. collaborativeUsed' \in BOOLEAN /\ (collaborativeUsed' => ModelKnowsUser)
  <2>1. CASE RecommendsCollaborative
    BY <2>1, Zenon DEF RecommendsCollaborative
  <2>2. CASE ~RecommendsCollaborative
    <3>1. collaborativeUsed' = collaborativeUsed
      BY <2>2 DEF Recommending, RecommendsItemBased, RecommendsUserBased, RecommendsByImage, RecommendsLatest,
             RecommendsPopular
    <3> QED
      BY <3>1, Zenon DEF UsesOnlyWhatIs
  <2> QED
    BY <2>1, <2>2
<1>4. setting.item /\ stage' \notin {"collaborative", "item"} => DigestsShown(itemDigests')
  <2>1. CASE RecommendsItemBased
    BY <2>1, DigestsAreShown
  <2>2. CASE ~RecommendsItemBased
    <3>1. /\ stage' \notin {"collaborative", "item"} => stage \notin {"collaborative", "item"}
          /\ stage \notin {"collaborative", "item"} => itemDigests' = itemDigests
      BY <2>2 DEF Recommending, RecommendsCollaborative, RecommendsUserBased, RecommendsByImage, RecommendsLatest,
         RecommendsPopular, Gathers
    <3> QED
      BY <3>1 DEF UsesOnlyWhatIs
  <2> QED
    BY <2>1, <2>2
<1>5. setting.user /\ stage' \notin {"collaborative", "item", "user"} /\ userDigests' # {} => SimilarUsers # {}
  BY DEF UsesOnlyWhatIs, Recommending, RecommendsCollaborative, RecommendsItemBased, RecommendsUserBased,
     RecommendsByImage, RecommendsLatest, RecommendsPopular, Gathers
<1>6. configured' \in DOMAIN Settings /\ situation' \in DOMAIN Worlds
      /\ ctrUsed' \in BOOLEAN /\ (ctrUsed' => world.ctr # NoRanker)
  BY <1>1, Zenon DEF UsesOnlyWhatIs
<1>7. DigestsShown(itemDigests)' <=> DigestsShown(itemDigests')
  BY <1>2 DEF DigestsShown
<1> QED
  BY <1>1, <1>2, <1>3, <1>4, <1>5, <1>6, <1>7, Zenon DEF UsesOnlyWhatIs

LEMMA UsesWhatRanks ==
  ASSUME UsesOnlyWhatIs, Ranks
  PROVE  UsesOnlyWhatIs'
<1>1. /\ UNCHANGED <<configured, situation, collaborativeUsed, itemDigests, userDigests, digest>>
      /\ stage = "rank" /\ stage' # "done"
  BY DEF Ranks, ToReplace, WorldStays
<1>2. setting' = setting /\ world' = world /\ SimilarUsers' = SimilarUsers /\ (ModelKnowsUser' <=> ModelKnowsUser)
  BY <1>1 DEF setting, world, SimilarUsers, ModelKnowsUser
<1>3. ctrUsed' \in BOOLEAN /\ (ctrUsed' => world.ctr # NoRanker)
  BY Zenon DEF Ranks, UsesOnlyWhatIs
<1>4. DigestsShown(itemDigests)' <=> DigestsShown(itemDigests)
  BY <1>1, <1>2 DEF DigestsShown
<1>5. /\ setting.item => DigestsShown(itemDigests)
      /\ setting.user /\ userDigests # {} => SimilarUsers # {}
  BY <1>1 DEF UsesOnlyWhatIs
<1> QED
  BY <1>1, <1>2, <1>3, <1>4, <1>5, Zenon DEF UsesOnlyWhatIs

LEMMA UsesThen ==
  ASSUME UsesOnlyWhatIs,
         \/ Replaces \/ BeginsExploring \/ Rolls \/ EndsRoll
         \/ CachesRecommended \/ SetsDigest \/ LosesDigest
  PROVE  UsesOnlyWhatIs'
<1>1. /\ UNCHANGED <<configured, situation, collaborativeUsed, ctrUsed, itemDigests, userDigests>>
      /\ stage \notin {"collaborative", "item", "user"}
      /\ stage' = "done" => digest' = OfflineRecommendDigest(collaborativeUsed, ctrUsed, itemDigests, userDigests)
  BY DEF Replaces, BeginsExploring, Rolls, EndsRoll, CachesRecommended, SetsDigest, LosesDigest, WorldStays
<1>2. setting' = setting /\ world' = world /\ SimilarUsers' = SimilarUsers /\ (ModelKnowsUser' <=> ModelKnowsUser)
  BY <1>1 DEF setting, world, SimilarUsers, ModelKnowsUser
<1>3. OfflineRecommendDigest(collaborativeUsed, ctrUsed, itemDigests, userDigests)'
        = OfflineRecommendDigest(collaborativeUsed, ctrUsed, itemDigests, userDigests)
  BY <1>1, <1>2 DEF OfflineRecommendDigest
<1>4. DigestsShown(itemDigests)' <=> DigestsShown(itemDigests)
  BY <1>1, <1>2 DEF DigestsShown
<1>5. /\ setting.item => DigestsShown(itemDigests)
      /\ setting.user /\ userDigests # {} => SimilarUsers # {}
  BY <1>1 DEF UsesOnlyWhatIs
<1> QED
  BY <1>1, <1>2, <1>3, <1>4, <1>5, Zenon DEF UsesOnlyWhatIs

LEMMA UsesTold ==
  ASSUME UsesOnlyWhatIs
  PROVE  DigestTellsTruth
<1> SUFFICES ASSUME stage = "done", digest = ConfiguredDigest
             PROVE  /\ setting.col => ModelKnowsUser
                    /\ setting.ctr => world.ctr # NoRanker
                    /\ setting.item =>
                         /\ Positive(world.feedback) # {}
                         /\ \A f \in Positive(world.feedback) :
                              \E v \in DOMAIN world.neighbors[f.item] :
                                world.neighbors[f.item][v].digest = ItemDigest
                    /\ setting.user => SimilarUsers # {}
  BY DEF DigestTellsTruth
<1> DEFINE asUsed == [setting EXCEPT !.col = collaborativeUsed, !.ctr = ctrUsed, !.image = FALSE,
                                      !.index = collaborativeUsed /\ @]
           asWanted == [setting EXCEPT !.col = setting.col, !.ctr = setting.ctr, !.image = FALSE,
                                        !.index = setting.col /\ @]
<1>1. digest = OfflineRecommendDigest(collaborativeUsed, ctrUsed, itemDigests, userDigests)
  BY DEF UsesOnlyWhatIs
<1>2. /\ asUsed = asWanted
      /\ setting.item => itemDigests = {ItemDigest}
      /\ setting.user => userDigests = {UserDigest}
  BY <1>1 DEF ConfiguredDigest, OfflineRecommendDigest
<1>3. setting \in Setting
  BY CandidatesAssumption DEF UsesOnlyWhatIs, setting
<1>4. asUsed.col = collaborativeUsed /\ asWanted.col = setting.col
  BY <1>3, Zenon DEF Setting
<1>5. asUsed.ctr = ctrUsed /\ asWanted.ctr = setting.ctr
  BY <1>3, Zenon DEF Setting
<1> HIDE DEF asUsed, asWanted
<1>6. collaborativeUsed = setting.col /\ ctrUsed = setting.ctr
  BY <1>2, <1>4, <1>5, Zenon
<1>7. (setting.col => ModelKnowsUser) /\ (setting.ctr => world.ctr # NoRanker)
  BY <1>6, Zenon DEF UsesOnlyWhatIs
<1>8. setting.item => DigestsShown({ItemDigest})
  BY <1>2 DEF UsesOnlyWhatIs
<1>9. setting.user => SimilarUsers # {}
  BY <1>2 DEF UsesOnlyWhatIs
<1> QED
  BY <1>7, <1>8, <1>9 DEF DigestsShown

\* A turn that stores the digest "made as configured" had the models, the
\* liked items and the similar users that the configuration asks for, and
\* today's options were those of the items' neighbors.
THEOREM DigestIsTrue == CandidatesSpec => []DigestTellsTruth
<1>1. UsesOnlyWhatIs /\ [CandidatesNext]_candidateVars => UsesOnlyWhatIs'
  <2> SUFFICES ASSUME UsesOnlyWhatIs, [CandidatesNext]_candidateVars PROVE UsesOnlyWhatIs'
    OBVIOUS
  <2>1. CASE UNCHANGED candidateVars
    <3>1. UNCHANGED <<configured, situation, stage, collaborativeUsed, ctrUsed, itemDigests, userDigests, digest>>
      BY <2>1 DEF candidateVars
    <3> QED
      BY <3>1, Zenon DEF UsesOnlyWhatIs, setting, world, SimilarUsers, ModelKnowsUser, OfflineRecommendDigest,
         DigestsShown
  <2>2. CASE Recommending
    BY <2>2, UsesWhatRecommends
  <2>3. CASE Ranks
    BY <2>3, UsesWhatRanks
  <2> QED
    BY <2>1, <2>2, <2>3, UsesThen DEF CandidatesNext, Recommending
<1> QED
  BY <1>1, UsesFirst, UsesTold, PTL DEF CandidatesSpec

----------------------------------------------------------------------------
(* What the user has read stays out *)

IsSequence(s) == s \in Seq(ToSet(s))

LEMMA Appended ==
  ASSUME NEW s, IsSequence(s), NEW d
  PROVE  IsSequence(Append(s, d)) /\ ToSet(Append(s, d)) \subseteq ToSet(s) \cup {d}
<1> DEFINE S == ToSet(s) \cup {d}
           t == Append(s, d)
<1>1. s \in Seq(S) /\ d \in S
  BY DEF IsSequence
<1>h. t = Append(s, d) /\ S = ToSet(s) \cup {d}
  OBVIOUS
<1> HIDE DEF S, t
<1>2. t \in Seq(S) /\ t \in [1 .. Len(t) -> S] /\ Len(t) \in Nat
  <2>1. t \in Seq(S)
    BY <1>1, <1>h, AppendProperties
  <2> QED
    BY <2>1, LenProperties
<1>3. DOMAIN t = 1 .. Len(t) /\ \A j \in 1 .. Len(t) : t[j] \in S
  BY <1>2
<1>4. ToSet(t) \subseteq S
  BY <1>3 DEF ToSet
<1>5. t \in [1 .. Len(t) -> ToSet(t)]
  BY <1>2, <1>3 DEF ToSet
<1>6. t \in Seq(ToSet(t))
  BY <1>2, <1>5
<1> QED
  BY <1>4, <1>6, <1>h DEF IsSequence

RollFields == {"exploit", "left", "excluded", "found", "popular", "latest", "score"}

\* A roll takes nothing that the user has read.
RollsOut(e) ==
  /\ DOMAIN e = RollFields /\ IsSequence(e.found)
  /\ ~setting.replacement =>
       HistoryItems \subseteq e.excluded /\ \A d \in ToSet(e.found) : d.id \notin HistoryItems

ReadIsOut ==
  /\ configured \in DOMAIN Settings
  /\ \A c \in DOMAIN exploring : RollsOut(exploring[c])
  /\ stage = "cache" => DOMAIN exploring = Categories
  /\ ReadItemsStayOut

LEMMA TakenStaysOut ==
  ASSUME NEW e, RollsOut(e), NEW d
  PROVE  RollsOut(Takes(e, d))
<1> DEFINE t == Takes(e, d)
<1>1. /\ DOMAIN t = RollFields
      /\ t.found = IF d.id \in e.excluded THEN e.found ELSE Append(e.found, d)
      /\ t.excluded = e.excluded \cup {d.id}
  BY DEF Takes, RollsOut, RollFields
<1>2. IsSequence(e.found)
  BY DEF RollsOut
<1>3. IsSequence(t.found) /\ ToSet(t.found) \subseteq ToSet(e.found) \cup {d}
      /\ (d \in ToSet(t.found) => d \in ToSet(e.found) \/ d.id \notin e.excluded)
  BY <1>1, <1>2, Appended
<1> HIDE DEF t
<1>4. ASSUME ~setting.replacement
          PROVE HistoryItems \subseteq t.excluded /\ \A x \in ToSet(t.found) : x.id \notin HistoryItems
  BY <1>1, <1>3, <1>4 DEF RollsOut
<1> QED
  BY <1>1, <1>3, <1>4 DEF RollsOut, t

LEMMA ExploredStaysOut ==
  ASSUME NEW e, RollsOut(e), NEW list \in Explorers
  PROVE  RollsOut(Explores(e, list)) /\ RollsOut(Exploits(e))
<1>1. ASSUME NEW r, RollsOut(r), NEW f \in {"exploit", "popular", "latest"}, NEW v
      PROVE  RollsOut([r EXCEPT ![f] = v])
  <2>1. DOMAIN [r EXCEPT ![f] = v] = DOMAIN r /\ [r EXCEPT ![f] = v].found = r.found
        /\ [r EXCEPT ![f] = v].excluded = r.excluded
    BY <1>1 DEF RollsOut, RollFields
  <2> QED
    BY <1>1, <2>1 DEF RollsOut
<1> DEFINE x == Takes(e, [id |-> e[list][1], score |-> e.score - 1])
           y == Takes(e, Head(e.exploit))
<1>2. RollsOut(x) /\ RollsOut(y)
  BY TakenStaysOut
<1>3. Explores(e, list) = [x EXCEPT ![list] = Tail(x[list])]
          /\ Exploits(e) = [y EXCEPT !["exploit"] = Tail(y.exploit)]
  BY DEF Explores, Exploits
<1>4. list \in {"exploit", "popular", "latest"}
  BY DEF Explorers
<1> HIDE DEF x, y
<1>5. RollsOut([x EXCEPT ![list] = Tail(x[list])]) /\ RollsOut([y EXCEPT !["exploit"] = Tail(y.exploit)])
  BY <1>1, <1>2, <1>4
<1> QED
  BY <1>3, <1>5

LEMMA ReadIsOutAtFirst == CandidatesInit => ReadIsOut
<1> SUFFICES ASSUME CandidatesInit PROVE ReadIsOut
  OBVIOUS
<1>1. \A i \in DOMAIN cached : cached[i].now = FALSE
  BY DEF CandidatesInit, Stamped
<1>2. DOMAIN exploring = {} /\ stage # "cache" /\ configured \in DOMAIN Settings
  BY DEF CandidatesInit, EmptyMap
<1> QED
  BY <1>1, <1>2 DEF ReadIsOut, ReadItemsStayOut

LEMMA ReadIsOutBefore ==
  ASSUME ReadIsOut,
         \/ Recommending \/ Ranks \/ Replaces \/ EndsRoll
         \/ SetsDigest \/ LosesDigest \/ UNCHANGED candidateVars
  PROVE  ReadIsOut'
<1>1. /\ UNCHANGED <<configured, situation, exploring, cached>>
      /\ stage' = "cache" => stage = "cache" \/ DOMAIN exploring = Categories
  BY DEF Recommending, RecommendsCollaborative, RecommendsItemBased, RecommendsUserBased, RecommendsByImage,
     RecommendsLatest, RecommendsPopular, Gathers, Ranks, ToReplace, Replaces, EndsRoll, WorldStays, SetsDigest,
     LosesDigest, candidateVars
<1>2. setting' = setting /\ world' = world
  BY <1>1 DEF setting, world
<1>3. HistoryItems' = HistoryItems /\ Categories' = Categories
  BY <1>2 DEF HistoryItems, Categories, ItemCategories
<1>4. \A c \in DOMAIN exploring' : RollsOut(exploring[c])'
  BY <1>1, <1>2, <1>3 DEF ReadIsOut, RollsOut
<1>5. ReadItemsStayOut'
  BY <1>1, <1>2, <1>3 DEF ReadIsOut, ReadItemsStayOut
<1> QED
  BY <1>1, <1>3, <1>4, <1>5 DEF ReadIsOut

LEMMA ReadIsOutOnBegin ==
  ASSUME ReadIsOut, BeginsExploring
  PROVE  ReadIsOut'
<1> DEFINE c == CHOOSE d \in Categories \ DOMAIN exploring : TRUE
           e == [exploit |-> results[c], left |-> Len(results[c]), excluded |-> LocalExclude, found |-> <<>>,
                 popular |-> NonPersonalized(world.hits, c), latest |-> NonPersonalized(world.fresh, c),
                 score |-> 100 + (IF results[c] = <<>> THEN 0 ELSE results[c][1].score)]
<1>1. /\ UNCHANGED <<configured, situation, cached>> /\ stage' = "roll"
      /\ exploring' = [d \in DOMAIN exploring \cup {c} |-> IF d \in DOMAIN exploring THEN exploring[d] ELSE e]
  BY DEF BeginsExploring, WorldStays
<1>2. setting' = setting /\ world' = world
  BY <1>1 DEF setting, world
<1>3. HistoryItems' = HistoryItems
  BY <1>2 DEF HistoryItems
<1>4. RollsOut(e)
  <2>1. DOMAIN e = RollFields /\ e.found = <<>> /\ e.excluded = LocalExclude
    BY DEF RollFields
  <2> HIDE DEF e
  <2>2. IsSequence(<<>>) /\ ToSet(<<>>) = {}
    BY DEF IsSequence, ToSet
  <2> QED
    BY <2>1, <2>2 DEF RollsOut, LocalExclude
<1> HIDE DEF c, e
<1>5. \A d \in DOMAIN exploring' : exploring'[d] = IF d \in DOMAIN exploring THEN exploring[d] ELSE e
  BY <1>1
<1>6. \A d \in DOMAIN exploring' : RollsOut(exploring'[d])
  BY <1>4, <1>5 DEF ReadIsOut
<1>7. \A d \in DOMAIN exploring' : RollsOut(exploring[d])'
  BY <1>2, <1>3, <1>6 DEF RollsOut
<1>8. ReadItemsStayOut'
  BY <1>1, <1>2, <1>3 DEF ReadIsOut, ReadItemsStayOut
<1> QED
  BY <1>1, <1>7, <1>8 DEF ReadIsOut

LEMMA ReadIsOutOnRoll ==
  ASSUME ReadIsOut, Rolls
  PROVE  ReadIsOut'
<1>1. UNCHANGED <<configured, situation, stage, cached>> /\ stage = "roll"
  BY DEF Rolls, WorldStays
<1>2. setting' = setting /\ world' = world
  BY <1>1 DEF setting, world
<1>3. HistoryItems' = HistoryItems
  BY <1>2 DEF HistoryItems
<1>4. PICK c \in DOMAIN exploring :
        \/ \E list \in Explorable(exploring[c]) : exploring' = [exploring EXCEPT ![c] = Explores(@, list)]
        \/ exploring' = [exploring EXCEPT ![c] = Exploits(@)]
  BY DEF Rolls
<1>5. Explorable(exploring[c]) \subseteq Explorers
  <2>1. setting.explore \subseteq Explorers
    BY CandidatesAssumption DEF ReadIsOut, setting, Setting
  <2> QED
    BY <2>1 DEF Explorable, Explorers
<1>6. RollsOut(exploring[c])
  BY DEF ReadIsOut
<1>7. PICK r : RollsOut(r) /\ exploring' = [exploring EXCEPT ![c] = r]
  <2>1. CASE exploring' = [exploring EXCEPT ![c] = Exploits(@)]
    <3>1. "latest" \in Explorers
      BY DEF Explorers
    <3>2. RollsOut(Exploits(exploring[c]))
      BY <1>6, <3>1, ExploredStaysOut
    <3> QED
      BY <2>1, <3>2
  <2>2. CASE \E list \in Explorable(exploring[c]) : exploring' = [exploring EXCEPT ![c] = Explores(@, list)]
    <3>1. PICK list \in Explorers : exploring' = [exploring EXCEPT ![c] = Explores(exploring[c], list)]
      BY <1>5, <2>2
    <3>2. RollsOut(Explores(exploring[c], list))
      BY <1>6, ExploredStaysOut
    <3> QED
      BY <3>1, <3>2
  <2> QED
    BY <1>4, <2>1, <2>2
<1>8. \A d \in DOMAIN exploring' : RollsOut(exploring'[d])
  BY <1>7 DEF ReadIsOut
<1>9. \A d \in DOMAIN exploring' : RollsOut(exploring[d])'
  BY <1>2, <1>3, <1>8 DEF RollsOut
<1>10. ReadItemsStayOut'
  BY <1>1, <1>2, <1>3 DEF ReadIsOut, ReadItemsStayOut
<1> QED
  BY <1>1, <1>9, <1>10 DEF ReadIsOut

LEMMA ReadIsOutOfCache ==
  ASSUME ReadIsOut, CachesRecommended
  PROVE  ReadIsOut'
<1>1. /\ UNCHANGED <<configured, situation, exploring>> /\ stage = "cache" /\ stage' = "cached"
      /\ cached' = [i \in DOMAIN cached \cup DOMAIN Aggregated |->
                      IF i \in DOMAIN Aggregated THEN Stamped(Aggregated[i], TRUE) ELSE cached[i]]
  BY DEF CachesRecommended, WorldStays
<1>2. setting' = setting /\ world' = world
  BY <1>1 DEF setting, world
<1>3. HistoryItems' = HistoryItems
  BY <1>2 DEF HistoryItems
<1>4. ASSUME ~setting.replacement PROVE DOMAIN Aggregated \cap HistoryItems = {}
  <2> SUFFICES ASSUME NEW i \in DOMAIN Aggregated PROVE i \notin HistoryItems
    OBVIOUS
  <2>1. PICK k \in Categories : \E j \in DOMAIN exploring[k].found : i = exploring[k].found[j].id
    BY DEF Aggregated
  <2>2. RollsOut(exploring[k])
    BY <1>1 DEF ReadIsOut
  <2> QED
    BY <1>4, <2>1, <2>2 DEF RollsOut, ToSet
<1>5. \A d \in DOMAIN exploring' : RollsOut(exploring[d])'
  BY <1>1, <1>2, <1>3 DEF RollsOut, ReadIsOut
<1>6. \A i \in DOMAIN cached' : cached'[i].now => i \in DOMAIN Aggregated \/ (i \in DOMAIN cached /\ cached[i].now)
  <2> DEFINE told(i) == Stamped(Aggregated[i], TRUE)
  <2> HIDE DEF told
  <2>1. cached' = [i \in DOMAIN cached \cup DOMAIN Aggregated |->
                     IF i \in DOMAIN Aggregated THEN told(i) ELSE cached[i]]
    BY <1>1 DEF told
  <2> QED
    BY <2>1
<1>7. ReadItemsStayOut'
  BY <1>2, <1>3, <1>4, <1>6 DEF ReadIsOut, ReadItemsStayOut
<1> QED
  BY <1>1, <1>2, <1>3, <1>5, <1>7 DEF ReadIsOut

\* Whatever the recommenders, the ranking and the exploration do, what a user
\* has read is not cached for him unless it is put back on purpose.
THEOREM ReadItemsAreOut == CandidatesSpec => []ReadItemsStayOut
<1>1. ReadIsOut /\ [CandidatesNext]_candidateVars => ReadIsOut'
  BY ReadIsOutBefore, ReadIsOutOnBegin, ReadIsOutOnRoll, ReadIsOutOfCache DEF CandidatesNext, Recommending
<1>2. ReadIsOut => ReadItemsStayOut
  BY DEF ReadIsOut
<1> QED
  BY <1>1, <1>2, ReadIsOutAtFirst, PTL DEF CandidatesSpec
=============================================================================
