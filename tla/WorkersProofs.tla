------------------------ MODULE WorkersProofs -------------------------------
(***************************************************************************)
(* The loops of the worker processes: jobs and reminders, the monolith's   *)
(* outbox, the events between the services, and the mails and pushes; for  *)
(* any number of rows, workers and callers.  Workers may be slow or die.   *)
(***************************************************************************)
EXTENDS MCWorkers, Events, Mailer, SequenceTheorems, FiniteSetTheorems, TLAPS

(***************************************************************************)
(* What recovery and retries cannot do to jobs and reminders.              *)
(***************************************************************************)
Booked == Due \cup Holds
Busy == {"run", "completed", "bury", "failed"}

JobRecords ==
  [status : {"none", "queued", "running", "completed", "failed"}, attempts : Nat,
   lease : {"none", "held", "over"}, for : Booked \cup {Nothing}]
RunnerRecords ==
  [at : {"idle", "claim"} \cup Busy, job : Jobs \cup {Nothing}, tries : Nat, attempt : Nat]
SweepRecords ==
  [at : {"idle", "next", "flag"}, found : SUBSET Booked, now : Booked \cup {Nothing}]
CallerRecords ==
  [at : {"idle", "retry", "replay"}, job : Jobs \cup {Nothing},
   letter : (Jobs \X (1..MaxRuns)) \cup {Nothing}]

JobsTypeOK ==
  /\ job \in [Jobs -> JobRecords] /\ runner \in [Instances -> RunnerRecords]
  /\ sweep \in [Instances -> SweepRecords] /\ caller \in [Callers -> CallerRecords]
  /\ DOMAIN letter = Jobs \X (1..MaxRuns)
  /\ flagged \subseteq Booked /\ disturbed \subseteq Jobs \cup {Nothing}

(* Unless it is disturbed, a job under way is running under a lease that   *)
(* holds, on one instance: that is why what SaveOutcome writes is right,   *)
(* although it looks at nothing.                                           *)
RunnersOwn ==
  \A i \in Instances : runner[i].at \in Busy =>
    /\ runner[i].job \in Jobs
    /\ runner[i].job \notin disturbed =>
         /\ job[runner[i].job].status = "running" /\ job[runner[i].job].lease = "held"
         /\ \A k \in Instances :
              runner[k].at \in Busy /\ runner[k].job = runner[i].job => k = i

Reminded(b) == b \in tried \/ \E j \in Jobs : job[j].for = b

(* A sweep is about to flag only what it has reminded of. *)
SweepsOwn ==
  \A i \in Instances : sweep[i].at = "flag" => sweep[i].now \in Booked /\ Reminded(sweep[i].now)

JobsInv == JobsTypeOK /\ RunnersOwn /\ SweepsOwn /\ RemindersKept

(* What a step must do to jobs and runners, and to reminders.              *)
CompletedStep ==
  \A j \in Jobs \ disturbed' : job[j].status = "completed" => job'[j].status = "completed"
RunsStep == job' \in [Jobs -> JobRecords] /\ runner' \in [Instances -> RunnerRecords]
            /\ RunnersOwn' /\ CompletedStep
RemindedStep == \A b \in Booked : Reminded(b) => Reminded(b)'

LEMMA InitInv == JobsInit => JobsInv
<1> SUFFICES ASSUME JobsInit PROVE JobsInv OBVIOUS
<1>1. JobsTypeOK
  BY JobQueueConstants DEF JobsInit, JobsTypeOK, JobRecords, RunnerRecords, SweepRecords,
     CallerRecords, Unused, IdleRunner, IdleSweep, IdleCaller
<1>2. RunnersOwn /\ SweepsOwn /\ RemindersKept
  BY DEF JobsInit, RunnersOwn, SweepsOwn, RemindersKept, Busy, IdleRunner, IdleSweep
<1> QED BY <1>1, <1>2 DEF JobsInv

(* Creating a job disturbs nobody.                                         *)
LEMMA CreatedKeeps ==
  ASSUME JobsInv, NEW b \in Booked \cup {Nothing}, Created(b), UNCHANGED <<runner, disturbed>>
  PROVE  RunsStep
<1> USE DEF JobsInv
<1>1. PICK j \in Jobs : job[j] = Unused
                       /\ job' = [job EXCEPT ![j].status = "queued", ![j].for = b]
  BY DEF Created
<1>2. job[j] \in JobRecords
  BY DEF JobsTypeOK
<1>3. job[j].status = "none" /\ job'[j] = [job[j] EXCEPT !.status = "queued", !.for = b]
  BY <1>1, <1>2 DEF JobsTypeOK, Unused, JobRecords
<1>4. \A k \in Jobs \ {j} : job'[k] = job[k]
  BY <1>1 DEF JobsTypeOK
<1>5. job' \in [Jobs -> JobRecords]
  <2>1. job'[j] \in JobRecords
    BY <1>2, <1>3 DEF JobRecords
  <2> QED BY <1>1, <2>1, <1>4 DEF JobsTypeOK
<1>6. runner' \in [Instances -> RunnerRecords]
  BY DEF JobsTypeOK
<1>7. RunnersOwn'
  BY <1>3, <1>4 DEF RunnersOwn
<1>8. CompletedStep
  BY <1>3, <1>4 DEF CompletedStep
<1> QED BY <1>5, <1>6, <1>7, <1>8 DEF RunsStep

LEMMA RecoverKeeps ==
  ASSUME JobsInv, NEW i \in Instances, Recover(i) PROVE RunsStep
<1> USE DEF JobsInv
<1>1. \A j \in Jobs : job'[j] = IF Abandoned(j)
                       THEN [job[j] EXCEPT !.status = "queued", !.lease = "none"] ELSE job[j]
  BY DEF Recover
<1>2. job' \in [Jobs -> JobRecords]
  <2>1. ASSUME NEW j \in Jobs PROVE job'[j] \in JobRecords
    BY <1>1, job[j] \in JobRecords DEF JobRecords, JobsTypeOK
  <2> QED BY <2>1 DEF Recover
<1>3. /\ runner' \in [Instances -> RunnerRecords] /\ UNCHANGED disturbed
      /\ \A k \in Instances : runner'[k].at \in Busy => runner'[k] = runner[k]
  <2>1. runner[i] \in RunnerRecords /\ runner' = [runner EXCEPT ![i].at = "claim"]
    BY DEF JobsTypeOK, Recover
  <2>2. runner'[i].at = "claim" /\ runner'[i] \in RunnerRecords
    BY <2>1 DEF RunnerRecords, JobsTypeOK
  <2>3. \A k \in Instances \ {i} : runner'[k] = runner[k]
    BY <2>1 DEF JobsTypeOK
  <2> QED BY <2>1, <2>2, <2>3 DEF JobsTypeOK, Recover, Busy
<1>4. RunnersOwn'
  BY <1>1, <1>3 DEF RunnersOwn, Abandoned
<1>5. CompletedStep
  BY <1>1 DEF CompletedStep, Abandoned
<1> QED BY <1>2, <1>3, <1>4, <1>5 DEF RunsStep

LEMMA ClaimJobKeeps ==
  ASSUME JobsInv, NEW i \in Instances, ProcessNextJob(i) PROVE RunsStep
<1> USE DEF JobsInv
<1>1. CASE UNCHANGED job
  <2>1. runner' = [runner EXCEPT ![i] = IdleRunner]
    <3>1. SUFFICES ASSUME NEW j \in Jobs, Waiting(j),
                     job' = [job EXCEPT ![j].status = "running", ![j].lease = "held",
                                        ![j].attempts = @ + 1]
            PROVE FALSE
      BY DEF ProcessNextJob
    <3>2. job[j] \in JobRecords /\ job'[j].status = "running"
      BY <3>1 DEF JobsTypeOK, JobRecords
    <3> QED BY <1>1, <3>1, <3>2 DEF Waiting
  <2>2. runner' \in [Instances -> RunnerRecords]
    BY <2>1 DEF JobsTypeOK, RunnerRecords, IdleRunner
  <2>3. UNCHANGED disturbed /\ \A k \in Instances : runner'[k].at \in Busy => runner'[k] = runner[k]
    BY <2>1 DEF JobsTypeOK, ProcessNextJob, Busy, IdleRunner
  <2>4. RunnersOwn'
    BY <1>1, <2>3 DEF RunnersOwn
  <2> QED BY <1>1, <2>2, <2>4 DEF RunsStep, JobsTypeOK, CompletedStep
<1>2. CASE \E j \in Jobs :
             /\ Waiting(j)
             /\ job' = [job EXCEPT ![j].status = "running", ![j].lease = "held",
                                   ![j].attempts = @ + 1]
             /\ runner' = [runner EXCEPT ![i] =
                  [at |-> "run", job |-> j, tries |-> 0, attempt |-> job[j].attempts + 1]]
  <2>1. PICK j \in Jobs :
             /\ Waiting(j)
             /\ job' = [job EXCEPT ![j].status = "running", ![j].lease = "held",
                                   ![j].attempts = @ + 1]
             /\ runner' = [runner EXCEPT ![i] =
                  [at |-> "run", job |-> j, tries |-> 0, attempt |-> job[j].attempts + 1]]
    BY <1>2
  <2>2. job[j] \in JobRecords
    BY DEF JobsTypeOK
  <2>3. job'[j] = [status |-> "running", attempts |-> job[j].attempts + 1, lease |-> "held",
                   for |-> job[j].for]
    BY <2>1, <2>2 DEF JobsTypeOK, JobRecords
  <2>4. \A k \in Jobs \ {j} : job'[k] = job[k]
    BY <2>1 DEF JobsTypeOK
  <2>5. job' \in [Jobs -> JobRecords]
    <3>1. job'[j] \in JobRecords
      BY <2>2, <2>3 DEF JobRecords
    <3> QED BY <2>1, <2>4, <3>1 DEF JobsTypeOK
  <2>6. runner' \in [Instances -> RunnerRecords]
    BY <2>1, <2>2 DEF JobsTypeOK, RunnerRecords, JobRecords, Busy
  <2>7. /\ runner'[i].job = j /\ runner'[i].at = "run" /\ UNCHANGED disturbed
        /\ \A k \in Instances \ {i} : runner'[k] = runner[k]
    BY <2>1 DEF JobsTypeOK, ProcessNextJob
  <2>8. RunnersOwn'
    <3>1. ASSUME NEW k \in Instances \ {i}, runner[k].at \in Busy, runner[k].job \notin disturbed
          PROVE  runner[k].job # j
      BY <2>1, <3>1 DEF RunnersOwn, Waiting
    <3>2. ASSUME NEW k \in Instances, runner'[k].at \in Busy
          PROVE  /\ runner'[k].job \in Jobs
                 /\ runner'[k].job \notin disturbed' =>
                      /\ job'[runner'[k].job].status = "running" /\ job'[runner'[k].job].lease = "held"
                      /\ \A l \in Instances :
                           runner'[l].at \in Busy /\ runner'[l].job = runner'[k].job => l = k
      <4>1. CASE k = i
        BY <2>3, <2>7, <3>1, <4>1
      <4>2. CASE k # i
        BY <2>4, <2>7, <3>1, <3>2, <4>2 DEF RunnersOwn
      <4> QED BY <4>1, <4>2
    <3> QED BY <3>2 DEF RunnersOwn
  <2>9. CompletedStep
    BY <2>1, <2>4 DEF CompletedStep, Waiting
  <2> QED BY <2>5, <2>6, <2>8, <2>9 DEF RunsStep
<1> QED BY <1>1, <1>2 DEF ProcessNextJob

(* While an instance runs a job, or buries it, the job document stays.     *)
LEMMA RunKeeps ==
  ASSUME JobsInv, NEW i \in Instances, Run(i) \/ Bury(i) PROVE RunsStep
<1> USE DEF JobsInv
<1>1. UNCHANGED <<job, disturbed>>
  BY DEF Run, Bury
<1>2. runner[i].at \in Busy /\ runner[i] \in RunnerRecords
  BY DEF JobsTypeOK, Run, Bury, Busy
<1>3. PICK at \in Busy, n \in Nat :
        runner' = [runner EXCEPT ![i] = [runner[i] EXCEPT !.at = at, !.tries = n]]
  <2>1. CASE Bury(i)
    <3>1. runner' = [runner EXCEPT ![i] = [runner[i] EXCEPT !.at = "failed", !.tries = runner[i].tries]]
      BY <1>2, <2>1 DEF Bury, RunnerRecords, JobsTypeOK
    <3> QED BY <1>2, <3>1 DEF Busy, RunnerRecords
  <2>2. CASE Run(i) /\ runner' = [runner EXCEPT ![i].at = "completed"]
    BY <1>2, <2>2 DEF Busy, RunnerRecords, JobsTypeOK
  <2>3. CASE Run(i) /\ runner' # [runner EXCEPT ![i].at = "completed"]
    <3>1. runner' = [runner EXCEPT ![i].tries = @ + 1,
            ![i].at = IF runner[i].tries + 1 = MaxTries THEN "bury" ELSE "run"]
      BY <2>3 DEF Run
    <3>2. runner' = [runner EXCEPT ![i] = [runner[i] EXCEPT
            !.at = IF runner[i].tries + 1 = MaxTries THEN "bury" ELSE "run",
            !.tries = runner[i].tries + 1]]
      BY <1>2, <3>1 DEF RunnerRecords, JobsTypeOK
    <3>3. runner[i].tries + 1 \in Nat
      BY <1>2 DEF RunnerRecords
    <3> QED BY <3>2, <3>3 DEF Busy
  <2> QED BY <2>1, <2>2, <2>3
<1>4. /\ runner'[i].at \in Busy /\ runner'[i].job = runner[i].job /\ runner'[i] \in RunnerRecords
      /\ \A k \in Instances \ {i} : runner'[k] = runner[k]
  BY <1>2, <1>3 DEF JobsTypeOK, RunnerRecords
<1>5. runner' \in [Instances -> RunnerRecords]
  BY <1>3, <1>4 DEF JobsTypeOK
<1>6. RunnersOwn'
  BY <1>1, <1>2, <1>4 DEF RunnersOwn
<1> QED BY <1>1, <1>5, <1>6 DEF RunsStep, JobsTypeOK, CompletedStep

(* The save that looks at nothing: undisturbed, it saves a running job.    *)
LEMMA SaveKeeps ==
  ASSUME JobsInv, NEW i \in Instances, SaveOutcome(i) PROVE RunsStep
<1> USE DEF JobsInv
<1> DEFINE j == runner[i].job
<1>1. /\ runner[i].at \in {"completed", "failed"} /\ runner[i] \in RunnerRecords
      /\ runner' = [runner EXCEPT ![i] = IdleRunner] /\ UNCHANGED disturbed
  BY DEF SaveOutcome, JobsTypeOK
<1>2. j \in Jobs /\ (j \notin disturbed => job[j].status = "running")
  BY <1>1 DEF RunnersOwn, Busy
<1>3. job[j] \in JobRecords
  BY <1>2 DEF JobsTypeOK
<1>4. job' = [job EXCEPT ![j] = [job[j] EXCEPT !.status = runner[i].at, !.lease = "none"]]
  BY <1>2, <1>3 DEF SaveOutcome, JobsTypeOK, JobRecords
<1>5. \A k \in Jobs \ {j} : job'[k] = job[k]
  BY <1>4 DEF JobsTypeOK
<1>6. job' \in [Jobs -> JobRecords]
  <2>1. job'[j] \in JobRecords
    BY <1>1, <1>2, <1>3, <1>4 DEF JobsTypeOK, JobRecords
  <2> QED BY <1>4, <1>5, <2>1 DEF JobsTypeOK
<1>7. runner' \in [Instances -> RunnerRecords]
  BY <1>1 DEF JobsTypeOK, RunnerRecords, IdleRunner
<1>8. \A k \in Instances : runner'[k].at \in Busy => k # i /\ runner'[k] = runner[k]
  BY <1>1 DEF JobsTypeOK, Busy, IdleRunner
<1>9. RunnersOwn'
  BY <1>1, <1>5, <1>8 DEF RunnersOwn, Busy
<1>10. CompletedStep
  BY <1>1, <1>2, <1>5 DEF CompletedStep
<1> QED BY <1>6, <1>7, <1>9, <1>10 DEF RunsStep

LEMMA LeaseKeeps ==
  ASSUME JobsInv, NEW j \in Jobs, LeaseEnds(j) PROVE RunsStep
<1> USE DEF JobsInv
<1>1. job[j] \in JobRecords /\ job[j].status = "running" /\ UNCHANGED runner
  BY DEF LeaseEnds, JobsTypeOK
<1>2. job' = [job EXCEPT ![j] = [job[j] EXCEPT !.lease = "over"]]
  BY <1>1 DEF LeaseEnds, JobsTypeOK, JobRecords
<1>3. \A k \in Jobs \ {j} : job'[k] = job[k]
  BY <1>2 DEF JobsTypeOK
<1>4. job' \in [Jobs -> JobRecords]
  <2>1. job'[j] \in JobRecords
    BY <1>1, <1>2 DEF JobsTypeOK, JobRecords
  <2> QED BY <1>2, <1>3, <2>1 DEF JobsTypeOK
<1>5. disturbed \subseteq disturbed' /\ \A i \in Instances : At(i, j) => j \in disturbed'
  BY DEF LeaseEnds
<1>6. RunnersOwn'
  BY <1>1, <1>3, <1>5 DEF RunnersOwn, At, Busy
<1>7. CompletedStep
  BY <1>1, <1>3 DEF CompletedStep
<1> QED BY <1>1, <1>4, <1>6, <1>7 DEF RunsStep, JobsTypeOK

LEMMA DieKeeps ==
  ASSUME JobsInv, NEW i \in Instances, InstanceDies(i) PROVE RunsStep
<1> USE DEF JobsInv
<1>1. UNCHANGED <<job, disturbed>> /\ runner' = [runner EXCEPT ![i] = IdleRunner]
  BY DEF InstanceDies
<1>2. runner' \in [Instances -> RunnerRecords]
  BY <1>1 DEF JobsTypeOK, RunnerRecords, IdleRunner
<1>3. \A k \in Instances : runner'[k].at \in Busy => runner'[k] = runner[k]
  BY <1>1 DEF JobsTypeOK, Busy, IdleRunner
<1>4. RunnersOwn'
  BY <1>1, <1>3 DEF RunnersOwn
<1> QED BY <1>1, <1>2, <1>4 DEF RunsStep, JobsTypeOK, CompletedStep

LEMMA RetryKeeps ==
  ASSUME JobsInv, NEW c \in Callers, RetrySave(c) PROVE RunsStep
<1> USE DEF JobsInv
<1> DEFINE j == caller[c].job
<1>1. UNCHANGED runner /\ disturbed' = disturbed \cup {j} /\ caller[c] \in CallerRecords
      /\ job' = [job EXCEPT ![j].status = "queued"]
  BY DEF RetrySave, JobsTypeOK
<1>2. \A k \in Jobs \ {j} : job'[k] = job[k]
  BY <1>1 DEF JobsTypeOK
<1>3. job' \in [Jobs -> JobRecords]
  <2>1. ASSUME NEW k \in Jobs PROVE job'[k] \in JobRecords
    BY <1>1, job[k] \in JobRecords DEF JobsTypeOK, JobRecords
  <2> QED BY <1>1, <2>1 DEF JobsTypeOK
<1>4. RunnersOwn'
  BY <1>1, <1>2 DEF RunnersOwn
<1>5. CompletedStep
  BY <1>1, <1>2 DEF CompletedStep
<1> QED BY <1>1, <1>3, <1>4, <1>5 DEF RunsStep, JobsTypeOK

LEMMA OthersKeep ==
  ASSUME JobsInv, UNCHANGED <<job, runner, disturbed>> PROVE RunsStep
BY DEF JobsInv, JobsTypeOK, RunsStep, RunnersOwn, CompletedStep

LEMMA RunsKept == JobsInv /\ [JobsNext]_jobVars => RunsStep
<1> SUFFICES ASSUME JobsInv, [JobsNext]_jobVars PROVE RunsStep OBVIOUS
<1>1. CASE EnqueueExport
  BY <1>1, CreatedKeeps DEF EnqueueExport
<1>2. ASSUME NEW i \in Instances, ProcessBatch(i) PROVE RunsStep
  BY <1>2, RecoverKeeps, ClaimJobKeeps, RunKeeps, SaveKeeps DEF ProcessBatch
<1>3. ASSUME NEW i \in Instances, Remind(i) PROVE RunsStep
  <2>1. CASE UNCHANGED job
    BY <1>3, <2>1, OthersKeep DEF Remind
  <2>2. CASE job' # job
    BY <1>3, <2>2, CreatedKeeps DEF Remind, Booked
  <2> QED BY <2>1, <2>2
<1>4. ASSUME NEW i \in Instances, Reminders(i), ~Remind(i) PROVE RunsStep
  BY <1>4, OthersKeep DEF Reminders, SweepFind, Flag, SweepFails
<1>5. ASSUME NEW i \in Instances, InstanceDies(i) PROVE RunsStep
  BY <1>5, DieKeeps
<1>6. ASSUME NEW j \in Jobs, LeaseEnds(j) PROVE RunsStep
  BY <1>6, LeaseKeeps
<1>7. ASSUME NEW c \in Callers, NEW j \in Jobs, RetryLoad(c, j) PROVE RunsStep
  BY <1>7, OthersKeep DEF RetryLoad
<1>8. ASSUME NEW c \in Callers, NEW l \in DOMAIN letter, ReplayEnqueue(c, l) PROVE RunsStep
  <2>1. job[l[1]].for \in Booked \cup {Nothing}
    BY <1>8 DEF JobsInv, JobsTypeOK, JobRecords
  <2> QED BY <1>8, <2>1, CreatedKeeps DEF ReplayEnqueue
<1>9. ASSUME NEW c \in Callers, RetrySave(c) PROVE RunsStep
  BY <1>9, RetryKeeps
<1>10. ASSUME NEW c \in Callers, ReplayMark(c) PROVE RunsStep
  BY <1>10, OthersKeep DEF ReplayMark
<1>11. ASSUME NEW l \in DOMAIN letter, Discard(l) PROVE RunsStep
  BY <1>11, OthersKeep DEF Discard
<1>12. CASE UNCHANGED jobVars
  BY <1>12, OthersKeep DEF jobVars
<1> QED
  BY <1>1, <1>2, <1>3, <1>4, <1>5, <1>6, <1>7, <1>8, <1>9, <1>10, <1>11, <1>12 DEF JobsNext

(* Nothing takes a reminder back: jobs keep what they are for.             *)
LEMMA CreatedReminds ==
  ASSUME JobsInv, NEW b \in Booked \cup {Nothing}, Created(b), tried \subseteq tried'
  PROVE  RemindedStep /\ (b \in Booked => Reminded(b)')
<1>1. PICK j \in Jobs : job[j] = Unused
                       /\ job' = [job EXCEPT ![j].status = "queued", ![j].for = b]
  BY DEF Created
<1>2. job[j] \in JobRecords /\ job \in [Jobs -> JobRecords]
  BY DEF JobsInv, JobsTypeOK
<1>3. job[j].for = Nothing /\ job'[j].for = b
  BY <1>1, <1>2 DEF Unused, JobRecords
<1>4. \A k \in Jobs \ {j} : job'[k] = job[k]
  BY <1>1, <1>2
<1>5. Nothing \notin Booked
  BY JobQueueConstants DEF Booked
<1> QED BY <1>3, <1>4, <1>5 DEF RemindedStep, Reminded

LEMMA RemindedKept == JobsInv /\ [JobsNext]_jobVars => RemindedStep /\ tried \subseteq tried'
<1> SUFFICES ASSUME JobsInv, [JobsNext]_jobVars PROVE RemindedStep /\ tried \subseteq tried' OBVIOUS
<1> DEFINE ForsStay == \A j \in Jobs : job'[j].for = job[j].for
<1>0. job \in [Jobs -> JobRecords] /\ \A j \in Jobs : job[j] \in JobRecords
  BY DEF JobsInv, JobsTypeOK
<1>1. CASE EnqueueExport
  BY <1>1, CreatedReminds DEF EnqueueExport
<1>2. ASSUME NEW i \in Instances, ProcessBatch(i) PROVE ForsStay /\ UNCHANGED tried
  <2>1. CASE Recover(i)
    BY <1>0, <2>1 DEF Recover, JobRecords
  <2>2. CASE ProcessNextJob(i)
    <3>1. SUFFICES ASSUME NEW j \in Jobs,
                     job' = [job EXCEPT ![j].status = "running", ![j].lease = "held",
                                        ![j].attempts = @ + 1]
            PROVE ForsStay
      BY <2>2 DEF ProcessNextJob
    <3>2. job[j] \in JobRecords
      BY <1>0
    <3>3. job'[j].for = job[j].for
      BY <1>0, <3>1, <3>2 DEF JobRecords
    <3>4. \A k \in Jobs \ {j} : job'[k] = job[k]
      BY <1>0, <3>1
    <3> QED BY <3>3, <3>4
  <2>3. CASE Run(i) \/ Bury(i)
    BY <2>3 DEF Run, Bury
  <2>4. CASE SaveOutcome(i)
    BY <1>0, <2>4 DEF SaveOutcome, JobRecords
  <2> QED BY <1>2, <2>1, <2>2, <2>3, <2>4 DEF ProcessBatch
<1>3. ASSUME NEW i \in Instances, Remind(i) PROVE RemindedStep /\ tried \subseteq tried'
  <2>1. CASE UNCHANGED job
    BY <1>3, <2>1 DEF Remind, RemindedStep, Reminded
  <2>2. CASE job' # job
    BY <1>3, <2>2, CreatedReminds DEF Remind, Booked
  <2> QED BY <2>1, <2>2
<1>4. ASSUME NEW i \in Instances, Reminders(i), ~Remind(i) PROVE ForsStay /\ UNCHANGED tried
  BY <1>4 DEF Reminders, SweepFind, Flag, SweepFails
<1>5. ASSUME NEW i \in Instances, InstanceDies(i) PROVE ForsStay /\ UNCHANGED tried
  BY <1>5 DEF InstanceDies
<1>6. ASSUME NEW j \in Jobs, LeaseEnds(j) PROVE ForsStay /\ UNCHANGED tried
  BY <1>0, <1>6 DEF LeaseEnds, JobRecords
<1>7. ASSUME NEW c \in Callers, NEW j \in Jobs, RetryLoad(c, j) PROVE ForsStay /\ UNCHANGED tried
  BY <1>7 DEF RetryLoad
<1>8. ASSUME NEW c \in Callers, NEW l \in DOMAIN letter, ReplayEnqueue(c, l)
      PROVE  RemindedStep /\ tried \subseteq tried'
  <2>1. job[l[1]].for \in Booked \cup {Nothing}
    BY <1>8 DEF JobsInv, JobsTypeOK, JobRecords
  <2> QED BY <1>8, <2>1, CreatedReminds DEF ReplayEnqueue
<1>9. ASSUME NEW c \in Callers, RetrySave(c) PROVE ForsStay /\ UNCHANGED tried
  BY <1>0, <1>9 DEF RetrySave, JobRecords
<1>10. ASSUME NEW c \in Callers, ReplayMark(c) PROVE ForsStay /\ UNCHANGED tried
  BY <1>10 DEF ReplayMark
<1>11. ASSUME NEW l \in DOMAIN letter, Discard(l) PROVE ForsStay /\ UNCHANGED tried
  BY <1>11 DEF Discard
<1>12. CASE UNCHANGED jobVars
  BY <1>12 DEF jobVars, RemindedStep, Reminded
<1>13. ForsStay /\ UNCHANGED tried => RemindedStep /\ tried \subseteq tried'
  BY DEF RemindedStep, Reminded
<1> QED
  BY <1>1, <1>2, <1>3, <1>4, <1>5, <1>6, <1>7, <1>8, <1>9, <1>10, <1>11, <1>12, <1>13 DEF JobsNext

(* What the sweeps, the callers and the letters keep.                      *)
SweepsStep ==
  /\ sweep' \in [Instances -> SweepRecords]
  /\ \A i \in Instances : sweep'[i].at = "flag" =>
       sweep'[i] = sweep[i] \/ (sweep[i].now \in Booked /\ Reminded(sweep[i].now))'
  /\ flagged' \subseteq Booked
  /\ \A b \in flagged' \ flagged : Reminded(b)

LEMMA RemindSweeps ==
  ASSUME JobsInv, NEW i \in Instances, Remind(i) PROVE SweepsStep
<1> USE DEF JobsInv
<1>1. PICK b \in sweep[i].found :
        /\ \/ b \in Due /\ Created(b) /\ UNCHANGED tried
           \/ b \in Holds /\ tried' = tried \cup {b}
        /\ sweep' = [sweep EXCEPT ![i].at = "flag", ![i].now = b]
  BY DEF Remind
<1>2. sweep[i] \in SweepRecords /\ b \in Booked /\ UNCHANGED flagged
  BY <1>1 DEF JobsTypeOK, SweepRecords, Remind
<1>3. sweep' = [sweep EXCEPT ![i] = [sweep[i] EXCEPT !.at = "flag", !.now = b]]
  BY <1>1, <1>2 DEF JobsTypeOK, SweepRecords
<1>4. Reminded(b)'
  BY <1>1, <1>2, CreatedReminds DEF Reminded
<1>5. sweep'[i] \in SweepRecords /\ sweep'[i].now = b
  BY <1>2, <1>3 DEF JobsTypeOK, SweepRecords
<1>6. \A k \in Instances \ {i} : sweep'[k] = sweep[k]
  BY <1>3 DEF JobsTypeOK
<1>7. sweep' \in [Instances -> SweepRecords]
  BY <1>3, <1>5, <1>6 DEF JobsTypeOK
<1> QED BY <1>2, <1>4, <1>5, <1>6, <1>7 DEF SweepsStep, JobsTypeOK

LEMMA FlagSweeps ==
  ASSUME JobsInv, NEW i \in Instances, Flag(i) PROVE SweepsStep
<1> USE DEF JobsInv
<1>1. sweep[i] \in SweepRecords /\ sweep[i].at = "flag"
  BY DEF Flag, JobsTypeOK
<1>2. flagged' = flagged \cup {sweep[i].now} /\ sweep[i].now \in Booked /\ Reminded(sweep[i].now)
  BY <1>1 DEF Flag, SweepsOwn
<1>3. PICK s \in SweepRecords : s.at # "flag" /\ sweep' = [sweep EXCEPT ![i] = s]
  <2> DEFINE rest == sweep[i].found \ {sweep[i].now}
  <2>1. sweep' = [sweep EXCEPT ![i] =
                   IF rest = {} THEN IdleSweep
                   ELSE [at |-> "next", found |-> rest, now |-> Nothing]]
    BY DEF Flag, Rest
  <2>2. IdleSweep \in SweepRecords /\ IdleSweep.at # "flag"
    BY DEF IdleSweep, SweepRecords
  <2>3. [at |-> "next", found |-> rest, now |-> Nothing] \in SweepRecords
    BY <1>1 DEF SweepRecords
  <2> QED BY <2>1, <2>2, <2>3
<1>4. sweep'[i] = s /\ \A k \in Instances \ {i} : sweep'[k] = sweep[k]
  BY <1>3 DEF JobsTypeOK
<1>5. sweep' \in [Instances -> SweepRecords]
  BY <1>3, <1>4 DEF JobsTypeOK
<1> QED BY <1>2, <1>3, <1>4, <1>5 DEF SweepsStep, JobsTypeOK

(* A sweep that begins, gives a hold up or dies is not about to flag.      *)
LEMMA OtherSweeps ==
  ASSUME JobsInv, NEW i \in Instances, NEW s \in SweepRecords, s.at # "flag",
         sweep' = [sweep EXCEPT ![i] = s], UNCHANGED flagged
  PROVE  SweepsStep
<1> USE DEF JobsInv
<1>1. sweep'[i] = s /\ \A k \in Instances \ {i} : sweep'[k] = sweep[k]
  BY DEF JobsTypeOK
<1>2. sweep' \in [Instances -> SweepRecords]
  BY <1>1 DEF JobsTypeOK
<1> QED BY <1>1, <1>2 DEF SweepsStep, JobsTypeOK

LEMMA SweepsKept == JobsInv /\ [JobsNext]_jobVars => SweepsStep
<1> SUFFICES ASSUME JobsInv, [JobsNext]_jobVars PROVE SweepsStep OBVIOUS
<1>1. ASSUME UNCHANGED <<sweep, flagged>> PROVE SweepsStep
  BY <1>1 DEF JobsInv, JobsTypeOK, SweepsStep
<1>2. ASSUME NEW i \in Instances, Reminders(i) PROVE SweepsStep
  <2>0. sweep[i] \in SweepRecords
    BY DEF JobsInv, JobsTypeOK
  <2>1. ASSUME NEW B \in {Due, Holds}, SweepFind(i, B) PROVE SweepsStep
    <3>1. [at |-> "next", found |-> B \ flagged, now |-> Nothing] \in SweepRecords
      BY DEF SweepRecords, Booked
    <3> QED BY <2>1, <3>1, OtherSweeps DEF SweepFind
  <2>2. CASE SweepFails(i)
    <3> DEFINE rest == sweep[i].found \ {sweep[i].now}
               s == [at |-> "next", found |-> rest, now |-> Nothing]
    <3>1. sweep' = [sweep EXCEPT ![i] = s] \/ sweep' = [sweep EXCEPT ![i] = IdleSweep]
      BY <2>2 DEF SweepFails, Rest
    <3>2. s \in SweepRecords /\ s.at # "flag"
      BY <2>0 DEF SweepRecords
    <3>3. IdleSweep \in SweepRecords /\ IdleSweep.at # "flag"
      BY DEF IdleSweep, SweepRecords
    <3> HIDE DEF s
    <3> QED BY <2>2, <3>1, <3>2, <3>3, OtherSweeps DEF SweepFails
  <2> QED BY <1>2, <2>1, <2>2, RemindSweeps, FlagSweeps DEF Reminders
<1>3. ASSUME NEW i \in Instances, InstanceDies(i) PROVE SweepsStep
  <2>1. IdleSweep \in SweepRecords /\ IdleSweep.at # "flag"
    BY DEF IdleSweep, SweepRecords
  <2> QED BY <1>3, <2>1, OtherSweeps DEF InstanceDies
<1> QED
  BY <1>1, <1>2, <1>3 DEF JobsNext, jobVars, EnqueueExport, ProcessBatch, Recover, ProcessNextJob,
     Run, Bury, SaveOutcome, LeaseEnds, RetryLoad, RetrySave, ReplayEnqueue, ReplayMark, Discard

LEMMA CallersKept ==
  ASSUME JobsInv, [JobsNext]_jobVars
  PROVE  /\ caller' \in [Callers -> CallerRecords] /\ DOMAIN letter' = Jobs \X (1..MaxRuns)
         /\ disturbed' \subseteq Jobs \cup {Nothing}
<1> USE DEF JobsInv
<1>1. caller \in [Callers -> CallerRecords] /\ DOMAIN letter = Jobs \X (1..MaxRuns)
      /\ disturbed \subseteq Jobs \cup {Nothing}
  BY DEF JobsTypeOK
<1> DEFINE Kept == /\ caller' \in [Callers -> CallerRecords]
                   /\ DOMAIN letter' = Jobs \X (1..MaxRuns) /\ disturbed' \subseteq Jobs \cup {Nothing}
<1>2. ASSUME NEW c \in Callers, NEW j \in Jobs, RetryLoad(c, j) PROVE Kept
  BY <1>1, <1>2 DEF RetryLoad, CallerRecords, IdleCaller
<1>3. ASSUME NEW c \in Callers, NEW l \in DOMAIN letter, ReplayEnqueue(c, l) PROVE Kept
  BY <1>1, <1>3 DEF ReplayEnqueue, CallerRecords, IdleCaller
<1>4. ASSUME NEW c \in Callers, RetrySave(c) PROVE Kept
  <2>1. caller[c] \in CallerRecords
    BY <1>1
  <2> QED BY <1>1, <1>4, <2>1 DEF RetrySave, CallerRecords, IdleCaller
<1>5. ASSUME NEW c \in Callers, ReplayMark(c) PROVE Kept
  BY <1>1, <1>5 DEF ReplayMark, CallerRecords, IdleCaller
<1>6. ASSUME NEW j \in Jobs, LeaseEnds(j) PROVE Kept
  BY <1>1, <1>6 DEF LeaseEnds
<1>7. ASSUME NEW i \in Instances, Bury(i) PROVE Kept
  BY <1>1, <1>7 DEF Bury
<1>8. ASSUME NEW l \in DOMAIN letter, Discard(l) PROVE Kept
  BY <1>1, <1>8 DEF Discard
<1> QED
  BY <1>1, <1>2, <1>3, <1>4, <1>5, <1>6, <1>7, <1>8 DEF JobsNext, jobVars, EnqueueExport,
     ProcessBatch, Recover, ProcessNextJob, Run, SaveOutcome, Reminders, SweepFind, Remind, Flag,
     SweepFails, InstanceDies

LEMMA NextKeepsInv == JobsInv /\ [JobsNext]_jobVars => JobsInv' /\ CompletedStep
<1> SUFFICES ASSUME JobsInv, [JobsNext]_jobVars PROVE JobsInv' /\ CompletedStep OBVIOUS
<1>1. RunsStep /\ RemindedStep /\ SweepsStep
  BY RunsKept, RemindedKept, SweepsKept
<1>2. JobsTypeOK'
  BY <1>1, CallersKept DEF RunsStep, SweepsStep, JobsTypeOK
<1>3. SweepsOwn'
  BY <1>1 DEF JobsInv, SweepsOwn, SweepsStep, RemindedStep
<1>4. \A b \in flagged' : Reminded(b)'
  <2>1. \A b \in flagged : Reminded(b)
    BY DEF JobsInv, RemindersKept, Reminded
  <2> QED BY <1>1, <2>1 DEF SweepsStep, RemindedStep
<1>5. RemindersKept'
  BY <1>4 DEF RemindersKept, Reminded
<1> QED BY <1>1, <1>2, <1>3, <1>5 DEF JobsInv, RunsStep

LEMMA InvHolds == JobsSpec => []JobsInv
<1>1. JobsInv /\ [JobsNext]_jobVars => JobsInv'
  BY NextKeepsInv
<1> QED BY InitInv, <1>1, PTL DEF JobsSpec

(* A job that nobody retried and no instance ran beyond its lease is done  *)
(* when it is completed, however instances die and recover each other's.   *)
THEOREM CompletedIsKept == JobsSpec => CompletedKept
<1>1. JobsInv /\ [JobsNext]_jobVars =>
        [\A j \in Jobs \ disturbed' :
           job[j].status = "completed" => job'[j].status = "completed"]_jobVars
  BY NextKeepsInv DEF CompletedStep
<1> QED BY InvHolds, <1>1, PTL DEF JobsSpec, CompletedKept

(* A booking is flagged as reminded only when its reminder is on its way,  *)
(* wherever the instance that flags it dies (bookingReminders).            *)
THEOREM RemindersAreKept == JobsSpec => []RemindersKept
<1>1. JobsInv => RemindersKept
  BY DEF JobsInv
<1> QED BY InvHolds, <1>1, PTL

-----------------------------------------------------------------------------
(***************************************************************************)
(* The outbox, for any batch size and number of attempts.                  *)
(***************************************************************************)
EventRecords ==
  [status : {"none", "pending", "processing", "sent", "failed", "dead"},
   by : Workers \cup {Nobody}, leased : BOOLEAN, attempts : Nat]
WorkerRecords ==
  [pc : {"idle", "claiming", "deliver", "delivered", "failed"},
   batch : Seq(Events)]

(* A worker that is not idle has an event at the head of its batch. *)
BatchKept ==
  \A w \in Workers : worker[w].pc # "idle" => worker[w].batch # <<>>

(* What a worker is about to mark as sent has been delivered, or its       *)
(* service swallows errors.                                                *)
MarksDelivered ==
  \A w \in Workers : worker[w].pc = "delivered" => Current(w) \in delivered \cup Swallowed

OutboxInv == OutboxTypeOK /\ BatchKept /\ MarksDelivered /\ SentDelivered

USE OutboxConstants

(* What NextOfBatch leaves behind has the type of a worker. *)
LEMMA NextOfBatchType ==
  ASSUME OutboxTypeOK, BatchKept, NEW w \in Workers, worker[w].pc # "idle",
         NextOfBatch(w)
  PROVE  /\ worker' \in [Workers -> WorkerRecords]
         /\ BatchKept'
         /\ \A v \in Workers : worker'[v].pc = "delivered" =>
              v # w /\ worker'[v] = worker[v]
<1>1. /\ worker \in [Workers -> WorkerRecords]
      /\ worker[w].batch \in Seq(Events) /\ worker[w].batch # <<>>
  BY DEF OutboxTypeOK, BatchKept, WorkerRecords
<1>2. CASE Len(worker[w].batch) = 1
  <2>1. worker' = [worker EXCEPT ![w] = IdleWorker]
    BY <1>2 DEF NextOfBatch
  <2>2. IdleWorker \in WorkerRecords
    BY DEF IdleWorker, WorkerRecords
  <2> QED BY <1>1, <2>1, <2>2 DEF IdleWorker, BatchKept, WorkerRecords
<1>3. CASE Len(worker[w].batch) # 1
  <2> DEFINE rest == Tail(worker[w].batch)
             next == [pc |-> "deliver", batch |-> rest]
  <2>1. worker' = [worker EXCEPT ![w] = next]
    BY <1>3 DEF NextOfBatch
  <2>2. rest \in Seq(Events) /\ rest # <<>>
    <3>1. /\ Len(worker[w].batch) \in Nat /\ Len(worker[w].batch) # 0
          /\ rest \in Seq(Events)
          /\ Len(rest) = Len(worker[w].batch) - 1
      BY <1>1, EmptySeq, LenProperties, HeadTailProperties
    <3> HIDE DEF rest
    <3>2. Len(rest) # 0
      BY <1>3, <3>1
    <3> QED BY <3>1, <3>2, EmptySeq
  <2>3. next \in WorkerRecords
    BY <2>2 DEF WorkerRecords
  <2> HIDE DEF rest
  <2> QED BY <1>1, <2>1, <2>2, <2>3 DEF BatchKept, WorkerRecords
<1> QED BY <1>2, <1>3

(* A step of claimBatch. *)
LEMMA ClaimKeeps ==
  ASSUME OutboxInv, NEW w \in Workers, NEW e \in Events, Claim(w, e)
  PROVE  OutboxInv'
<1> USE DEF OutboxInv
<1> DEFINE taken == [status |-> "processing", by |-> w, leased |-> TRUE,
                     attempts |-> AtMost(event[e].attempts + 1, MaxAttempts)]
           batch == Append(worker[w].batch, e)
           next == [pc |-> "claiming", batch |-> batch]
<1>1. /\ event \in [Events -> EventRecords]
      /\ worker \in [Workers -> WorkerRecords]
      /\ expired \subseteq Expiring /\ delivered \subseteq Events
  BY DEF OutboxTypeOK, EventRecords, WorkerRecords
<1>2. taken \in EventRecords
  BY <1>1 DEF EventRecords, AtMost
<1>3. batch \in Seq(Events) /\ batch # <<>>
  <2>1. worker[w].batch \in Seq(Events)
    BY <1>1 DEF WorkerRecords
  <2> QED BY <2>1, AppendProperties
<1>4. next \in WorkerRecords
  BY <1>3 DEF WorkerRecords
<1>5. /\ event' = [event EXCEPT ![e] = taken]
      /\ worker' = [worker EXCEPT ![w] = next]
      /\ expired' = expired /\ delivered' = delivered
  BY DEF Claim
<1>6. OutboxTypeOK'
  <2>1. event' \in [Events -> EventRecords] /\ worker' \in [Workers -> WorkerRecords]
    BY <1>1, <1>2, <1>4, <1>5
  <2> QED BY <1>1, <1>5, <2>1 DEF OutboxTypeOK, EventRecords, WorkerRecords
<1> HIDE DEF batch
<1>7. BatchKept'
  BY <1>1, <1>3, <1>5 DEF BatchKept
<1>8. MarksDelivered'
  BY <1>1, <1>5 DEF MarksDelivered, Current
<1>9. SentDelivered'
  BY <1>1, <1>5 DEF SentDelivered
<1> QED BY <1>6, <1>7, <1>8, <1>9

(* The two marks and the end of an iteration. *)
LEMMA MarkKeeps ==
  ASSUME OutboxInv, NEW w \in Workers, MarkSent(w) \/ MarkFailed(w)
  PROVE  OutboxInv'
<1> USE DEF OutboxInv
<1> DEFINE e == Current(w)
<1>1. worker[w].pc # "idle" /\ worker[w].batch \in Seq(Events)
        /\ worker[w].batch # <<>> /\ NextOfBatch(w)
        /\ expired' = expired /\ delivered' = delivered
  BY DEF MarkSent, MarkFailed, OutboxTypeOK, BatchKept
<1>2. e \in Events
  BY <1>1 DEF Current
<1>3. /\ worker' \in [Workers -> WorkerRecords]
      /\ BatchKept'
      /\ \A v \in Workers : worker'[v].pc = "delivered" =>
           v # w /\ worker'[v] = worker[v]
  BY <1>1, NextOfBatchType
<1>4. /\ event' \in [Events -> EventRecords]
      /\ \A f \in Events : event'[f].status = "sent" =>
           event[f].status = "sent" \/ (f = e /\ worker[w].pc = "delivered")
  <2>1. event \in [Events -> EventRecords]
    BY DEF OutboxTypeOK, EventRecords
  <2>2. CASE MarkSent(w)
    BY <1>2, <2>1, <2>2 DEF MarkSent, EventRecords
  <2>3. CASE MarkFailed(w)
    <3>1. event' = event \/ event' = Failed(e)
      BY <2>3 DEF MarkFailed
    <3>2. CASE event' = Failed(e)
      <4> HIDE DEF e
      <4>1. event[e] \in EventRecords
        BY <1>2, <2>1
      <4>2. PICK s \in {"dead", "failed"} :
              event' = [event EXCEPT ![e].leased = FALSE, ![e].status = s]
        BY <3>2 DEF Failed
      <4> QED BY <1>2, <2>1, <4>1, <4>2 DEF EventRecords
    <3> QED BY <2>1, <3>1, <3>2
  <2> QED BY <2>2, <2>3
<1>5. OutboxTypeOK'
  BY <1>1, <1>3, <1>4 DEF OutboxTypeOK, EventRecords, WorkerRecords
<1>6. MarksDelivered'
  BY <1>1, <1>3 DEF MarksDelivered, Current
<1>7. SentDelivered'
  BY <1>1, <1>4 DEF SentDelivered, MarksDelivered
<1> QED BY <1>3, <1>5, <1>6, <1>7

(* Steps that change a worker only, or an event that is not marked. *)
LEMMA OtherKeeps ==
  ASSUME OutboxInv,
         \/ \E e \in Events : Enqueue(e) \/ LeaseLapses(e) \/ Expires(e)
         \/ \E w \in Workers :
              ClaimEnds(w) \/ Deliver(w) \/ DeliverFails(w) \/ Dies(w)
  PROVE  OutboxInv'
<1> USE DEF OutboxInv
<1>0. /\ event \in [Events -> EventRecords]
      /\ worker \in [Workers -> WorkerRecords]
      /\ expired \subseteq Expiring /\ delivered \subseteq Events
  BY DEF OutboxTypeOK, EventRecords, WorkerRecords
<1>1. ASSUME NEW e \in Events, Enqueue(e) \/ LeaseLapses(e) \/ Expires(e)
      PROVE  OutboxInv'
  <2>1. worker' = worker /\ delivered' = delivered
    BY <1>1 DEF Enqueue, LeaseLapses, Expires
  <2>2. /\ event' \in [Events -> EventRecords]
        /\ \A f \in Events : event'[f].status = "sent" => event[f].status = "sent"
    <3>1. CASE Enqueue(e)
      BY <1>0, <3>1 DEF Enqueue, EventRecords
    <3>2. CASE LeaseLapses(e)
      BY <1>0, <3>2 DEF LeaseLapses, EventRecords
    <3>3. CASE Expires(e)
      BY <1>0, <3>3 DEF Expires
    <3> QED BY <1>1, <3>1, <3>2, <3>3
  <2>3. expired' \subseteq Expiring
    BY <1>0, <1>1 DEF Enqueue, LeaseLapses, Expires
  <2>4. OutboxTypeOK'
    BY <1>0, <2>1, <2>2, <2>3 DEF OutboxTypeOK, EventRecords, WorkerRecords
  <2> QED BY <2>1, <2>2, <2>4 DEF BatchKept, MarksDelivered, SentDelivered, Current
<1>2. ASSUME NEW w \in Workers, ClaimEnds(w) \/ DeliverFails(w) \/ Dies(w) \/ Deliver(w)
      PROVE  OutboxInv'
  <2> DEFINE c == Current(w)
  <2>1. event' = event /\ expired' = expired
    BY <1>2 DEF ClaimEnds, Deliver, DeliverFails, Dies
  <2>2. ASSUME Deliver(w) \/ DeliverFails(w) PROVE c \in Events
    BY <1>0, <2>2, HeadTailProperties
       DEF Deliver, DeliverFails, Current, BatchKept, WorkerRecords
  <2>3. /\ delivered' \subseteq Events
        /\ \A e \in Events : e \in delivered => e \in delivered'
        /\ Deliver(w) => c \in delivered' \cup Swallowed
    <3>1. CASE Deliver(w)
      BY <1>0, <2>2, <3>1 DEF Deliver
    <3>2. CASE DeliverFails(w)
      <4>1. ~Deliver(w)
        <5>1. worker'[w].pc = "failed"
          BY <1>0, <3>2 DEF DeliverFails, WorkerRecords
        <5> QED BY <1>0, <5>1 DEF Deliver, WorkerRecords
      <4> QED BY <1>0, <2>2, <3>2, <4>1 DEF DeliverFails
    <3>3. CASE (ClaimEnds(w) \/ Dies(w)) /\ ~Deliver(w)
      BY <1>0, <3>3 DEF ClaimEnds, Dies
    <3> QED BY <1>2, <3>1, <3>2, <3>3
  <2>4. /\ worker' \in [Workers -> WorkerRecords]
        /\ \A v \in Workers : worker'[v].pc # "idle" =>
             worker[v].pc # "idle" /\ worker'[v].batch = worker[v].batch
        /\ \A v \in Workers : worker'[v].pc = "delivered" =>
             (v = w /\ Deliver(w)) \/ worker[v].pc = "delivered"
    <3>1. CASE Deliver(w)
      BY <1>0, <3>1 DEF Deliver, WorkerRecords
    <3>2. CASE DeliverFails(w)
      BY <1>0, <3>2 DEF DeliverFails, WorkerRecords
    <3>3. CASE ClaimEnds(w)
      BY <1>0, <3>3 DEF ClaimEnds, WorkerRecords
    <3>4. CASE Dies(w)
      <4>1. worker' = [worker EXCEPT ![w] = IdleWorker] /\ IdleWorker \in WorkerRecords
        BY <3>4 DEF Dies, IdleWorker, WorkerRecords
      <4> QED BY <1>0, <4>1 DEF IdleWorker, WorkerRecords
    <3> QED BY <1>2, <3>1, <3>2, <3>3, <3>4
  <2>5. OutboxTypeOK'
    BY <1>0, <2>1, <2>3, <2>4 DEF OutboxTypeOK, EventRecords, WorkerRecords
  <2>6. BatchKept'
    BY <2>4 DEF BatchKept
  <2>7. MarksDelivered'
    <3> SUFFICES ASSUME NEW v \in Workers, worker'[v].pc = "delivered"
                 PROVE  Current(v)' \in delivered' \cup Swallowed
      BY DEF MarksDelivered
    <3>1. worker'[v].batch = worker[v].batch /\ worker[v].pc # "idle"
      BY <2>4
    <3>2. Current(v)' = Current(v) /\ Current(v) \in Events
      BY <1>0, <3>1, HeadTailProperties DEF Current, BatchKept, WorkerRecords
    <3> QED BY <2>3, <2>4, <3>2 DEF MarksDelivered
  <2>8. SentDelivered'
    BY <2>1, <2>3 DEF SentDelivered
  <2> QED BY <2>5, <2>6, <2>7, <2>8
<1> QED BY <1>1, <1>2

LEMMA OutboxStart == OutboxInit => OutboxInv
BY DEF OutboxInit, OutboxInv, OutboxTypeOK, BatchKept, MarksDelivered,
       SentDelivered, IdleWorker

LEMMA OutboxStep ==
  ASSUME OutboxInv, [OutboxNext]_outboxVars PROVE OutboxInv'
<1>1. CASE OutboxNext
  BY <1>1, ClaimKeeps, MarkKeeps, OtherKeeps DEF OutboxNext, ProcessPending
<1>2. CASE UNCHANGED outboxVars
  BY <1>2 DEF outboxVars, OutboxInv, OutboxTypeOK, BatchKept,
             MarksDelivered, SentDelivered, Current
<1> QED BY <1>1, <1>2

LEMMA OutboxInvHolds == OutboxSpec => []OutboxInv
BY OutboxStart, OutboxStep, PTL DEF OutboxSpec

(* The documents and the workers keep their type. *)
THEOREM OutboxTypeCorrect == OutboxSpec => []OutboxTypeOK
<1>1. OutboxInv => OutboxTypeOK
  BY DEF OutboxInv
<1> QED BY <1>1, OutboxInvHolds, PTL

(* Whatever lapses, fails or dies, an event marked as sent was delivered,  *)
(* if its service reports its errors: a provider refund or a mail of its   *)
(* own is never lost by its worker's bookkeeping (processPending).         *)
THEOREM SentWasDelivered == OutboxSpec => []SentDelivered
<1>1. OutboxInv => SentDelivered
  BY DEF OutboxInv
<1> QED BY <1>1, OutboxInvHolds, PTL

(* No worker, however late, reopens an event that was sent or is dead: the *)
(* marks are conditional on the lease, and a claim on the status.          *)
THEOREM SettledStaysSettled == OutboxSpec => SettledFinal
<1>1. OutboxInv /\ [OutboxNext]_outboxVars =>
        [\A e \in Events : event[e].status \in {"sent", "dead"} =>
           event'[e].status = event[e].status]_outboxVars
  <2> SUFFICES ASSUME OutboxInv, OutboxNext, NEW e \in Events,
                      event[e].status \in {"sent", "dead"}
               PROVE  event'[e].status = event[e].status
    OBVIOUS
  <2>0. event \in [Events -> EventRecords]
    BY DEF OutboxInv, OutboxTypeOK, EventRecords
  <2>1. CASE \E f \in Events : Enqueue(f) \/ LeaseLapses(f) \/ Expires(f)
    BY <2>0, <2>1 DEF Enqueue, LeaseLapses, Expires, EventRecords
  <2>2. CASE \E w \in Workers, f \in Events : Claim(w, f)
    BY <2>0, <2>2 DEF Claim, Claimable, EventRecords
  <2>3. CASE \E w \in Workers : MarkSent(w)
    BY <2>0, <2>3 DEF MarkSent, Owns, EventRecords
  <2>4. CASE \E w \in Workers : MarkFailed(w)
    BY <2>0, <2>4 DEF MarkFailed, Failed, Owns, EventRecords
  <2>5. CASE \E w \in Workers :
               ClaimEnds(w) \/ Deliver(w) \/ DeliverFails(w) \/ Dies(w)
    BY <2>5 DEF ClaimEnds, Deliver, DeliverFails, Dies
  <2> QED BY <2>1, <2>2, <2>3, <2>4, <2>5 DEF OutboxNext, ProcessPending
<1> QED BY <1>1, OutboxInvHolds, PTL DEF OutboxSpec, SettledFinal

(* The scenes of the worker processes are behaviours of both parts.        *)
LEMMA WorkersAreBoth == WorkersSpec => OutboxSpec /\ JobsSpec
<1>1. WorkersInit => OutboxInit /\ JobsInit
  BY DEF WorkersInit
<1>2. [WorkersNext]_workerVars => [OutboxNext]_outboxVars /\ [JobsNext]_jobVars
  <2>1. ASSUME WorkersNext PROVE [OutboxNext]_outboxVars /\ [JobsNext]_jobVars
    <3>1. CASE OutboxNext /\ UNCHANGED jobVars
      BY <3>1
    <3>2. CASE JobsScene
      <4>1. UNCHANGED outboxVars
        BY <3>2 DEF JobsScene
      <4>2. JobsNext
        BY <3>2 DEF JobsScene, JobsNext
      <4> QED BY <4>1, <4>2
    <3> QED BY <2>1, <3>1, <3>2 DEF WorkersNext
  <2>2. CASE UNCHANGED workerVars
    BY <2>2 DEF workerVars
  <2> QED BY <2>1, <2>2
<1> QED BY <1>1, <1>2, PTL DEF WorkersSpec, OutboxSpec, JobsSpec

(* What is marked as done was done: a sent event was delivered, a flagged  *)
(* booking has its reminder (outboxService.processPending, jobQueue).      *)
THEOREM MarkedMeansDone == WorkersSpec => []MarkedIsDone
<1>1. OutboxInv /\ JobsInv => MarkedIsDone
  BY DEF OutboxInv, JobsInv, MarkedIsDone
<1> QED BY <1>1, WorkersAreBoth, OutboxInvHolds, InvHolds, PTL

-----------------------------------------------------------------------------
(***************************************************************************)
(* Events between the services.  A row of the inbox stands for the one     *)
(* time its event was applied, and at most one transaction is about to     *)
(* insert it.  An event is somewhere from the confirmation of the broker   *)
(* on, and every step of a consumer leaves it somewhere.                   *)
(***************************************************************************)
ConsumerRecords ==
  [at : {"idle", "check", "insert", "apply", "failed", "ack", "to_dlq"},
   event : Envelopes \cup {NoOne}, deaths : 0..MaxDeaths, own : BOOLEAN]
AdminRecords ==
  [at : {"idle", "replay", "replayed", "undo", "discard"}, event : Envelopes \cup {NoOne}]

(* What the argument needs of these records is that they have certain fields. *)
RowShape(x) == "status" \in DOMAIN x
PublisherShape(x) == {"at", "row"} \subseteq DOMAIN x

EventsTyped ==
  /\ row = [e \in Envelopes |-> row[e]] /\ \A e \in Envelopes : RowShape(row[e])
  /\ publisher = [p \in Publishers |-> publisher[p]]
  /\ \A p \in Publishers : PublisherShape(publisher[p])
  /\ queue \in [Envelopes \X (0..MaxDeaths) -> Nat]
  /\ consumer \in [Consumers -> ConsumerRecords]
  /\ admin \in [Admins -> AdminRecords]
  /\ applied \in [Envelopes -> Nat]
  /\ \A p \in Publishers : publisher[p].at # "idle" => publisher[p].row \in Envelopes
  /\ \A c \in Consumers : consumer[c].at # "idle" => consumer[c].event \in Envelopes
  /\ \A a \in Admins : admin[a].at # "idle" => admin[a].event \in Envelopes

InboxSound ==
  /\ \A e \in Envelopes : applied[e] = IF e \in inbox THEN 1 ELSE 0
  /\ \A c \in Consumers : consumer[c].at = "apply" => consumer[c].event \notin inbox
  /\ \A c \in Consumers : consumer[c].at = "ack" => consumer[c].event \in inbox
  /\ \A b, c \in Consumers :
       consumer[b].at = "apply" /\ consumer[c].at = "apply"
         /\ consumer[b].event = consumer[c].event => b = c

Somewhere(e) ==
  \/ \E d \in 0..MaxDeaths : queue[<<e, d>>] > 0
  \/ \E c \in Consumers : consumer[c].event = e
  \/ e \in inbox \/ e \in dlq \/ e \in dropped

ConfirmedSomewhere ==
  \A p \in Publishers, e \in Envelopes :
    publisher[p].at = "confirmed" /\ publisher[p].row = e => Somewhere(e)
PublishedSomewhere ==
  \A e \in Envelopes : row[e].status = "published" => Somewhere(e)

EventsInv == EventsTyped /\ InboxSound /\ ConfirmedSomewhere /\ PublishedSomewhere

QueueTyped == queue \in [Envelopes \X (0..MaxDeaths) -> Nat]
Stays == \A e \in Envelopes : Somewhere(e) => Somewhere(e)'

LEMMA PutKeeps ==
  ASSUME QueueTyped, NEW e \in Envelopes, NEW d \in 0..MaxDeaths, queue' = Put(e, d)
  PROVE  /\ QueueTyped' /\ queue'[<<e, d>>] > 0
         /\ \A f \in Envelopes, n \in 0..MaxDeaths :
              queue[<<f, n>>] > 0 => queue'[<<f, n>>] > 0
<1> DEFINE D == Envelopes \X (0..MaxDeaths)
<1>1. /\ queue \in [D -> Nat] /\ <<e, d>> \in D /\ queue' = [queue EXCEPT ![<<e, d>>] = @ + 1]
      /\ \A f \in Envelopes, n \in 0..MaxDeaths : <<f, n>> \in D
  BY DEF QueueTyped, Put
<1> HIDE DEF D
<1>2. queue' \in [D -> Nat] /\ \A m \in D : queue[m] \in Nat /\ queue'[m] >= queue[m]
  BY <1>1
<1>3. queue'[<<e, d>>] = queue[<<e, d>>] + 1
  BY <1>1
<1> QED BY <1>1, <1>2, <1>3 DEF QueueTyped, D

(* What a step of a publisher amounts to. *)
LEMMA PublisherMoves ==
  ASSUME EventsInv, UNCHANGED <<consumer, inbox, admin, applied>>, dlq \subseteq dlq',
         dropped \subseteq dropped', QueueTyped',
         \A f \in Envelopes, n \in 0..MaxDeaths :
           queue[<<f, n>>] > 0 => queue'[<<f, n>>] > 0,
         row' = [e \in Envelopes |-> row'[e]],
         publisher' = [p \in Publishers |-> publisher'[p]],
         \A e \in Envelopes :
           /\ RowShape(row'[e])
           /\ row'[e].status = "published" => row[e].status = "published" \/ Somewhere(e),
         \A p \in Publishers :
           \/ publisher'[p] = publisher[p]
           \/ /\ PublisherShape(publisher'[p])
              /\ publisher'[p].at # "idle" => publisher'[p].row \in Envelopes
              /\ publisher'[p].at = "confirmed" =>
                   \/ publisher'[p].row \in dropped'
                   \/ \E n \in 0..MaxDeaths : queue'[<<publisher'[p].row, n>>] > 0
  PROVE  EventsInv'
<1>1. EventsTyped'
  BY DEF EventsInv, EventsTyped, QueueTyped
<1>2. InboxSound'
  BY DEF EventsInv, InboxSound
<1>3. Stays
  BY DEF Stays, Somewhere
<1>4. PublishedSomewhere'
  BY <1>3 DEF EventsInv, PublishedSomewhere, Stays
<1>5. ASSUME NEW p \in Publishers, NEW e \in Envelopes,
             publisher'[p].at = "confirmed", publisher'[p].row = e
      PROVE  Somewhere(e)'
  <2>1. CASE publisher'[p] = publisher[p]
    BY <1>3, <1>5, <2>1 DEF EventsInv, ConfirmedSomewhere, Stays
  <2>2. CASE publisher'[p] # publisher[p]
    BY <1>5, <2>2 DEF Somewhere
  <2> QED BY <2>1, <2>2
<1>6. ConfirmedSomewhere'
  BY <1>5 DEF ConfirmedSomewhere
<1> QED BY <1>1, <1>2, <1>4, <1>6 DEF EventsInv

(* The outbox and its publisher. *)
LEMMA PublishingKeeps ==
  ASSUME EventsInv,
         \/ \E e \in Envelopes : EnqueueEvent(e) \/ RowLeaseEnds(e)
         \/ \E p \in Publishers : Publishing(p) \/ StopPublisher(p) \/ PublisherDies(p)
  PROVE  EventsInv'
<1>0. /\ QueueTyped /\ PublisherShape(IdlePublisher) /\ IdlePublisher.at = "idle"
      /\ publisher = [p \in Publishers |-> publisher[p]]
      /\ \A p \in Publishers : PublisherShape(publisher[p])
      /\ row = [e \in Envelopes |-> row[e]] /\ \A e \in Envelopes : RowShape(row[e])
      /\ \A p \in Publishers : publisher[p].at # "idle" => publisher[p].row \in Envelopes
  BY DEF EventsInv, EventsTyped, QueueTyped, PublisherShape, IdlePublisher
<1> HIDE DEF IdlePublisher
<1>1. ASSUME NEW e \in Envelopes, EnqueueEvent(e) \/ RowLeaseEnds(e) PROVE EventsInv'
  <2>1. /\ UNCHANGED <<consumer, inbox, admin, applied, queue, dlq, dropped, publisher>>
        /\ \/ row' = [row EXCEPT ![e].status = "pending"]
           \/ row' = [row EXCEPT ![e].leased = FALSE]
    BY <1>1 DEF EnqueueEvent, RowLeaseEnds, UnlessPublishing, brokerVars
  <2>2. /\ row' = [f \in Envelopes |-> row'[f]]
        /\ \A f \in Envelopes : RowShape(row'[f])
             /\ (row'[f].status = "published" => row[f].status = "published")
    BY <1>0, <2>1 DEF RowShape
  <2> QED BY <1>0, <2>1, <2>2, PublisherMoves DEF QueueTyped
<1>2. ASSUME NEW p \in Publishers, PublisherDies(p) \/ StopPublisher(p) PROVE EventsInv'
  <2>1. /\ UNCHANGED <<consumer, inbox, admin, applied, queue, dlq, dropped>>
        /\ publisher' = [publisher EXCEPT ![p] = IdlePublisher]
    BY <1>2 DEF PublisherDies, StopPublisher, UnlessPublishing, brokerVars
  <2>2. /\ row' = [f \in Envelopes |-> row'[f]]
        /\ \A f \in Envelopes : RowShape(row'[f])
             /\ (row'[f].status = "published" => row[f].status = "published")
    <3>1. CASE PublisherDies(p)
      BY <1>0, <3>1 DEF PublisherDies
    <3>2. CASE StopPublisher(p)
      <4>1. row' = [f \in Envelopes |-> row'[f]]
        BY <3>2 DEF StopPublisher
      <4>2. ASSUME NEW f \in Envelopes
            PROVE  \/ row'[f] = [row[f] EXCEPT !.status = "pending", !.by = NoOne, !.leased = FALSE]
                   \/ row'[f] = row[f]
        BY <3>2 DEF StopPublisher
      <4>3. ASSUME NEW f \in Envelopes PROVE RowShape(row'[f])
              /\ (row'[f].status = "published" => row[f].status = "published")
        BY <1>0, <4>2 DEF RowShape
      <4> QED BY <4>1, <4>3
    <3> QED BY <1>2, <3>1, <3>2
  <2> QED BY <1>0, <2>1, <2>2, PublisherMoves DEF QueueTyped
<1>3. ASSUME NEW p \in Publishers, NEW e \in Envelopes, ClaimRow(p, e) PROVE EventsInv'
  <2> DEFINE x == [at |-> "send", row |-> e, attempts |-> CountUp(row[e].attempts, MaxPublish),
                   readable |-> row[e].readable]
  <2>1. /\ UNCHANGED <<consumer, inbox, admin, applied, queue, dlq, dropped>>
        /\ publisher' = [publisher EXCEPT ![p] = x]
        /\ row' = [row EXCEPT ![e].status = "processing", ![e].by = p, ![e].leased = TRUE,
                      ![e].attempts = CountUp(row[e].attempts, MaxPublish)]
    BY <1>3 DEF ClaimRow, UnlessPublishing, brokerVars
  <2>2. PublisherShape(x) /\ x.at = "send" /\ x.row \in Envelopes
    BY DEF PublisherShape
  <2>3. /\ row' = [f \in Envelopes |-> row'[f]]
        /\ \A f \in Envelopes : RowShape(row'[f])
             /\ (row'[f].status = "published" => row[f].status = "published")
    BY <1>0, <2>1 DEF RowShape
  <2> HIDE DEF x
  <2> QED BY <1>0, <2>1, <2>2, <2>3, PublisherMoves DEF QueueTyped
<1>4. ASSUME NEW p \in Publishers, PublishEvent(p) \/ PublishFails(p) PROVE EventsInv'
  <2> DEFINE e == publisher[p].row
  <2>1. /\ UNCHANGED <<consumer, inbox, admin, applied, row, dlq>> /\ publisher[p].at = "send"
        /\ \/ queue' = Put(e, 0) /\ UNCHANGED dropped
           \/ UNCHANGED queue /\ dropped' = dropped \cup {e}
           \/ UNCHANGED <<queue, dropped>> /\ publisher' = [publisher EXCEPT ![p].at = "failed"]
        /\ \/ publisher' = [publisher EXCEPT ![p].at = "confirmed"]
           \/ publisher' = [publisher EXCEPT ![p].at = "failed"]
    BY <1>4 DEF PublishEvent, PublishFails, Sending, Arrives, UnlessSent
  <2>2. e \in Envelopes /\ 0 \in 0..MaxDeaths
    BY <1>0, <2>1, EventsConstants
  <2>3. /\ QueueTyped' /\ dropped \subseteq dropped'
        /\ \A f \in Envelopes, n \in 0..MaxDeaths : queue[<<f, n>>] > 0 => queue'[<<f, n>>] > 0
        /\ queue' = Put(e, 0) => queue'[<<e, 0>>] > 0
    <3>1. CASE queue' = Put(e, 0)
      BY <1>0, <2>1, <2>2, <3>1, PutKeeps
    <3>2. CASE queue' # Put(e, 0)
      BY <1>0, <2>1, <3>2 DEF QueueTyped
    <3> QED BY <3>1, <3>2
  <2>4. /\ publisher' = [q \in Publishers |-> publisher'[q]]
        /\ \A q \in Publishers \ {p} : publisher'[q] = publisher[q]
        /\ PublisherShape(publisher'[p]) /\ publisher'[p].row = e
        /\ publisher'[p].at = "confirmed" => queue' = Put(e, 0) \/ e \in dropped'
    BY <1>0, <2>1 DEF PublisherShape
  <2> HIDE DEF e
  <2> QED BY <1>0, <2>1, <2>2, <2>3, <2>4, PublisherMoves
<1>5. ASSUME NEW p \in Publishers, SavePublished(p) \/ SaveFailed(p) PROVE EventsInv'
  <2> DEFINE e == publisher[p].row
  <2>1. /\ UNCHANGED <<consumer, inbox, admin, applied, queue, dropped>> /\ dlq \subseteq dlq'
        /\ publisher' = [publisher EXCEPT ![p] = IdlePublisher]
    BY <1>5 DEF SavePublished, SaveFailed, UnlessPublishing, brokerVars
  <2>2. publisher[p].at = "confirmed" /\ e \in Envelopes => Somewhere(e)
    BY DEF EventsInv, ConfirmedSomewhere
  <2>3. /\ row' = [f \in Envelopes |-> row'[f]]
        /\ \A f \in Envelopes : RowShape(row'[f])
             /\ (row'[f].status = "published" =>
                  row[f].status = "published" \/ (f = e /\ publisher[p].at = "confirmed"))
    <3>1. CASE SavePublished(p)
      BY <1>0, <3>1 DEF SavePublished, Released, RowShape
    <3>2. CASE SaveFailed(p)
      <4>1. \/ row' = Released(e, "dead") \/ row' = Released(e, "failed")
        BY <3>2 DEF SaveFailed
      <4>4. CASE row' = Released(e, "dead")
        BY <1>0, <4>4 DEF Released, RowShape
      <4>5. CASE row' = Released(e, "failed")
        BY <1>0, <4>5 DEF Released, RowShape
      <4> QED BY <4>1, <4>4, <4>5
    <3> QED BY <1>5, <3>1, <3>2
  <2> QED BY <1>0, <2>1, <2>2, <2>3, PublisherMoves DEF QueueTyped
<1> QED BY <1>1, <1>2, <1>3, <1>4, <1>5 DEF Publishing

(* What a step of a consumer amounts to. *)
LEMMA ConsumerMoves ==
  ASSUME EventsInv, UNCHANGED <<row, publisher, admin>>, QueueTyped', Stays,
         NEW c \in Consumers, NEW x \in ConsumerRecords,
         consumer' = [consumer EXCEPT ![c] = x], x.at # "idle" => x.event \in Envelopes,
         applied' \in [Envelopes -> Nat], InboxSound'
  PROVE  EventsInv'
<1>1. EventsTyped'
  BY DEF EventsInv, EventsTyped, QueueTyped
<1>2. ConfirmedSomewhere' /\ PublishedSomewhere'
  BY DEF EventsInv, ConfirmedSomewhere, PublishedSomewhere, Stays
<1> QED BY <1>1, <1>2 DEF EventsInv

(* The inbox stays sound while nobody commits. *)
LEMMA InboxStays ==
  ASSUME EventsInv, UNCHANGED <<inbox, applied>>, NEW c \in Consumers, NEW x \in ConsumerRecords,
         consumer' = [consumer EXCEPT ![c] = x],
         x.at = "ack" => x.event \in inbox,
         x.at = "apply" => x.event \notin inbox /\ ~Inserting(x.event)
  PROVE  InboxSound'
<1>1. consumer \in [Consumers -> ConsumerRecords]
  BY DEF EventsInv, EventsTyped
<1>2. consumer'[c] = x /\ \A b \in Consumers \ {c} : consumer'[b] = consumer[b]
  BY <1>1
<1>3. InboxSound
  BY DEF EventsInv
<1>4. ASSUME NEW a \in Consumers, NEW b \in Consumers,
             consumer'[a].at = "apply", consumer'[b].at = "apply",
             consumer'[a].event = consumer'[b].event
      PROVE  a = b
  BY <1>2, <1>3, <1>4 DEF InboxSound, Inserting
<1>5. \A e \in Envelopes : applied'[e] = IF e \in inbox' THEN 1 ELSE 0
  BY <1>3 DEF InboxSound
<1>6. \A b \in Consumers : /\ consumer'[b].at = "apply" => consumer'[b].event \notin inbox'
                           /\ consumer'[b].at = "ack" => consumer'[b].event \in inbox'
  BY <1>2, <1>3 DEF InboxSound
<1> QED BY <1>4, <1>5, <1>6 DEF InboxSound

(* A consumer that lets its event go leaves it in the inbox, in a queue,   *)
(* with the dead letters, or among what the broker dropped.                *)
LEMMA EventStays ==
  ASSUME EventsInv, NEW c \in Consumers, NEW x \in ConsumerRecords,
         consumer' = [consumer EXCEPT ![c] = x],
         inbox \subseteq inbox', dlq \subseteq dlq', dropped \subseteq dropped',
         \A f \in Envelopes, n \in 0..MaxDeaths :
           \/ queue[<<f, n>>] > 0 => queue'[<<f, n>>] > 0
           \/ x.event = f,
         \/ x.event = consumer[c].event
         \/ consumer[c].event \notin Envelopes
         \/ consumer[c].event \in inbox' \cup dlq' \cup dropped'
         \/ \E n \in 0..MaxDeaths : queue'[<<consumer[c].event, n>>] > 0
  PROVE  Stays
<1>1. consumer \in [Consumers -> ConsumerRecords]
  BY DEF EventsInv, EventsTyped
<1>2. consumer'[c] = x /\ \A b \in Consumers \ {c} : consumer'[b] = consumer[b]
  BY <1>1
<1> SUFFICES ASSUME NEW e \in Envelopes, Somewhere(e) PROVE Somewhere(e)'
  BY DEF Stays
<1>3. CASE \E d \in 0..MaxDeaths : queue[<<e, d>>] > 0
  BY <1>2, <1>3 DEF Somewhere
<1>4. CASE \E b \in Consumers : consumer[b].event = e
  BY <1>2, <1>4 DEF Somewhere
<1> QED BY <1>3, <1>4 DEF Somewhere

LEMMA ConsumingKeeps ==
  ASSUME EventsInv, NEW c \in Consumers, Consuming(c) \/ ConsumerDies(c)
  PROVE  EventsInv'
<1>0. /\ consumer \in [Consumers -> ConsumerRecords] /\ consumer[c] \in ConsumerRecords
      /\ consumer[c].at # "idle" => consumer[c].event \in Envelopes
      /\ consumer[c].deaths \in 0..MaxDeaths /\ MaxDeaths \in Nat
      /\ QueueTyped /\ applied \in [Envelopes -> Nat] /\ InboxSound
  BY EventsConstants DEF EventsInv, EventsTyped, QueueTyped, ConsumerRecords
<1>00. /\ IdleConsumer \in ConsumerRecords /\ IdleConsumer.at = "idle"
       /\ IdleConsumer.event \notin Envelopes
  BY <1>0, EventsConstants DEF IdleConsumer, ConsumerRecords
<1> HIDE DEF IdleConsumer
<1>1. ASSUME NEW e \in Envelopes, NEW d \in 0..MaxDeaths, Receive(c, e, d) PROVE EventsInv'
  <2>1. /\ UNCHANGED <<row, publisher, admin, inbox, dlq, dead, applied, dropped>>
        /\ consumer[c] = IdleConsumer
        /\ queue' = [queue EXCEPT ![<<e, d>>] = @ - 1] /\ queue[<<e, d>>] > 0
    BY <1>1 DEF Receive, UnlessConsuming
  <2>2. PICK x \in ConsumerRecords : /\ x.at = "check" /\ x.event = e
                                     /\ consumer' = [consumer EXCEPT ![c] = x]
    <3>1. PICK own \in BOOLEAN : consumer' = [consumer EXCEPT ![c] =
            [at |-> "check", event |-> e, deaths |-> d, own |-> own]]
      BY <1>1 DEF Receive
    <3>2. [at |-> "check", event |-> e, deaths |-> d, own |-> own] \in ConsumerRecords
      BY DEF ConsumerRecords
    <3> QED BY <3>1, <3>2
  <2>3. /\ QueueTyped' /\ \A f \in Envelopes, n \in 0..MaxDeaths :
             f # e => queue'[<<f, n>>] = queue[<<f, n>>]
    <3> DEFINE D == Envelopes \X (0..MaxDeaths)
    <3>1. /\ queue \in [D -> Nat] /\ <<e, d>> \in D
          /\ \A f \in Envelopes, n \in 0..MaxDeaths : <<f, n>> \in D
      BY <1>0 DEF QueueTyped
    <3> HIDE DEF D
    <3>2. queue' \in [D -> Nat]
      BY <2>1, <3>1
    <3>3. \A f \in Envelopes, n \in 0..MaxDeaths : f # e => <<f, n>> # <<e, d>>
      OBVIOUS
    <3>4. \A m \in D : m # <<e, d>> => queue'[m] = queue[m]
      BY <2>1, <3>1
    <3> QED BY <3>1, <3>2, <3>3, <3>4 DEF QueueTyped, D
  <2>4. InboxSound'
    BY <2>1, <2>2, InboxStays
  <2>5. Stays
    BY <1>00, <2>1, <2>2, <2>3, EventStays
  <2> QED BY <1>0, <2>1, <2>2, <2>3, <2>4, <2>5, ConsumerMoves
<1>2. ASSUME NEW x \in ConsumerRecords, consumer' = [consumer EXCEPT ![c] = x],
             consumer[c].at # "idle", x.event = consumer[c].event,
             UNCHANGED <<row, publisher, admin, queue, dlq, inbox, applied, dropped>>,
             x.at = "ack" => x.event \in inbox,
             x.at = "apply" => x.event \notin inbox /\ ~Inserting(x.event)
      PROVE  EventsInv'
  <2>1. InboxSound'
    BY <1>2, InboxStays
  <2>2. Stays
    BY <1>2, EventStays
  <2>3. QueueTyped'
    BY <1>0, <1>2 DEF QueueTyped
  <2> QED BY <1>0, <1>2, <2>1, <2>2, <2>3, ConsumerMoves
<1>3. CASE \/ CheckInbox(c) \/ InsertInbox(c) \/ HandlerFails(c) \/ DeadLetter(c)
  <2>1. PICK at \in {"ack", "insert", "failed", "apply", "to_dlq"} :
          /\ consumer' = [consumer EXCEPT ![c].at = at]
          /\ at = "ack" => consumer[c].event \in inbox
          /\ at = "apply" => consumer[c].event \notin inbox /\ ~Inserting(consumer[c].event)
    BY <1>3 DEF CheckInbox, InsertInbox, HandlerFails, DeadLetter, Goes
  <2> DEFINE x == [consumer[c] EXCEPT !.at = at]
  <2>2. /\ x \in ConsumerRecords /\ x.at = at /\ x.event = consumer[c].event
        /\ consumer' = [consumer EXCEPT ![c] = x]
    BY <1>0, <2>1 DEF ConsumerRecords
  <2>3. /\ UNCHANGED <<row, publisher, admin, queue, dlq, inbox, applied, dropped>>
        /\ consumer[c].at # "idle"
    BY <1>3 DEF CheckInbox, InsertInbox, HandlerFails, DeadLetter, UnlessConsuming
  <2> HIDE DEF x
  <2> QED BY <1>2, <2>1, <2>2, <2>3
<1>4. CASE CommitEffect(c)
  <2> DEFINE e == consumer[c].event
             x == [consumer[c] EXCEPT !.at = "ack"]
  <2>1. /\ UNCHANGED <<row, publisher, admin, queue, dlq, dropped>> /\ consumer[c].at = "apply"
        /\ inbox' = inbox \cup {e} /\ applied' = [applied EXCEPT ![e] = @ + 1]
        /\ consumer' = [consumer EXCEPT ![c] = x]
    BY <1>4 DEF CommitEffect, Goes, UnlessConsuming
  <2>2. x \in ConsumerRecords /\ x.at = "ack" /\ x.event = e /\ e \in Envelopes
    BY <1>0, <2>1 DEF ConsumerRecords
  <2>3. consumer'[c] = x /\ \A b \in Consumers \ {c} : consumer'[b] = consumer[b]
    BY <1>0, <2>1
  <2> HIDE DEF x
  <2>4. applied' \in [Envelopes -> Nat] /\ e \notin inbox /\ applied[e] = 0
    BY <1>0, <2>1, <2>2 DEF InboxSound
  <2>5. InboxSound'
    <3>1. \A f \in Envelopes : applied'[f] = IF f \in inbox' THEN 1 ELSE 0
      BY <1>0, <2>1, <2>2, <2>4 DEF InboxSound
    <3>2. \A b \in Consumers \ {c} : consumer[b].at = "apply" => consumer[b].event # e
      BY <1>0, <2>1 DEF InboxSound
    <3>3. \A b \in Consumers : consumer'[b].at = "apply" =>
            b # c /\ consumer[b].at = "apply" /\ consumer'[b].event \notin inbox'
      BY <1>0, <2>1, <2>2, <2>3, <3>2 DEF InboxSound
    <3>4. \A b \in Consumers : consumer'[b].at = "ack" => consumer'[b].event \in inbox'
      BY <1>0, <2>1, <2>2, <2>3 DEF InboxSound
    <3> HIDE DEF e
    <3> QED BY <1>0, <2>3, <3>1, <3>3, <3>4 DEF InboxSound
  <2>6. Stays
    BY <2>1, <2>2, EventStays
  <2>7. QueueTyped'
    BY <1>0, <2>1 DEF QueueTyped
  <2> QED BY <2>1, <2>2, <2>4, <2>5, <2>6, <2>7, ConsumerMoves
<1>5. ASSUME consumer' = [consumer EXCEPT ![c] = IdleConsumer],
             UNCHANGED <<row, publisher, admin, inbox, applied>>, QueueTyped',
             dlq \subseteq dlq', dropped \subseteq dropped',
             \A f \in Envelopes, n \in 0..MaxDeaths :
               queue[<<f, n>>] > 0 => queue'[<<f, n>>] > 0,
             \/ consumer[c].event \in inbox \cup dlq' \cup dropped'
             \/ \E n \in 0..MaxDeaths : queue'[<<consumer[c].event, n>>] > 0
      PROVE  EventsInv'
  <2>1. InboxSound'
    BY <1>00, <1>5, InboxStays
  <2>2. Stays
    BY <1>00, <1>5, EventStays
  <2> QED BY <1>0, <1>00, <1>5, <2>1, <2>2, ConsumerMoves
<1>6. CASE Ack(c)
  <2>1. /\ consumer' = [consumer EXCEPT ![c] = IdleConsumer] /\ consumer[c].event \in inbox
        /\ UNCHANGED <<row, publisher, admin, inbox, applied, dlq, queue, dropped>>
    BY <1>0, <1>6 DEF Ack, Done, UnlessConsuming, InboxSound
  <2> QED BY <1>0, <1>5, <2>1 DEF QueueTyped
<1>7. CASE Reject(c) \/ ConsumerDies(c) \/ PublishToDlq(c)
  <2> DEFINE e == consumer[c].event
  <2>1. /\ consumer' = [consumer EXCEPT ![c] = IdleConsumer] /\ e \in Envelopes
        /\ UNCHANGED <<row, publisher, admin, inbox, applied>>
        /\ \/ queue' = queue /\ dlq' = dlq \cup {e} /\ dropped' = dropped
           \/ queue' = queue /\ dlq' = dlq /\ dropped' = dropped \cup {e}
           \/ /\ dlq' = dlq /\ dropped' = dropped
              /\ \E n \in 0..MaxDeaths : queue' = Put(e, n)
    BY <1>0, <1>7 DEF Reject, ConsumerDies, PublishToDlq, Done, UnlessConsuming
  <2>2. ASSUME queue' = queue, dlq \subseteq dlq', dropped \subseteq dropped',
               e \in dlq' \cup dropped'
        PROVE  EventsInv'
    BY <1>0, <1>5, <2>1, <2>2 DEF QueueTyped
  <2>3. ASSUME NEW n \in 0..MaxDeaths, dlq' = dlq, dropped' = dropped, queue' = Put(e, n)
        PROVE  EventsInv'
    <3> HIDE DEF e
    <3>1. /\ QueueTyped' /\ queue'[<<e, n>>] > 0
          /\ \A f \in Envelopes, m \in 0..MaxDeaths : queue[<<f, m>>] > 0 => queue'[<<f, m>>] > 0
      BY <1>0, <2>1, <2>3, PutKeeps
    <3> QED BY <1>5, <2>1, <2>3, <3>1 DEF e
  <2> QED BY <2>1, <2>2, <2>3
<1> QED BY <1>1, <1>3, <1>4, <1>6, <1>7 DEF Consuming

(* The administrators put letters back, or leave the queues alone. *)
LEMMA AdminsKeep ==
  ASSUME EventsInv, NEW a \in Admins, AdminStep(a)
  PROVE  EventsInv'
<1>0. /\ QueueTyped /\ admin \in [Admins -> AdminRecords]
      /\ IdleAdmin \in AdminRecords /\ IdleAdmin.at = "idle"
      /\ \A b \in Admins : admin[b].at # "idle" => admin[b].event \in Envelopes
      /\ MaxDeaths \in 0..MaxDeaths
  BY EventsConstants DEF EventsInv, EventsTyped, QueueTyped, AdminRecords, IdleAdmin
<1> HIDE DEF IdleAdmin
<1>1. UNCHANGED <<row, publisher, consumer, inbox, dlq, applied, dropped>>
  BY DEF AdminStep, ClaimLetter, DiscardLoad, Replay, ReplaySaved, DiscardSave, UnlessAdmin,
     brokerVars
<1>2. PICK x \in AdminRecords :
        admin' = [admin EXCEPT ![a] = x] /\ (x.at # "idle" => x.event \in Envelopes)
  <2>1. ASSUME NEW e \in Envelopes, ClaimLetter(a, e) \/ DiscardLoad(a, e)
        PROVE  \E x \in AdminRecords :
                 admin' = [admin EXCEPT ![a] = x] /\ (x.at # "idle" => x.event \in Envelopes)
    <3>1. \A at \in {"replay", "discard"} : [at |-> at, event |-> e] \in AdminRecords
      BY DEF AdminRecords
    <3>2. \/ admin' = [admin EXCEPT ![a] = IdleAdmin]
          \/ \E at \in {"replay", "discard"} :
               admin' = [admin EXCEPT ![a] = [at |-> at, event |-> e]]
      BY <2>1 DEF ClaimLetter, DiscardLoad
    <3>3. CASE admin' = [admin EXCEPT ![a] = IdleAdmin]
      BY <1>0, <3>3
    <3>4. ASSUME NEW at \in {"replay", "discard"},
                 admin' = [admin EXCEPT ![a] = [at |-> at, event |-> e]]
          PROVE  \E x \in AdminRecords :
                   admin' = [admin EXCEPT ![a] = x] /\ (x.at # "idle" => x.event \in Envelopes)
      <4>1. [at |-> at, event |-> e].event = e
        OBVIOUS
      <4> QED BY <3>1, <3>4, <4>1
    <3> QED BY <3>2, <3>3, <3>4
  <2>3. CASE Replay(a)
    <3>1. PICK at \in {"replayed", "undo"} : admin' = [admin EXCEPT ![a].at = at]
      BY <2>3 DEF Replay
    <3>2. admin[a] \in AdminRecords /\ admin[a].event \in Envelopes
      BY <1>0, <2>3 DEF Replay
    <3>3. LET x == [admin[a] EXCEPT !.at = at] IN
          /\ x \in AdminRecords /\ x.event \in Envelopes
          /\ admin' = [admin EXCEPT ![a] = x]
      BY <1>0, <3>1, <3>2 DEF AdminRecords
    <3> QED BY <3>3
  <2>4. CASE ReplaySaved(a) \/ DiscardSave(a)
    BY <1>0, <2>4 DEF ReplaySaved, DiscardSave
  <2>5. \/ \E e \in Envelopes : ClaimLetter(a, e) \/ DiscardLoad(a, e)
        \/ Replay(a) \/ ReplaySaved(a) \/ DiscardSave(a)
    BY DEF AdminStep
  <2> QED BY <2>1, <2>3, <2>4, <2>5
<1>3. /\ QueueTyped'
      /\ \A f \in Envelopes, n \in 0..MaxDeaths : queue[<<f, n>>] > 0 => queue'[<<f, n>>] > 0
  <2>1. CASE queue' = queue
    BY <1>0, <2>1 DEF QueueTyped
  <2>2. CASE queue' # queue
    <3>1. queue' = Put(admin[a].event, MaxDeaths) /\ admin[a].event \in Envelopes
      BY <1>0, <2>2 DEF AdminStep, ClaimLetter, DiscardLoad, Replay, ReplaySaved, DiscardSave
    <3> QED BY <1>0, <3>1, PutKeeps
  <2> QED BY <2>1, <2>2
<1>4. EventsTyped'
  BY <1>0, <1>1, <1>2, <1>3 DEF EventsInv, EventsTyped, QueueTyped
<1>5. InboxSound'
  BY <1>1 DEF EventsInv, InboxSound
<1>6. Stays
  BY <1>1, <1>3 DEF Stays, Somewhere
<1>7. ConfirmedSomewhere' /\ PublishedSomewhere'
  BY <1>1, <1>6 DEF EventsInv, ConfirmedSomewhere, PublishedSomewhere, Stays
<1> QED BY <1>4, <1>5, <1>7 DEF EventsInv

LEMMA EventsStart == EventsInit => EventsInv
<1> SUFFICES ASSUME EventsInit PROVE EventsInv
  OBVIOUS
<1>1. EventsTyped
  BY EventsConstants DEF EventsInit, EventsTyped, RowShape, PublisherShape, ConsumerRecords,
     AdminRecords, FreeRow, IdlePublisher, IdleConsumer, IdleAdmin
<1> QED BY <1>1 DEF EventsInit, EventsInv, InboxSound, ConfirmedSomewhere, PublishedSomewhere,
                    FreeRow, IdlePublisher, IdleConsumer

(* It starts, or nothing happens. *)
LEMMA SameEvents ==
  ASSUME EventsInv,
         UNCHANGED <<row, publisher, queue, consumer, inbox, dlq, admin, applied, dropped>>
  PROVE  EventsInv'
BY DEF EventsInv, EventsTyped, InboxSound, ConfirmedSomewhere, PublishedSomewhere, Somewhere

LEMMA EventsStep ==
  ASSUME EventsInv, [EventsNext]_eventVars PROVE EventsInv'
<1>1. CASE EventsNext
  <2>1. CASE StartConsumer
    BY <2>1, SameEvents DEF StartConsumer
  <2> QED BY <1>1, <2>1, PublishingKeeps, ConsumingKeeps, AdminsKeep DEF EventsNext
<1>2. CASE UNCHANGED eventVars
  BY <1>2, SameEvents DEF eventVars, brokerVars
<1> QED BY <1>1, <1>2

(* An event that left the outbox is on its way, has taken effect, lies     *)
(* with the dead letters, or strayed: to a handler of another event, or to *)
(* no queue.  It is committed once, for any number of publishers,          *)
(* consumers and replays (processOutbox, processIdempotent).               *)
THEOREM EventsDeliveredOnce == EventsSpec => []DeliveredOnce
<1>1. ASSUME EventsInv PROVE DeliveredOnce
  <2>1. AppliedOnce
    BY <1>1 DEF EventsInv, InboxSound, AppliedOnce
  <2>2. NothingLost
    BY <1>1 DEF EventsInv, PublishedSomewhere, Somewhere, InboxSound, NothingLost, Underway,
                Effective, Strayed
  <2> QED BY <2>1, <2>2 DEF DeliveredOnce
<1>2. EventsInv => DeliveredOnce
  BY <1>1
<1> QED BY <1>2, EventsStart, EventsStep, PTL DEF EventsSpec

-----------------------------------------------------------------------------
(***************************************************************************)
(* Mails and pushes.  A row nobody has doubts about is in the hands of one *)
(* worker at a time, and what a push added is recorded, or about to be, by *)
(* that worker.                                                            *)
(***************************************************************************)
(* What the argument needs of these records is that they have certain fields. *)
ItemShape(x) == {"status", "leased"} \subseteq DOMAIN x
SenderShape(x) ==
  {"at", "item", "todo"} \subseteq DOMAIN x /\ (x.at # "idle" => x.item \in Items)

SendersTyped ==
  /\ item = [i \in Items |-> item[i]] /\ \A i \in Items : ItemShape(item[i])
  /\ sender = [s \in Senders |-> sender[s]] /\ \A s \in Senders : SenderShape(sender[s])
  /\ pushes \in [Items \X Endpoints -> Nat]

Works(s, i) == sender[s].at # "idle" /\ sender[s].item = i
Pushed(s, i, e) == sender[s].at = "pushed" /\ sender[s].item = i /\ Head(sender[s].todo) = e

(* One worker at a time, and the row says so. *)
OneWorker ==
  /\ \A i \in Items \ doubted, s \in Senders : Works(s, i) => item[i].status = "processing"
  /\ \A i \in Items \ doubted, s, t \in Senders : Works(s, i) /\ Works(t, i) => s = t

PushesRecorded ==
  \A i \in Items \ doubted, e \in Endpoints : <<i, e>> \notin unnoted =>
    /\ pushes[<<i, e>>] <= 1
    /\ pushes[<<i, e>>] = 1 => <<i, e>> \in reached \/ \E s \in Senders : Pushed(s, i, e)

SendersInv == SendersTyped /\ OneWorker /\ PushesRecorded

(* What a step of one worker amounts to: its own record, and the row that  *)
(* is its own or that it claims.                                           *)
LEMMA SenderMoves ==
  ASSUME SendersInv, NEW s \in Senders, NEW x, SenderShape(x),
         sender' = [sender EXCEPT ![s] = x], doubted \subseteq doubted', reached \subseteq reached',
         unnoted \subseteq unnoted', item' = [i \in Items |-> item'[i]], \A i \in Items : ItemShape(item'[i]),
         pushes' \in [Items \X Endpoints -> Nat],
         \A i \in Items \ doubted' :
           \/ item'[i].status = item[i].status /\ (x.at # "idle" /\ x.item = i => Works(s, i))
           \/ Works(s, i) /\ ~(x.at # "idle" /\ x.item = i)
           \/ /\ item[i].status # "processing" /\ item'[i].status = "processing"
              /\ x.at # "idle" /\ x.item = i,
         \A i \in Items \ doubted', e \in Endpoints : <<i, e>> \notin unnoted' =>
           /\ pushes'[<<i, e>>] # pushes[<<i, e>>] =>
                /\ pushes[<<i, e>>] = 0 /\ pushes'[<<i, e>>] = 1
                /\ x.at = "pushed" /\ x.item = i /\ Head(x.todo) = e
           /\ Pushed(s, i, e) =>
                \/ x.at = "pushed" /\ x.item = i /\ Head(x.todo) = e
                \/ <<i, e>> \in reached'
  PROVE  SendersInv'
<1>0. /\ sender = [t \in Senders |-> sender[t]] /\ \A t \in Senders : SenderShape(sender[t])
      /\ OneWorker /\ PushesRecorded
  BY DEF SendersInv, SendersTyped
<1>1. sender'[s] = x /\ \A t \in Senders \ {s} : sender'[t] = sender[t]
  BY <1>0
<1>2. SendersTyped'
  <2>1. sender' = [t \in Senders |-> sender'[t]] /\ \A t \in Senders : SenderShape(sender'[t])
    BY <1>0, <1>1
  <2> QED BY <2>1 DEF SendersTyped, SenderShape
<1>3. ASSUME NEW i \in Items \ doubted', NEW t \in Senders, Works(t, i)'
      PROVE  item'[i].status = "processing"
  BY <1>0, <1>1, <1>3 DEF Works, OneWorker
<1>4. ASSUME NEW i \in Items \ doubted', NEW t \in Senders, NEW u \in Senders,
             Works(t, i)', Works(u, i)'
      PROVE  t = u
  BY <1>0, <1>1, <1>4 DEF Works, OneWorker
<1>5. OneWorker'
  BY <1>3, <1>4 DEF OneWorker
<1>6. ASSUME NEW i \in Items \ doubted', NEW e \in Endpoints, <<i, e>> \notin unnoted'
      PROVE  /\ pushes'[<<i, e>>] <= 1
             /\ pushes'[<<i, e>>] = 1 => <<i, e>> \in reached' \/ \E t \in Senders : Pushed(t, i, e)'
  <2>1. CASE pushes'[<<i, e>>] # pushes[<<i, e>>]
    BY <1>1, <1>6, <2>1 DEF Pushed
  <2>2. CASE pushes'[<<i, e>>] = pushes[<<i, e>>]
    <3>1. /\ pushes[<<i, e>>] <= 1
          /\ pushes[<<i, e>>] = 1 => <<i, e>> \in reached \/ \E t \in Senders : Pushed(t, i, e)
      BY <1>0, <1>6 DEF PushesRecorded
    <3>2. ASSUME NEW t \in Senders, Pushed(t, i, e)
          PROVE  <<i, e>> \in reached' \/ \E u \in Senders : Pushed(u, i, e)'
      <4>1. CASE t = s
        BY <1>1, <1>6, <3>2, <4>1 DEF Pushed
      <4>2. CASE t # s
        BY <1>1, <3>2, <4>2 DEF Pushed
      <4> QED BY <4>1, <4>2
    <3> QED BY <2>2, <3>1, <3>2
  <2> QED BY <2>1, <2>2
<1>7. PushesRecorded'
  BY <1>6 DEF PushesRecorded
<1> QED BY <1>2, <1>5, <1>7 DEF SendersInv

(* A worker takes up a row. *)
LEMMA ClaimItemKeeps ==
  ASSUME SendersInv, NEW s \in Senders, NEW i \in Items, ClaimItem(s, i)
  PROVE  SendersInv'
<1>0. /\ item = [j \in Items |-> item[j]] /\ \A j \in Items : ItemShape(item[j])
      /\ pushes \in [Items \X Endpoints -> Nat] /\ IdleSender.at = "idle"
  BY DEF SendersInv, SendersTyped, IdleSender
<1> DEFINE n == Another(item[i].attempts)
           x == [at |-> "claimed", item |-> i, attempts |-> n, todo |-> <<>>, retry |-> FALSE]
<1>1. /\ sender[s].at = "idle" /\ sender' = [sender EXCEPT ![s] = x]
      /\ item' = [item EXCEPT ![i].status = "processing", ![i].leased = TRUE, ![i].attempts = n]
      /\ doubted' = IF item[i].status = "processing" THEN doubted \cup {i} ELSE doubted
      /\ reached' = reached /\ pushes' = pushes /\ unnoted' = unnoted
  BY <1>0 DEF ClaimItem, UnlessSending
<1>2. SenderShape(x) /\ x.at = "claimed" /\ x.item = i
  BY DEF SenderShape
<1> HIDE DEF x, n
<1>3. /\ item' = [j \in Items |-> item'[j]] /\ \A j \in Items : ItemShape(item'[j])
      /\ item'[i].status = "processing" /\ \A j \in Items \ {i} : item'[j] = item[j]
  BY <1>0, <1>1 DEF ItemShape
<1>4. \A j \in Items \ doubted' :
        \/ item'[j].status = item[j].status /\ ~(x.at # "idle" /\ x.item = j)
        \/ /\ item[j].status # "processing" /\ item'[j].status = "processing"
           /\ x.at # "idle" /\ x.item = j
  BY <1>1, <1>2, <1>3
<1>5. \A j \in Items, e \in Endpoints : ~Pushed(s, j, e)
  BY <1>1 DEF Pushed
<1>6. doubted \subseteq doubted' /\ reached \subseteq reached' /\ unnoted \subseteq unnoted'
      /\ pushes' \in [Items \X Endpoints -> Nat]
  BY <1>0, <1>1
<1>7. \A j \in Items \ doubted', e \in Endpoints : pushes'[<<j, e>>] = pushes[<<j, e>>]
  BY <1>1
<1>8. \A j \in Items \ doubted', e \in Endpoints :
        /\ pushes'[<<j, e>>] # pushes[<<j, e>>] =>
             /\ pushes[<<j, e>>] = 0 /\ pushes'[<<j, e>>] = 1
             /\ x.at = "pushed" /\ x.item = j /\ Head(x.todo) = e
        /\ Pushed(s, j, e) =>
             \/ x.at = "pushed" /\ x.item = j /\ Head(x.todo) = e
             \/ <<j, e>> \in reached'
  BY <1>5, <1>7
<1>9. \A j \in Items \ doubted' :
        \/ item'[j].status = item[j].status /\ (x.at # "idle" /\ x.item = j => Works(s, j))
        \/ Works(s, j) /\ ~(x.at # "idle" /\ x.item = j)
        \/ /\ item[j].status # "processing" /\ item'[j].status = "processing"
           /\ x.at # "idle" /\ x.item = j
  BY <1>4
<1> HIDE DEF Items
<1> QED BY <1>1, <1>2, <1>3, <1>6, <1>8, <1>9, SenderMoves

(* A worker goes on with its row, which stays as it is. *)
LEMMA SendingKeeps ==
  ASSUME SendersInv, NEW s \in Senders,
         \/ DispatchEmail(s) \/ ListSubscriptions(s) \/ PushNext(s) \/ RecordPush(s)
         \/ RecordFails(s) \/ PushFails(s) \/ PushEnds(s)
  PROVE  SendersInv'
<1> DEFINE i == sender[s].item
           e == Head(sender[s].todo)
<1>0. /\ SenderShape(sender[s]) /\ sender = [t \in Senders |-> sender[t]]
      /\ item = [j \in Items |-> item[j]] /\ \A j \in Items : ItemShape(item[j])
      /\ pushes \in [Items \X Endpoints -> Nat] /\ OneWorker /\ PushesRecorded
  BY DEF SendersInv, SendersTyped
<1>1. item' = item /\ doubted' = doubted /\ sender[s].at # "idle" /\ i \in Items
  BY <1>0 DEF DispatchEmail, ListSubscriptions, PushNext, RecordPush, RecordFails, PushFails,
     PushEnds, UnlessSending, UnlessPushing, SenderShape
<1>2. ASSUME NEW x, SenderShape(x), x.at # "idle", x.item = i,
             sender' = [sender EXCEPT ![s] = x], reached' = reached, pushes' = pushes,
             unnoted' = unnoted, sender[s].at # "pushed"
      PROVE  SendersInv'
  <2>1. \A j \in Items, f \in Endpoints : ~Pushed(s, j, f)
    BY <1>2 DEF Pushed
  <2>2. \A j \in Items \ doubted' :
          item'[j].status = item[j].status /\ (x.at # "idle" /\ x.item = j => Works(s, j))
    BY <1>1, <1>2 DEF Works
  <2> QED BY <1>0, <1>1, <1>2, <2>1, <2>2, SenderMoves
<1>3. CASE DispatchEmail(s) \/ ListSubscriptions(s) \/ PushFails(s) \/ PushEnds(s)
  <2>1. /\ reached' = reached /\ pushes' = pushes /\ sender[s].at # "pushed" /\ unnoted' = unnoted
        /\ \/ sender' = [sender EXCEPT ![s].at = "sent"]
           \/ sender' = [sender EXCEPT ![s].at = "failed"]
           \/ sender' = [sender EXCEPT ![s].at = "pushing", ![s].todo = active]
           \/ sender' = [sender EXCEPT ![s].todo = Tail(@)]
           \/ sender' = [sender EXCEPT ![s].todo = Tail(@), ![s].retry = TRUE]
    BY <1>3 DEF DispatchEmail, ListSubscriptions, PushFails, PushEnds, UnlessSending
  <2>2. /\ SenderShape(sender'[s]) /\ sender'[s].at # "idle" /\ sender'[s].item = i
        /\ sender' = [sender EXCEPT ![s] = sender'[s]]
    BY <1>0, <1>1, <2>1 DEF SenderShape
  <2> QED BY <1>2, <2>1, <2>2
<1>4. CASE PushNext(s) /\ <<i, e>> \in reached
  <2>1. /\ reached' = reached /\ pushes' = pushes /\ sender[s].at # "pushed" /\ unnoted' = unnoted
        /\ sender' = [sender EXCEPT ![s].at = "pushing", ![s].todo = Tail(@)]
    BY <1>4 DEF PushNext, Following, UnlessSending
  <2>2. /\ SenderShape(sender'[s]) /\ sender'[s].at # "idle" /\ sender'[s].item = i
        /\ sender' = [sender EXCEPT ![s] = sender'[s]]
    BY <1>0, <1>1, <2>1 DEF SenderShape
  <2> QED BY <1>2, <2>1, <2>2
<1>5. CASE PushNext(s) /\ <<i, e>> \notin reached
  <2> DEFINE x == [sender[s] EXCEPT !.at = "pushed"]
  <2>1. /\ reached' = reached /\ sender[s].at = "pushing" /\ sender' = [sender EXCEPT ![s] = x]
        /\ pushes' = [pushes EXCEPT ![<<i, e>>] = Another(@)] /\ unnoted' = unnoted
    BY <1>0, <1>5 DEF PushNext, UnlessSending
  <2>2. SenderShape(x) /\ x.at = "pushed" /\ x.item = i /\ x.todo = sender[s].todo
    BY <1>0, <1>1 DEF SenderShape
  <2>3. /\ pushes' \in [Items \X Endpoints -> Nat]
        /\ \A j \in Items, f \in Endpoints :
             pushes'[<<j, f>>] # pushes[<<j, f>>] =>
               j = i /\ f = e /\ pushes'[<<j, f>>] = pushes[<<j, f>>] + 1
    <3> DEFINE D == Items \X Endpoints
    <3>1. pushes \in [D -> Nat] /\ \A j \in Items, f \in Endpoints : <<j, f>> \in D
      BY <1>0
    <3> HIDE DEF D, i, e
    <3>2. \A n \in Nat : Another(n) \in Nat /\ (Another(n) # n => Another(n) = n + 1)
      BY DEF Another
    <3>3. /\ pushes' \in [D -> Nat]
          /\ \A d \in D : pushes'[d] # pushes[d] => d = <<i, e>> /\ pushes'[d] = pushes[d] + 1
      BY <2>1, <3>1, <3>2
    <3> QED BY <3>1, <3>3 DEF D
  <2>4. \A f \in Endpoints : i \notin doubted /\ f = e /\ <<i, f>> \notin unnoted => pushes[<<i, f>>] = 0
    <3> SUFFICES ASSUME i \notin doubted, e \in Endpoints, <<i, e>> \notin unnoted
                 PROVE  pushes[<<i, e>>] = 0
      OBVIOUS
    <3>1. \A t \in Senders : ~Pushed(t, i, e)
      BY <1>0, <1>1, <2>1 DEF OneWorker, Works, Pushed
    <3>2. pushes[<<i, e>>] \in Nat
      BY <1>0, <1>1
    <3> QED BY <1>0, <1>1, <1>5, <3>1, <3>2 DEF PushesRecorded
  <2>5. \A j \in Items, f \in Endpoints : ~Pushed(s, j, f)
    BY <2>1 DEF Pushed
  <2>6. \A j \in Items \ doubted' :
          item'[j].status = item[j].status /\ (x.at # "idle" /\ x.item = j => Works(s, j))
    BY <1>1, <2>2 DEF Works
  <2>7. \A j \in Items \ doubted', f \in Endpoints : <<j, f>> \notin unnoted' =>
          (pushes'[<<j, f>>] # pushes[<<j, f>>] =>
            /\ pushes[<<j, f>>] = 0 /\ pushes'[<<j, f>>] = 1
            /\ x.at = "pushed" /\ x.item = j /\ Head(x.todo) = f)
    BY <1>1, <2>1, <2>2, <2>3, <2>4
  <2> HIDE DEF x
  <2> QED BY <1>0, <1>1, <2>1, <2>2, <2>3, <2>5, <2>6, <2>7, SenderMoves
<1>6. CASE RecordPush(s)
  <2> DEFINE x == [sender[s] EXCEPT !.at = "pushing", !.todo = Tail(@)]
  <2>1. /\ pushes' = pushes /\ sender[s].at = "pushed" /\ sender' = [sender EXCEPT ![s] = x]
        /\ reached' = reached \cup {<<i, e>>} /\ unnoted' = unnoted
    BY <1>0, <1>6 DEF RecordPush, Following, UnlessSending
  <2>2. SenderShape(x) /\ x.at = "pushing" /\ x.item = i
    BY <1>0, <1>1 DEF SenderShape
  <2>3. \A j \in Items, f \in Endpoints : Pushed(s, j, f) => <<j, f>> \in reached'
    BY <2>1 DEF Pushed
  <2>4. \A j \in Items \ doubted' :
          item'[j].status = item[j].status /\ (x.at # "idle" /\ x.item = j => Works(s, j))
    BY <1>1, <2>2 DEF Works
  <2> HIDE DEF x
  <2> QED BY <1>0, <1>1, <2>1, <2>2, <2>3, <2>4, SenderMoves
<1>7. CASE RecordFails(s)
  <2>1. /\ pushes' = pushes /\ sender[s].at = "pushed" /\ reached' = reached
        /\ unnoted' = unnoted \cup {<<i, e>>}
        /\ \/ sender' = [sender EXCEPT ![s].at = "pushing", ![s].todo = Tail(@)]
           \/ sender' = [sender EXCEPT ![s].at = "failed"]
    BY <1>7 DEF RecordFails, Following
  <2> DEFINE x == sender'[s]
  <2>2. SenderShape(x) /\ x.item = i /\ sender' = [sender EXCEPT ![s] = x]
    BY <1>0, <1>1, <2>1 DEF SenderShape
  <2>3. \A j \in Items, f \in Endpoints : Pushed(s, j, f) => <<j, f>> \in unnoted'
    BY <2>1 DEF Pushed
  <2>4. \A j \in Items \ doubted' :
          item'[j].status = item[j].status /\ (x.at # "idle" /\ x.item = j => Works(s, j))
    BY <1>1, <2>2 DEF Works
  <2> HIDE DEF x
  <2> QED BY <1>0, <1>1, <2>1, <2>2, <2>3, <2>4, SenderMoves
<1> QED BY <1>3, <1>4, <1>5, <1>6, <1>7

(* A worker saves its row, or dies over it. *)
LEMMA SavingKeeps ==
  ASSUME SendersInv, NEW s \in Senders, SaveSent(s) \/ SaveUnsent(s) \/ SenderDies(s)
  PROVE  SendersInv'
<1> DEFINE i == sender[s].item
<1>0. /\ SenderShape(sender[s]) /\ SenderShape(IdleSender) /\ IdleSender.at = "idle"
      /\ item = [j \in Items |-> item[j]] /\ \A j \in Items : ItemShape(item[j])
      /\ pushes \in [Items \X Endpoints -> Nat]
  BY DEF SendersInv, SendersTyped, SenderShape, IdleSender
<1> HIDE DEF IdleSender
<1>1. /\ sender[s].at # "idle" /\ i \in Items /\ sender' = [sender EXCEPT ![s] = IdleSender]
      /\ reached' = reached /\ pushes' = pushes /\ doubted \subseteq doubted' /\ unnoted' = unnoted
  BY <1>0 DEF SaveSent, SaveUnsent, SenderDies, SenderShape, UnlessSending
<1>2. /\ item' = [j \in Items |-> item'[j]] /\ \A j \in Items : ItemShape(item'[j])
      /\ \A j \in Items \ {i} : item'[j] = item[j]
  <2>1. CASE SaveSent(s)
    BY <1>0, <2>1 DEF SaveSent, ItemShape
  <2>2. CASE SaveUnsent(s)
    <3>1. PICK status : item' = [item EXCEPT ![i].status = status]
      BY <2>2 DEF SaveUnsent
    <3> QED BY <1>0, <3>1 DEF ItemShape
  <2>3. CASE SenderDies(s)
    BY <1>0, <2>3 DEF SenderDies
  <2> QED BY <2>1, <2>2, <2>3
<1>3. \A j \in Items \ doubted' :
        \/ item'[j].status = item[j].status
        \/ Works(s, j) /\ ~(IdleSender.at # "idle" /\ IdleSender.item = j)
  BY <1>0, <1>1, <1>2 DEF Works
<1>4. \A j \in Items \ doubted', f \in Endpoints : ~Pushed(s, j, f)
  BY <1>1 DEF SaveSent, SaveUnsent, SenderDies, Pushed
<1> QED BY <1>0, <1>1, <1>2, <1>3, <1>4, SenderMoves

(* What is not done by a worker leaves the rows that are being sent alone. *)
LEMMA RowsKeep ==
  ASSUME SendersInv, UNCHANGED <<sender, reached, pushes, doubted, unnoted>>,
         \/ item' = item
         \/ \E n \in Notes : Notify(n)
         \/ \E i \in Items : ItemLeaseEnds(i)
  PROVE  SendersInv'
<1>0. item = [j \in Items |-> item[j]] /\ \A j \in Items : ItemShape(item[j])
  BY DEF SendersInv, SendersTyped
<1>1. /\ item' = [j \in Items |-> item'[j]] /\ \A j \in Items : ItemShape(item'[j])
      /\ \A j \in Items : item[j].status = "processing" => item'[j].status = "processing"
  <2>1. ASSUME NEW n \in Notes, Notify(n)
        PROVE  /\ item' = [j \in Items |-> item'[j]] /\ \A j \in Items : ItemShape(item'[j])
               /\ \A j \in Items : item[j].status = "processing" => item'[j].status = "processing"
    <3> DEFINE rows == prefers \X {TextOf[n]}
    <3>1. /\ \A j \in rows : item[j].status = "none"
          /\ item' = [j \in Items |-> IF j \in rows THEN [item[j] EXCEPT !.status = "pending"]
                                      ELSE item[j]]
      BY <2>1 DEF Notify
    <3> HIDE DEF rows
    <3> QED BY <1>0, <3>1 DEF ItemShape
  <2>2. ASSUME NEW i \in Items, ItemLeaseEnds(i)
        PROVE  /\ item' = [j \in Items |-> item'[j]] /\ \A j \in Items : ItemShape(item'[j])
               /\ \A j \in Items : item[j].status = "processing" => item'[j].status = "processing"
    BY <1>0, <2>2 DEF ItemLeaseEnds, ItemShape
  <2> QED BY <1>0, <2>1, <2>2
<1>2. SendersTyped'
  BY <1>1 DEF SendersInv, SendersTyped
<1>3. OneWorker'
  BY <1>1 DEF SendersInv, OneWorker, Works
<1>4. PushesRecorded'
  <2>1. /\ PushesRecorded /\ sender' = sender /\ reached' = reached
        /\ pushes' = pushes /\ doubted' = doubted /\ unnoted' = unnoted
    BY DEF SendersInv
  <2>2. \A i \in Items, e \in Endpoints, s \in Senders : Pushed(s, i, e) => Pushed(s, i, e)'
    BY <2>1 DEF Pushed
  <2> QED BY <2>1, <2>2 DEF PushesRecorded
<1> QED BY <1>2, <1>3, <1>4 DEF SendersInv
-----------------------------------------------------------------------------
(***************************************************************************)
(* Subscriptions beyond the limit belong to saves that are yet to trim     *)
(* them, and a key has one winner.                                         *)
(***************************************************************************)
SavesInv ==
  /\ active \in Seq(Endpoints) /\ IsFiniteSet(saving)
  /\ Len(active) <= MaxActive + Cardinality(saving)
KeyedInv == runs \in 0..1 /\ (record = "none" => runs = 0)

(* A sequence without one of its members. *)
LEMMA Shorter ==
  ASSUME NEW S, NEW q \in Seq(S), NEW n \in DOMAIN q
  PROVE  RemoveAt(q, n) \in Seq(S) /\ Len(RemoveAt(q, n)) = Len(q) - 1
<1>1. Len(q) \in Nat /\ n \in 1..Len(q)
  OBVIOUS
<1> DEFINE a == SubSeq(q, 1, n - 1)
           b == SubSeq(q, n + 1, Len(q))
<1>2. a \in Seq(S) /\ Len(a) = n - 1 /\ b \in Seq(S) /\ Len(b) = Len(q) - n
  BY <1>1, SubSeqProperties
<1>3. RemoveAt(q, n) = a \o b
  BY DEF RemoveAt
<1> HIDE DEF a, b
<1>4. a \o b \in Seq(S) /\ Len(a \o b) = Len(a) + Len(b)
  BY <1>2, ConcatProperties
<1> QED BY <1>1, <1>2, <1>3, <1>4

(* A sequence with one member more. *)
LEMMA Longer ==
  ASSUME NEW S, NEW q \in Seq(S), NEW n \in 1..(Len(q) + 1), NEW x \in S
  PROVE  InsertAt(q, n, x) \in Seq(S) /\ Len(InsertAt(q, n, x)) = Len(q) + 1
<1>1. Len(q) \in Nat
  OBVIOUS
<1> DEFINE a == SubSeq(q, 1, n - 1)
           b == SubSeq(q, n, Len(q))
<1>2. a \in Seq(S) /\ Len(a) = n - 1 /\ b \in Seq(S) /\ Len(b) = Len(q) - n + 1
  BY <1>1, SubSeqProperties
<1>3. InsertAt(q, n, x) = (a \o <<x>>) \o b /\ <<x>> \in Seq(S) /\ Len(<<x>>) = 1
  BY DEF InsertAt
<1> HIDE DEF a, b
<1>4. a \o <<x>> \in Seq(S) /\ Len(a \o <<x>>) = n
  BY <1>1, <1>2, <1>3, ConcatProperties
<1>5. (a \o <<x>>) \o b \in Seq(S) /\ Len((a \o <<x>>) \o b) = n + Len(b)
  BY <1>2, <1>4, ConcatProperties
<1> QED BY <1>1, <1>2, <1>3, <1>5

LEMMA RevokeShortens ==
  ASSUME active \in Seq(Endpoints), NEW e, Revoke(e)
  PROVE  active' \in Seq(Endpoints) /\ Len(active') <= Len(active)
<1>1. Len(active) \in Nat
  OBVIOUS
<1> QED BY <1>1, Shorter DEF Revoke

LEMMA SavesKeep ==
  ASSUME SavesInv, [MailerNext]_mailerVars PROVE SavesInv'
<1>0. Len(active) \in Nat /\ Cardinality(saving) \in Nat /\ MaxActive \in Nat
  BY MailerConstants, FS_CardinalityType DEF SavesInv
<1>1. ASSUME NEW e \in Endpoints, Subscribe(e) PROVE SavesInv'
  <2>1. /\ IsFiniteSet(saving \cup {e})
        /\ Cardinality(saving \cup {e}) = Cardinality(saving) + 1
    BY <1>1, FS_AddElement DEF Subscribe, SavesInv
  <2>2. \A n \in 1..(Len(active) + 1) :
          InsertAt(active, n, e) \in Seq(Endpoints) /\ Len(InsertAt(active, n, e)) = Len(active) + 1
    BY Longer DEF SavesInv
  <2>3. /\ active' \in Seq(Endpoints) /\ Len(active') <= Len(active) + 1
        /\ saving' = saving \cup {e}
    <3>1. active' = active \/ \E n \in 1..(Len(active) + 1) : active' = InsertAt(active, n, e)
      BY <1>1 DEF Subscribe
    <3> QED BY <1>0, <1>1, <2>2, <3>1 DEF Subscribe, SavesInv
  <2>4. Len(active') \in Nat /\ Len(active) <= MaxActive + Cardinality(saving)
    BY <2>3 DEF SavesInv
  <2> QED BY <1>0, <2>1, <2>3, <2>4 DEF SavesInv
<1>2. ASSUME NEW e \in Endpoints, Trim(e) PROVE SavesInv'
  <2> DEFINE over == Len(active) - MaxActive
  <2>1. IsFiniteSet(saving \ {e}) /\ Cardinality(saving \ {e}) \in Nat
    BY FS_RemoveElement, FS_CardinalityType DEF SavesInv
  <2>2. active' = IF over > 0 THEN SubSeq(active, over + 1, Len(active)) ELSE active
    BY <1>2 DEF Trim
  <2>3. active' \in Seq(Endpoints) /\ Len(active') <= MaxActive
    <3>1. CASE over > 0
      <4>1. /\ SubSeq(active, over + 1, Len(active)) \in Seq(Endpoints)
            /\ Len(SubSeq(active, over + 1, Len(active))) = MaxActive
        BY <1>0, <3>1, SubSeqProperties DEF SavesInv
      <4> QED BY <2>2, <3>1, <4>1
    <3>2. CASE ~(over > 0)
      BY <1>0, <2>2, <3>2 DEF SavesInv
    <3> QED BY <3>1, <3>2
  <2>4. saving' = saving \ {e}
    BY <1>2 DEF Trim
  <2>5. Len(active') \in Nat
    BY <2>3
  <2> HIDE DEF over
  <2> QED BY <1>0, <2>1, <2>3, <2>4, <2>5 DEF SavesInv
<1>3. ASSUME saving' = saving, \E e : Revoke(e) PROVE SavesInv'
  <2>1. active' \in Seq(Endpoints) /\ Len(active') <= Len(active)
    BY <1>3, RevokeShortens DEF SavesInv
  <2>2. Len(active') \in Nat
    BY <2>1
  <2> QED BY <1>0, <1>3, <2>1, <2>2 DEF SavesInv
<1>4. CASE UNCHANGED <<active, saving>>
  BY <1>4 DEF SavesInv
<1>5. \/ UNCHANGED <<active, saving>>
      \/ saving' = saving /\ \E e : Revoke(e)
      \/ \E e \in Endpoints : Subscribe(e) \/ Trim(e)
  <2>1. CASE UNCHANGED mailerVars
    BY <2>1 DEF mailerVars, pushVars, keyVars
  <2>2. CASE \/ \E n \in Notes : Notify(n)
             \/ Notifications \/ UpdatePreferences
             \/ \E i \in Items : ItemLeaseEnds(i)
             \/ \E q \in Requests : Keyed(q)
    BY <2>2 DEF Notify, Notifications, UpdatePreferences, ItemLeaseEnds, UnlessSending,
       Keyed, Begin, Respond, Poll, RequestDies, TryAgain, UnlessKeyed, pushVars
  <2>3. ASSUME NEW s \in Senders, SendQueue(s) \/ SenderDies(s)
        PROVE  UNCHANGED <<active, saving>> \/ (saving' = saving /\ \E e : Revoke(e))
    <3>1. CASE PushFails(s)
      BY <3>1 DEF PushFails, UnlessPushing
    <3>2. CASE ~PushFails(s)
      BY <2>3, <3>2 DEF SendQueue, SenderDies, ClaimItem, DispatchEmail, ListSubscriptions,
         PushNext, RecordPush, RecordFails, PushEnds, SaveSent, SaveUnsent, UnlessSending,
         UnlessPushing
    <3> QED BY <3>1, <3>2
  <2>4. ASSUME NEW e \in Endpoints, Unsubscribe(e) PROVE saving' = saving /\ Revoke(e)
    BY <2>4 DEF Unsubscribe
  <2> QED BY <2>1, <2>2, <2>3, <2>4 DEF MailerNext
<1> QED BY <1>1, <1>2, <1>3, <1>4, <1>5

LEMMA KeyedKeeps ==
  ASSUME KeyedInv, [MailerNext]_mailerVars PROVE KeyedInv'
<1>1. ASSUME NEW q \in Requests, Keyed(q) PROVE KeyedInv'
  BY <1>1 DEF Keyed, Begin, Respond, Poll, RequestDies, TryAgain, KeyedInv
<1>2. CASE UNCHANGED <<record, runs>>
  BY <1>2 DEF KeyedInv
<1>3. UNCHANGED <<record, runs>> \/ \E q \in Requests : Keyed(q)
  <2>1. CASE UNCHANGED mailerVars
    BY <2>1 DEF mailerVars, pushVars, keyVars
  <2>2. CASE \/ \E n \in Notes : Notify(n)
             \/ Notifications \/ UpdatePreferences
             \/ \E i \in Items : ItemLeaseEnds(i)
             \/ \E e \in Endpoints : Subscribe(e) \/ Trim(e) \/ Unsubscribe(e)
    BY <2>2 DEF Notify, Notifications, UpdatePreferences, ItemLeaseEnds, UnlessSending,
       Subscribe, Trim, Unsubscribe, UnlessSubscribing, keyVars
  <2>3. ASSUME NEW s \in Senders, SendQueue(s) \/ SenderDies(s) PROVE UNCHANGED <<record, runs>>
    BY <2>3 DEF SendQueue, SenderDies, ClaimItem, DispatchEmail, ListSubscriptions, PushNext,
       RecordPush, RecordFails, PushFails, PushEnds, SaveSent, SaveUnsent, UnlessSending,
       UnlessPushing, keyVars
  <2> QED BY <2>1, <2>2, <2>3 DEF MailerNext
<1> QED BY <1>1, <1>2, <1>3

LEMMA SendersKeep ==
  ASSUME SendersInv, [MailerNext]_mailerVars PROVE SendersInv'
<1>1. ASSUME NEW s \in Senders, SendQueue(s) \/ SenderDies(s) PROVE SendersInv'
  BY <1>1, ClaimItemKeeps, SendingKeeps, SavingKeeps DEF SendQueue
<1>2. CASE UNCHANGED mailerVars
  BY <1>2, RowsKeep DEF mailerVars, pushVars
<1>3. CASE \/ \E n \in Notes : Notify(n)
           \/ \E i \in Items : ItemLeaseEnds(i)
  <2>1. UNCHANGED <<sender, reached, pushes, doubted, unnoted>>
    BY <1>3 DEF Notify, ItemLeaseEnds, UnlessSending, pushVars
  <2> QED BY <1>3, <2>1, RowsKeep
<1>4. CASE \/ Notifications \/ UpdatePreferences
           \/ \E e \in Endpoints : Subscribe(e) \/ Trim(e) \/ Unsubscribe(e)
           \/ \E q \in Requests : Keyed(q)
  <2>1. UNCHANGED <<sender, reached, pushes, doubted, unnoted, item>>
    BY <1>4 DEF Notifications, UpdatePreferences, Subscribe, Trim, Unsubscribe,
       UnlessSubscribing, Keyed, Begin, Respond, Poll, RequestDies, TryAgain, UnlessKeyed,
       pushVars
  <2> QED BY <2>1, RowsKeep
<1> QED BY <1>1, <1>2, <1>3, <1>4 DEF MailerNext

LEMMA MailerStart == MailerInit => SendersInv /\ SavesInv /\ KeyedInv
<1> SUFFICES ASSUME MailerInit PROVE SendersInv /\ SavesInv /\ KeyedInv
  OBVIOUS
<1>1. ItemShape(NoItem) /\ SenderShape(IdleSender) /\ IdleSender.at = "idle"
  BY DEF ItemShape, NoItem, SenderShape, IdleSender
<1>2. /\ item = [i \in Items |-> NoItem] /\ sender = [s \in Senders |-> IdleSender]
      /\ pushes = [x \in Items \X Endpoints |-> 0] /\ doubted = {} /\ reached = {}
      /\ active = <<>> /\ saving = {} /\ record = "none" /\ runs = 0
  BY DEF MailerInit
<1>3. SendersInv
  <2> HIDE DEF NoItem, IdleSender, Items
  <2>1. SendersTyped
    BY <1>1, <1>2 DEF SendersTyped
  <2>2. OneWorker
    BY <1>1, <1>2 DEF OneWorker, Works
  <2>3. PushesRecorded
    <3>1. \A i \in Items, e \in Endpoints : <<i, e>> \in Items \X Endpoints
      OBVIOUS
    <3>2. \A i \in Items, e \in Endpoints : pushes[<<i, e>>] = 0
      BY <1>2, <3>1
    <3> SUFFICES ASSUME NEW i \in Items, NEW e \in Endpoints
                 PROVE  pushes[<<i, e>>] <= 1 /\ pushes[<<i, e>>] # 1
      BY DEF PushesRecorded
    <3> QED BY <3>2
  <2> QED BY <2>1, <2>2, <2>3 DEF SendersInv
<1>4. SavesInv
  <2>1. <<>> \in Seq(Endpoints) /\ Len(<<>>) = 0 /\ IsFiniteSet({}) /\ Cardinality({}) = 0
    BY FS_EmptySet
  <2> QED BY <1>2, <2>1, MailerConstants DEF SavesInv
<1> QED BY <1>2, <1>3, <1>4 DEF KeyedInv

(* A push that is tried again reaches no browser twice unless its worker   *)
(* died or outlived its lease or the first delivery could not be recorded; *)
(* no user keeps more subscriptions than the limit; and requests with one  *)
(* key run once (notifyPush, saveSubscription, idempotency), for any       *)
(* number of workers, browsers and requests.                               *)
THEOREM EverythingSentOnce == MailerSpec => []SentOnce
<1> DEFINE Inv == SendersInv /\ SavesInv /\ KeyedInv
<1>1. Inv => SentOnce
  <2> SUFFICES ASSUME Inv PROVE SentOnce
    OBVIOUS
  <2>1. PushOnce
    BY DEF SendersInv, PushesRecorded, PushOnce
  <2>2. FewActive
    <3>1. Cardinality({}) = 0 /\ Len(active) \in Nat /\ MaxActive \in Nat
      BY FS_EmptySet, MailerConstants DEF SavesInv
    <3> QED BY <3>1 DEF SavesInv, FewActive
  <2>3. RunsOnce
    BY DEF KeyedInv, RunsOnce
  <2> QED BY <2>1, <2>2, <2>3 DEF SentOnce
<1>2. Inv /\ [MailerNext]_mailerVars => Inv'
  BY SendersKeep, SavesKeep, KeyedKeeps
<1>3. MailerInit => Inv
  BY MailerStart
<1> QED BY <1>1, <1>2, <1>3, PTL DEF MailerSpec
=============================================================================
