----------------------------- MODULE MCWorkers ------------------------------
(***************************************************************************)
(* The worker processes: jobWorker drains the job queue and the outbox,    *)
(* the reminder jobs feed the queue.  The two stores share no document, so *)
(* a behaviour plays one scene: the outbox, the runs of jobs, their dead   *)
(* letters, or the reminders.                                              *)
(***************************************************************************)
EXTENDS Outbox, JobQueue

VARIABLE scene

workerVars == <<outboxVars, jobVars, scene>>

WorkersInit ==
  OutboxInit /\ JobsInit /\ scene \in {"outbox", "runs", "letters", "reminders"}

Plays(scenes) == scene \in scenes /\ UNCHANGED scene

JobsScene ==
  /\ UNCHANGED outboxVars
  /\ \/ \E i \in Instances :
          \/ Plays({"runs", "letters"}) /\ ProcessBatch(i)
          \/ Plays({"reminders"}) /\ Reminders(i)
          \/ Plays({"runs", "reminders"}) /\ InstanceDies(i)
     \/ Plays({"runs", "letters"}) /\ EnqueueExport
     \/ \E j \in Jobs : Plays({"runs"}) /\ LeaseEnds(j)
     \/ \E c \in Callers :
          \/ \E j \in Jobs : Plays({"runs"}) /\ RetryLoad(c, j)
          \/ Plays({"runs"}) /\ RetrySave(c)
          \/ \E l \in DOMAIN letter : Plays({"letters"}) /\ ReplayEnqueue(c, l)
          \/ Plays({"letters"}) /\ ReplayMark(c)
     \/ \E l \in DOMAIN letter : Plays({"letters"}) /\ Discard(l)

WorkersNext ==
  \/ Plays({"outbox"}) /\ OutboxNext /\ UNCHANGED jobVars
  \/ JobsScene

WorkersSpec == WorkersInit /\ [][WorkersNext]_workerVars

(* The fairness of FairOutbox and FairJobs. *)
FairWorkers ==
  /\ WorkersSpec
  /\ \A w \in Workers :
       WF_workerVars(Plays({"outbox"}) /\ ProcessPending(w) /\ UNCHANGED jobVars)
  /\ \A e \in Events :
       WF_workerVars(Plays({"outbox"}) /\ LeaseLapses(e) /\ UNCHANGED jobVars)
  /\ \A i \in Instances :
       WF_workerVars(/\ ProcessBatch(i) /\ UNCHANGED outboxVars
                     /\ Plays({"runs", "letters"}))
  /\ \A j \in Jobs :
       WF_workerVars(Plays({"runs"}) /\ LeaseEnds(j) /\ UNCHANGED outboxVars)
  /\ <>[][/\ \A w \in Workers : ~Dies(w)
          /\ \A e \in Events : ~Outlived(e)
          /\ \A i \in Instances : ~InstanceDies(i)]_workerVars
-----------------------------------------------------------------------------
(* What is marked as done was done as far as its service tells: a refund   *)
(* or mail marked as sent was delivered, a booking flagged as reminded has *)
(* its job, a hold was tried.                                              *)
MarkedIsDone == SentDelivered /\ RemindersKept

(* JobsEnd, in the scenes in which jobs run.                               *)
RunsEnd == scene \in {"runs", "letters"} => JobsEnd
=============================================================================
