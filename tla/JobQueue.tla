------------------------------ MODULE JobQueue ------------------------------
(***************************************************************************)
(* The monolith's background jobs (jobQueue): exports that hosts ask for   *)
(* and reminders that a timer enqueues for bookings about to start         *)
(* (bookingReminders, holdReminders).                                      *)
(*                                                                         *)
(* An instance runs one job at a time under a lease of five minutes.  The  *)
(* lease is looked at when jobs are recovered, never when their outcome is *)
(* saved.                                                                  *)
(***************************************************************************)
EXTENDS Naturals, FiniteSets

CONSTANTS
  Jobs,         \* documents the queue may hold
  Due,          \* bookings that start within two hours
  Holds,        \* bookings whose hold ends within ten minutes
  Instances,    \* processes with the role worker
  Callers,      \* requests of owners and administrators
  MaxTries,     \* of one run, 3 in the code
  MaxRuns,      \* runs of one job, 10 in the code
  Nothing

ASSUME JobQueueConstants ==
  /\ Nothing \notin Jobs \cup Due \cup Holds
  /\ MaxTries \in Nat \ {0} /\ MaxRuns \in Nat \ {0}

VARIABLES
  job,       \* BackgroundJob documents
  letter,    \* DeadLetter documents, by job and attempt
  runner,    \* processNextJob on each instance
  sweep,     \* the reminder jobs on each instance
  caller,    \* the requests
  flagged,   \* bookings with ReminderSent or HoldReminderSent
  tried,     \* history: holds whose customer notifyUser was called for
  disturbed  \* history: jobs retried by hand, or run beyond a lease

jobVars == <<job, letter, runner, sweep, caller, flagged, tried, disturbed>>

Unused == [status |-> "none", attempts |-> 0, lease |-> "none", for |-> Nothing]
IdleRunner == [at |-> "idle", job |-> Nothing, tries |-> 0, attempt |-> 0]
IdleSweep == [at |-> "idle", found |-> {}, now |-> Nothing]
IdleCaller == [at |-> "idle", job |-> Nothing, letter |-> Nothing]

JobsInit ==
  /\ job = [j \in Jobs |-> Unused]
  /\ letter = [l \in Jobs \X (1..MaxRuns) |-> "none"]
  /\ runner = [i \in Instances |-> IdleRunner]
  /\ sweep = [i \in Instances |-> IdleSweep]
  /\ caller = [c \in Callers |-> IdleCaller]
  /\ flagged = {} /\ tried = {} /\ disturbed = {}
-----------------------------------------------------------------------------
(* enqueue *)
Created(b) ==
  \E j \in Jobs :
    /\ job[j] = Unused
    /\ job' = [job EXCEPT ![j].status = "queued", ![j].for = b]

(* enqueueLedgerExport, enqueueBookingsExport *)
EnqueueExport ==
  /\ Created(Nothing)
  /\ UNCHANGED <<letter, runner, sweep, caller, flagged, tried, disturbed>>

(* Mutants of Abandoned: whatever runs is taken for stuck; only jobs       *)
(* without a lease are.                                                    *)
AbandonedAny(j) == job[j].status = "running"
AbandonedUnleased(j) == job[j].status = "running" /\ job[j].lease = "none"

Abandoned(j) == job[j].status = "running" /\ job[j].lease = "over"

(* recoverStuckJobs, before every claim. *)
Recover(i) ==
  /\ runner[i].at = "idle"
  /\ job' = [j \in Jobs |->
       IF Abandoned(j) THEN [job[j] EXCEPT !.status = "queued", !.lease = "none"]
       ELSE job[j]]
  /\ runner' = [runner EXCEPT ![i].at = "claim"]
  /\ UNCHANGED <<letter, sweep, caller, flagged, tried, disturbed>>

Waiting(j) == job[j].status = "queued" /\ job[j].attempts < MaxRuns

(* processNextJob, claim; RunAfter is the present or past. *)
ProcessNextJob(i) ==
  /\ runner[i].at = "claim"
  /\ \/ \E j \in Jobs :
          /\ Waiting(j)
          /\ job' = [job EXCEPT ![j].status = "running", ![j].lease = "held",
                                ![j].attempts = @ + 1]
          /\ runner' = [runner EXCEPT ![i] =
               [at |-> "run", job |-> j, tries |-> 0,
                attempt |-> job[j].attempts + 1]]
     \/ /\ \A j \in Jobs : ~Waiting(j)
        /\ runner' = [runner EXCEPT ![i] = IdleRunner]
        /\ UNCHANGED job
  /\ UNCHANGED <<letter, sweep, caller, flagged, tried, disturbed>>

(* withRetry: the handler returns, or throws and is tried again. *)
Run(i) ==
  /\ runner[i].at = "run"
  /\ \/ runner' = [runner EXCEPT ![i].at = "completed"]
     \/ runner' = [runner EXCEPT ![i].tries = @ + 1,
          ![i].at = IF runner[i].tries + 1 = MaxTries THEN "bury" ELSE "run"]
  /\ UNCHANGED <<job, letter, sweep, caller, flagged, tried, disturbed>>

(* DeadLetter.create; should it fail too, the job just fails. *)
Bury(i) ==
  /\ runner[i].at = "bury"
  /\ runner' = [runner EXCEPT ![i].at = "failed"]
  /\ \/ letter' = [letter EXCEPT ![<<runner[i].job, runner[i].attempt>>] = "open"]
     \/ UNCHANGED letter
  /\ UNCHANGED <<job, sweep, caller, flagged, tried, disturbed>>

(* job.save(), whatever has become of the job. *)
SaveOutcome(i) ==
  /\ runner[i].at \in {"completed", "failed"}
  /\ job' = [job EXCEPT ![runner[i].job].status = runner[i].at,
                        ![runner[i].job].lease = "none"]
  /\ runner' = [runner EXCEPT ![i] = IdleRunner]
  /\ UNCHANGED <<letter, sweep, caller, flagged, tried, disturbed>>

At(i, j) == runner[i].at \notin {"idle", "claim"} /\ runner[i].job = j

(* Five minutes are over: the instance has died, or is still at it. *)
LeaseEnds(j) ==
  /\ job[j].status = "running" /\ job[j].lease = "held"
  /\ job' = [job EXCEPT ![j].lease = "over"]
  /\ disturbed' = disturbed \cup
       (IF \E i \in Instances : At(i, j) THEN {j} ELSE {})
  /\ UNCHANGED <<letter, runner, sweep, caller, flagged, tried>>

(* Between jobs it leaves nothing behind. *)
InstanceDies(i) ==
  /\ runner[i].at \notin {"idle", "claim"} \/ sweep[i].at # "idle"
  /\ runner' = [runner EXCEPT ![i] = IdleRunner]
  /\ sweep' = [sweep EXCEPT ![i] = IdleSweep]
  /\ UNCHANGED <<job, letter, caller, flagged, tried, disturbed>>
-----------------------------------------------------------------------------
(* retryFailedJob, by an owner or an administrator; Attempts stay.         *)
RetryLoad(c, j) ==
  /\ caller[c].at = "idle" /\ job[j].status \in {"failed", "completed"}
  /\ caller' = [caller EXCEPT ![c] = [IdleCaller EXCEPT !.at = "retry", !.job = j]]
  /\ UNCHANGED <<job, letter, runner, sweep, flagged, tried, disturbed>>

RetrySave(c) ==
  /\ caller[c].at = "retry"
  /\ job' = [job EXCEPT ![caller[c].job].status = "queued"]
  /\ disturbed' = disturbed \cup {caller[c].job}
  /\ caller' = [caller EXCEPT ![c] = IdleCaller]
  /\ UNCHANGED <<letter, runner, sweep, flagged, tried>>

Discard(l) ==
  /\ letter[l] # "none"
  /\ letter' = [letter EXCEPT ![l] = "discarded"]
  /\ UNCHANGED <<job, runner, sweep, caller, flagged, tried, disturbed>>

(* replayDeadLetter: a new job from any letter, then the letter's mark.    *)
ReplayEnqueue(c, l) ==
  /\ caller[c].at = "idle" /\ letter[l] # "none"
  /\ Created(job[l[1]].for)
  /\ caller' = [caller EXCEPT ![c] = [IdleCaller EXCEPT !.at = "replay",
                                                       !.letter = l]]
  /\ UNCHANGED <<letter, runner, sweep, flagged, tried, disturbed>>

ReplayMark(c) ==
  /\ caller[c].at = "replay"
  /\ letter' = [letter EXCEPT ![caller[c].letter] = "replayed"]
  /\ caller' = [caller EXCEPT ![c] = IdleCaller]
  /\ UNCHANGED <<job, runner, sweep, flagged, tried, disturbed>>
-----------------------------------------------------------------------------
(* runBookingReminders and runHoldReminders: what is due and not flagged,  *)
(* one after the other.                                                    *)
SweepFind(i, B) ==
  /\ sweep[i].at = "idle" /\ B \ flagged # {}
  /\ sweep' = [sweep EXCEPT ![i] =
       [at |-> "next", found |-> B \ flagged, now |-> Nothing]]
  /\ UNCHANGED <<job, letter, runner, caller, flagged, tried, disturbed>>

(* Mutant of Remind: the flag comes first. *)
RemindFlagged(i) ==
  \E b \in sweep[i].found :
    /\ sweep[i].at = "next" /\ b \in Due
    /\ flagged' = flagged \cup {b}
    /\ sweep' = [sweep EXCEPT ![i].at = "remind", ![i].now = b]
    /\ UNCHANGED <<job, letter, runner, caller, tried, disturbed>>

(* A booking that is due gets a job.  For a hold notifyUser is called,     *)
(* which logs a failure and returns: the hold is flagged all the same.     *)
Remind(i) ==
  \E b \in sweep[i].found :
    /\ sweep[i].at = "next"
    /\ \/ b \in Due /\ Created(b) /\ UNCHANGED tried
       \/ b \in Holds /\ tried' = tried \cup {b} /\ UNCHANGED job
    /\ sweep' = [sweep EXCEPT ![i].at = "flag", ![i].now = b]
    /\ UNCHANGED <<letter, runner, caller, flagged, disturbed>>

Rest(i) ==
  LET rest == sweep[i].found \ {sweep[i].now} IN
  sweep' = [sweep EXCEPT ![i] =
    IF rest = {} THEN IdleSweep
    ELSE [at |-> "next", found |-> rest, now |-> Nothing]]

Flag(i) ==
  /\ sweep[i].at = "flag"
  /\ flagged' = flagged \cup {sweep[i].now}
  /\ Rest(i)
  /\ UNCHANGED <<job, letter, runner, caller, tried, disturbed>>

(* enqueue or updateOne throws: that ends the whole sweep over bookings    *)
(* that are due, and the turn of its own hold only.                        *)
SweepFails(i) ==
  /\ \/ sweep[i].at = "next" /\ sweep[i].found \cap Due # {}
     \/ sweep[i].at = "flag"
  /\ IF sweep[i].now \in Holds THEN Rest(i)
                               ELSE sweep' = [sweep EXCEPT ![i] = IdleSweep]
  /\ UNCHANGED <<job, letter, runner, caller, flagged, tried, disturbed>>
-----------------------------------------------------------------------------
ProcessBatch(i) ==
  Recover(i) \/ ProcessNextJob(i) \/ Run(i) \/ Bury(i) \/ SaveOutcome(i)

Reminders(i) ==
  \/ SweepFind(i, Due) \/ SweepFind(i, Holds)
  \/ Remind(i) \/ Flag(i) \/ SweepFails(i)

JobsNext ==
  \/ EnqueueExport
  \/ \E i \in Instances : ProcessBatch(i) \/ Reminders(i) \/ InstanceDies(i)
  \/ \E j \in Jobs : LeaseEnds(j)
  \/ \E c \in Callers :
       \/ \E j \in Jobs : RetryLoad(c, j)
       \/ \E l \in DOMAIN letter : ReplayEnqueue(c, l)
       \/ RetrySave(c) \/ ReplayMark(c)
  \/ \E l \in DOMAIN letter : Discard(l)

JobsSpec == JobsInit /\ [][JobsNext]_jobVars

(* jobWorker ticks every 15 seconds on every instance and a lease ends.    *)
(* From some moment on no instance dies.                                   *)
FairJobs ==
  /\ JobsSpec
  /\ \A i \in Instances : WF_jobVars(ProcessBatch(i))
  /\ \A j \in Jobs : WF_jobVars(LeaseEnds(j))
  /\ <>[][\A i \in Instances : ~InstanceDies(i)]_jobVars
-----------------------------------------------------------------------------
(* A job that nobody retried and no instance ran beyond its lease is done  *)
(* when it is completed: dead instances and the recovery of their jobs by  *)
(* others do not reopen it or turn it into a failure.                      *)
CompletedKept ==
  [][\A j \in Jobs \ disturbed' :
       job[j].status = "completed" => job'[j].status = "completed"]_jobVars

(* A booking that is due is flagged as reminded only when the job of its   *)
(* reminder exists, and a hold only after its customer was notified or     *)
(* that failed unheard, wherever the instance that flags it dies.          *)
RemindersKept ==
  \A b \in flagged : b \in tried \/ \E j \in Jobs : job[j].for = b

(* A job that waits is run in the end, although instances die, until its   *)
(* attempts are used up.                                                   *)
JobsEnd ==
  \A j \in Jobs :
    job[j].status = "queued" ~>
      job[j].status \in {"completed", "failed"} \/ job[j].attempts = MaxRuns
=============================================================================
