------------------------------ MODULE AsyncCopy -----------------------------
(***************************************************************************)
(* Asynchronous work-group copies: the global ThreadPool of the CPU device *)
(* and the built-ins async_work_group_copy and wait_group_events.          *)
(*                                                                         *)
(* A group stands for the CPUThread that executes a work-group; only the   *)
(* first work-item of the group does anything in these built-ins.  Each    *)
(* critical section of the pool's Monitor and of a job's Monitor is one    *)
(* step.  Monitor::Wait is assumed not to return spuriously.               *)
(***************************************************************************)
EXTENDS Integers, Sequences, FiniteSets

CONSTANTS
  NumThreads,    (* threads of the pool, one for each core                  *)
  Groups,        (* work-groups in execution                                *)
  MaxJobs,       (* bound: copies started in a behaviour                    *)
  MayShutDown,   (* whether llvm_shutdown may destroy the pool              *)
  None

Workers == 1 .. NumThreads
Jobs == 1 .. MaxJobs

ASSUME PoolAssumption ==
  /\ NumThreads \in Nat \ {0}
  /\ MaxJobs \in Nat
  /\ MayShutDown \in BOOLEAN
  /\ None \notin Jobs

VARIABLES
  jobs,        (* ThreadPool::jobs                                          *)
  issued,      (* number of jobs created so far                             *)
  wpc,         (* workers: "check", "waiting", "run", "complete", "forget",
                  "exited"                                                  *)
  wjob,        (* WorkerThread::job                                         *)
  end,         (* WorkerThread::end                                         *)
  completed,   (* jobs with Job::completed set                              *)
  deleted,     (* jobs that were deleted                                    *)
  gpc,         (* groups: "idle", "loop", "blocked" or "woken"              *)
  copies,      (* groups: async_copies of its event                         *)
  idx,         (* groups: the position of wait_group_events in it           *)
  dpc,         (* ~ThreadPool: "alive", "quit", "join" or "done"            *)
  cur,         (* ~ThreadPool: the index I of its loop                      *)
  crashed,     (* a worker used its job pointer after Quit had reset it     *)
  ran          (* history: jobs whose copy was carried out                  *)

groupVars == <<gpc, copies, idx>>
poolVars == <<wpc, wjob, end>>
dtorVars == <<dpc, cur>>
vars == <<jobs, issued, poolVars, completed, deleted, groupVars, dtorVars, crashed, ran>>

(* Monitor::Signal of the pool: one waiting worker, whichever, if any.     *)
Signalled(pcs) ==
  LET W == {w \in Workers : pcs[w] = "waiting"}
  IN IF W = {} THEN {pcs} ELSE {[pcs EXCEPT ![w] = "check"] : w \in W}

-----------------------------------------------------------------------------
(* Work-groups *)

(* Mutant: EnqueueJob does not signal.                                     *)
EnqueueJobSilently(j) ==
  /\ jobs' = Append(jobs, j)
  /\ wpc' = wpc

(* ThreadPool::EnqueueJob                                                  *)
EnqueueJob(j) ==
  /\ jobs' = Append(jobs, j)
  /\ wpc' \in Signalled(wpc)

(* AsyncWorkGroupCopy, AsyncWorkGroupStridedCopy: a new job for the event. *)
AsyncWorkGroupCopy(g) ==
  LET j == issued + 1
  IN /\ gpc[g] = "idle"
     /\ issued < MaxJobs
     /\ issued' = j
     /\ copies' = [copies EXCEPT ![g] = Append(@, j)]
     /\ EnqueueJob(j)
     /\ UNCHANGED <<wjob, end, completed, deleted, gpc, idx, dtorVars, crashed, ran>>

(* WaitGroupEvents                                                         *)
WaitGroupEvents(g) ==
  /\ gpc[g] = "idle"
  /\ copies[g] # <<>>
  /\ gpc' = [gpc EXCEPT ![g] = "loop"]
  /\ idx' = [idx EXCEPT ![g] = 1]
  /\ UNCHANGED <<jobs, issued, poolVars, completed, deleted, copies, dtorVars, crashed, ran>>

(* Mutant: the loop never waits.                                           *)
MustNotWait(j) == FALSE

(* if(!IsCompleted())                                                      *)
MustWait(j) == j \notin completed

WaitBlock(g) ==
  /\ gpc[g] = "loop"
  /\ MustWait(copies[g][idx[g]])
  /\ gpc' = [gpc EXCEPT ![g] = "blocked"]
  /\ UNCHANGED <<jobs, issued, poolVars, completed, deleted, copies, idx, dtorVars, crashed, ran>>

(* The job is completed, or the group was woken (it does not check again): *)
(* the job is deleted.  The event of the group is not used again.          *)
WaitNext(g) ==
  LET j == copies[g][idx[g]]
      over == idx[g] = Len(copies[g])
  IN /\ \/ gpc[g] = "loop" /\ ~ MustWait(j)
        \/ gpc[g] = "woken"
     /\ deleted' = deleted \cup {j}
     /\ gpc' = [gpc EXCEPT ![g] = IF over THEN "idle" ELSE "loop"]
     /\ copies' = [copies EXCEPT ![g] = IF over THEN <<>> ELSE @]
     /\ idx' = [idx EXCEPT ![g] = IF over THEN 0 ELSE @ + 1]
     /\ UNCHANGED <<jobs, issued, poolVars, completed, dtorVars, crashed, ran>>

-----------------------------------------------------------------------------
(* WorkerThread::Run *)

WorkerWait(w) ==
  /\ wpc[w] = "check"
  /\ ~ end[w] /\ jobs = <<>>
  /\ wpc' = [wpc EXCEPT ![w] = "waiting"]
  /\ UNCHANGED <<jobs, issued, wjob, end, completed, deleted, groupVars, dtorVars, crashed, ran>>

WorkerExit(w) ==
  /\ wpc[w] = "check"
  /\ end[w]
  /\ wpc' = [wpc EXCEPT ![w] = "exited"]
  /\ UNCHANGED <<jobs, issued, wjob, end, completed, deleted, groupVars, dtorVars, crashed, ran>>

WorkerTake(w) ==
  /\ wpc[w] = "check"
  /\ ~ end[w] /\ jobs # <<>>
  /\ wjob' = [wjob EXCEPT ![w] = Head(jobs)]
  /\ jobs' = Tail(jobs)
  /\ wpc' = [wpc EXCEPT ![w] = "run"]
  /\ UNCHANGED <<issued, end, completed, deleted, groupVars, dtorVars, crashed, ran>>

(* job->Run(): AsyncCopyThread::Run.                                       *)
RunJob(w) ==
  /\ wpc[w] = "run"
  /\ wjob[w] # None
  /\ ran' = ran \cup {wjob[w]}
  /\ wpc' = [wpc EXCEPT ![w] = "complete"]
  /\ UNCHANGED <<jobs, issued, wjob, end, completed, deleted, groupVars, dtorVars, crashed>>

(* Mutant: SetCompleted does not broadcast.                                *)
WokenByNothing(j) == {}

(* Job::SetCompleted wakes the group that waits for the job.               *)
WokenBy(j) == {g \in Groups : gpc[g] = "blocked" /\ copies[g][idx[g]] = j}

CompleteJob(w) ==
  /\ wpc[w] = "complete"
  /\ wjob[w] # None
  /\ completed' = completed \cup {wjob[w]}
  /\ gpc' = [g \in Groups |-> IF g \in WokenBy(wjob[w]) THEN "woken" ELSE gpc[g]]
  /\ wpc' = [wpc EXCEPT ![w] = "forget"]
  /\ UNCHANGED <<jobs, issued, wjob, end, deleted, copies, idx, dtorVars, crashed, ran>>

(* job = NULL, at which the group may have deleted the job already.        *)
ForgetJob(w) ==
  /\ wpc[w] = "forget"
  /\ wjob' = [wjob EXCEPT ![w] = None]
  /\ wpc' = [wpc EXCEPT ![w] = "check"]
  /\ UNCHANGED <<jobs, issued, end, completed, deleted, groupVars, dtorVars, crashed, ran>>

(* Quit has reset "job" meanwhile: a null pointer is dereferenced.         *)
NullJob(w) ==
  /\ wpc[w] \in {"run", "complete"}
  /\ wjob[w] = None
  /\ crashed' = TRUE
  /\ UNCHANGED <<jobs, issued, poolVars, completed, deleted, groupVars, dtorVars, ran>>

-----------------------------------------------------------------------------
(* ThreadPool::~ThreadPool *)

ShutDown ==
  /\ MayShutDown
  /\ dpc = "alive"
  /\ dpc' = "quit"
  /\ UNCHANGED <<jobs, issued, poolVars, completed, deleted, groupVars, cur, crashed, ran>>

(* Mutant: Quit does not signal.                                           *)
QuitSilently ==
  /\ dpc = "quit"
  /\ end' = [end EXCEPT ![cur] = TRUE]
  /\ wjob' = [wjob EXCEPT ![cur] = None]
  /\ wpc' = wpc
  /\ dpc' = "join"
  /\ UNCHANGED <<jobs, issued, completed, deleted, groupVars, cur, crashed, ran>>

(* WorkerThread::Quit, which may wake a worker other than its own.         *)
Quit ==
  /\ dpc = "quit"
  /\ end' = [end EXCEPT ![cur] = TRUE]
  /\ wjob' = [wjob EXCEPT ![cur] = None]
  /\ wpc' \in Signalled(wpc)
  /\ dpc' = "join"
  /\ UNCHANGED <<jobs, issued, completed, deleted, groupVars, cur, crashed, ran>>

(* Mutant: the loop of the destructor goes one too far.                    *)
JoinOneMore ==
  /\ dpc = "join"
  /\ wpc[cur] = "exited"
  /\ dpc' = IF cur = NumThreads THEN "done" ELSE "quit"
  /\ cur' = cur + 1
  /\ UNCHANGED <<jobs, issued, poolVars, completed, deleted, groupVars, crashed, ran>>

(* Thread::Join, the end of an iteration.                                  *)
Join ==
  /\ dpc = "join"
  /\ wpc[cur] = "exited"
  /\ dpc' = IF cur = NumThreads THEN "done" ELSE "quit"
  /\ cur' = IF cur = NumThreads THEN cur ELSE cur + 1
  /\ UNCHANGED <<jobs, issued, poolVars, completed, deleted, groupVars, crashed, ran>>

-----------------------------------------------------------------------------
Init ==
  /\ jobs = <<>>
  /\ issued = 0
  /\ wpc = [w \in Workers |-> "check"]
  /\ wjob = [w \in Workers |-> None]
  /\ end = [w \in Workers |-> FALSE]
  /\ completed = {}
  /\ deleted = {}
  /\ gpc = [g \in Groups |-> "idle"]
  /\ copies = [g \in Groups |-> <<>>]
  /\ idx = [g \in Groups |-> 0]
  /\ dpc = "alive"
  /\ cur = 1
  /\ crashed = FALSE
  /\ ran = {}

Worker(w) == \/ WorkerWait(w) \/ WorkerExit(w) \/ WorkerTake(w)
             \/ RunJob(w) \/ CompleteJob(w) \/ ForgetJob(w) \/ NullJob(w)

GroupStep(g) == WaitBlock(g) \/ WaitNext(g)

(* A crash ends the process.                                               *)
Next ==
  /\ ~ crashed
  /\ \/ \E w \in Workers : Worker(w)
     \/ \E g \in Groups : AsyncWorkGroupCopy(g) \/ WaitGroupEvents(g) \/ GroupStep(g)
     \/ ShutDown \/ Quit \/ Join

Spec == Init /\ [][Next]_vars

(* Threads run; kernels need not start copies or wait for them, and nobody *)
(* need destroy the pool.                                                  *)
FairSpec ==
  /\ Spec
  /\ \A w \in Workers : WF_vars(~ crashed /\ Worker(w))
  /\ \A g \in Groups : WF_vars(~ crashed /\ GroupStep(g))
  /\ WF_vars(~ crashed /\ (Quit \/ Join))

-----------------------------------------------------------------------------
(* Properties *)

TypeOK ==
  /\ jobs \in Seq(Jobs)
  /\ issued \in 0 .. MaxJobs
  /\ wpc \in [Workers -> {"check", "waiting", "run", "complete", "forget", "exited"}]
  /\ wjob \in [Workers -> Jobs \cup {None}]
  /\ end \in [Workers -> BOOLEAN]
  /\ completed \subseteq Jobs /\ deleted \subseteq Jobs /\ ran \subseteq Jobs
  /\ gpc \in [Groups -> {"idle", "loop", "blocked", "woken"}]
  /\ copies \in [Groups -> Seq(Jobs)]
  /\ idx \in [Groups -> 0 .. MaxJobs]
  /\ dpc \in {"alive", "quit", "join", "done"}
  /\ cur \in Workers
  /\ crashed \in BOOLEAN

(* The job that a worker is still going to use: to run it, then to set it  *)
(* completed.                                                              *)
InUse(w) == IF wpc[w] \in {"run", "complete"} THEN wjob[w] ELSE None

(* WaitGroupEvents deletes a job that neither the pool's list refers to    *)
(* nor a worker is going to use: SetCompleted is the last use, whether or  *)
(* not the worker has dropped its pointer by then.                         *)
NoUseAfterFree ==
  /\ \A i \in DOMAIN jobs : jobs[i] \notin deleted
  /\ \A w \in Workers : InUse(w) \notin deleted

(* wait_group_events: when it has gone past a copy (and deleted the job),  *)
(* the copy was made.                                                      *)
WaitedCopiesAreMade == deleted \subseteq ran

(* EnqueueJob and Run lose no wake-up: every copy is carried out, unless   *)
(* the pool is destroyed.                                                  *)
JobsComplete ==
  \A j \in Jobs : (j <= issued) ~> (j \in completed \/ dpc # "alive")

(* wait_group_events returns, unless the pool is destroyed.                *)
WaitReturns ==
  \A g \in Groups : (gpc[g] # "idle") ~> (gpc[g] = "idle" \/ dpc # "alive")

(* ~ThreadPool, comment: "Terminate all threads (exiting their Run         *)
(* method)."                                                               *)
AllThreadsTerminate ==
  (dpc # "alive") ~> (crashed \/ \A w \in Workers : wpc[w] = "exited")
=============================================================================
