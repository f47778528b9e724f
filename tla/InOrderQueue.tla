---------------------------- MODULE InOrderQueue ----------------------------
(***************************************************************************)
(* In-order command queues of OpenCRun on one CPU device.                  *)
(*                                                                         *)
(* Host threads call clEnqueue*, clFlush, clFinish, clSetUserEventStatus;  *)
(* the worker threads of the CPU device execute the blocks (work-groups)   *)
(* of the commands, complete their events and call back into the queue     *)
(* (InOrderQueue::CommandDone), which schedules the next command.  Both    *)
(* kinds of thread run InOrderQueue::RunScheduler, so a step of the model  *)
(* is parameterised by the thread p that takes it.                         *)
(*                                                                         *)
(* ThisLock of a queue is held from the start of a submission to its end;  *)
(* critical sections with nothing observable in the middle are one step.   *)
(* Commands are numbered in the order in which they were enqueued.         *)
(***************************************************************************)
EXTENDS Integers, Sequences, FiniteSets

CONSTANTS
  Queues,       (* in-order command queues, all on the same device          *)
  Hosts,        (* application threads                                      *)
  Threads,      (* CPUThread workers of the device                          *)
  FirstThread,  (* Threads.front(): the worker of every single-exec command *)
  UserEvents,   (* user events; the application has created them all        *)
  Shapes,       (* the commands that the application may build              *)
  MaxCmds,      (* bound: commands enqueued in a behaviour                  *)
  MaxWaits,     (* bound: length of an event wait list                      *)
  None

Procs == Hosts \cup Threads
Cmds == 1 .. MaxCmds
Events == Cmds \cup UserEvents

(* Execution statuses of an event (CL/cl.h); every error is -1 here, the   *)
(* only one that the CPU device produces.  NoEvent: not created yet.       *)
NoEvent == 4
QUEUED == 3
SUBMITTED == 2
RUNNING == 1
COMPLETE == 0
FAILED == -1

ASSUME ConstantsAssumption ==
  /\ MaxCmds \in Nat
  /\ MaxWaits \in Nat
  /\ FirstThread \in Threads
  /\ Hosts \cap Threads = {}
  /\ UserEvents \cap Int = {}
  /\ None \notin Procs \cup Queues
  /\ None \notin Cmds

(* What matters of a command here.  Only clEnqueueNDRangeKernel makes a    *)
(* command of several blocks, or one that fails (no entry point, "bad"),   *)
(* and it never blocks.                                                    *)
ASSUME ShapesAssumption ==
  /\ Shapes \subseteq [ndrange : BOOLEAN, blocks : Nat \ {0},
                       blocking : BOOLEAN, bad : BOOLEAN]
  /\ \A s \in Shapes : IF s.ndrange THEN ~ s.blocking
                                    ELSE s.blocks = 1 /\ ~ s.bad

VARIABLES
  status,       (* Event::Status of each event                              *)
  last,         (* number of commands enqueued so far                       *)
  shape,        (* the command: shape, queue and event wait list            *)
  queue,
  waits,
  commands,     (* CommandQueue::Commands, the commands not yet submitted   *)
  pending,      (* CommandQueue::PendingCommands                            *)
  onFly,        (* InOrderQueue::CommandOnFly                               *)
  lock,         (* holder of CommandQueue::ThisLock, or None                *)
  pushed,       (* blocks of the command handed to a worker so far          *)
  started,      (* CPUMultiExecContext::StartedCount                        *)
  waitCount,    (* CPUMultiExecContext::WaitCount                           *)
  errors,       (* CPUMultiExecContext::Errors                              *)
  tq,           (* CPUThread::Commands, FIFO of <<command, block>>          *)
  freed,        (* commands whose memory was released                       *)
  pc,           (* control state of each thread                             *)
  caller,       (* who called the RunScheduler that p is in                 *)
  que,          (* the queue p is working on                                *)
  job,          (* worker: the <<command, block>> it executes               *)
  mine,         (* host: the command of its last Enqueue                    *)
  wset,         (* host: the events it waits for                            *)
  finished,     (* history: blocks that finished, for each command          *)
  seen          (* history: host's value of "last" when it called Finish    *)

cmdVars   == <<last, shape, queue, waits>>
queueVars == <<commands, pending, onFly>>
blockVars == <<pushed, started, waitCount, errors, tq, finished>>
hostVars  == <<mine, wset, seen>>
vars == <<status, cmdVars, queueVars, lock, blockVars, freed,
          pc, caller, que, job, hostVars>>

-----------------------------------------------------------------------------
(* Event *)

(* Event::HasCompleted: completed, or ended by an error.                   *)
HasCompleted(e) == status[e] <= COMPLETE

(* Mutant: the delayed status is not filtered out.                         *)
SignalUnfiltered(e, s) == [status EXCEPT ![e] = s]

(* Event::Signal: a logically earlier status that comes late is dropped.   *)
Signal(e, s) == [status EXCEPT ![e] = IF @ > s THEN s ELSE @]

-----------------------------------------------------------------------------
(* The scheduler: InOrderQueue::RunScheduler, run by any thread p *)

(* Mutant: a wait-list event counts as soon as its command runs.           *)
CanRunWhenRunning(c) == \A e \in waits[c] : status[e] <= RUNNING

(* Mutant: one event of the list that has completed is enough.             *)
CanRunWhenAny(c) == \E e \in waits[c] : HasCompleted(e)

(* Command::CanRun *)
CanRun(c) == \A e \in waits[c] : HasCompleted(e)

(* Mutant: the check of CommandOnFly is forgotten.                         *)
SchedulableIgnoringOnFly(q) == commands[q] # <<>>

(* Commands is not empty and no command of the queue is on the fly.        *)
Schedulable(q) == commands[q] # <<>> /\ ~ onFly[q]

(* Mutant: a worker goes on as if it had called Enqueue.                   *)
ContinueAsEnqueue(k, r) ==
  CASE k \in {"Enqueue", "Done"} -> "enqueued"
    [] k = "Flush"   -> IF r THEN "sched" ELSE "wait"
    [] k = "Finish"  -> IF r THEN "sched" ELSE "collect"

(* Mutant: Flush repeats RunScheduler while it returns false.              *)
ContinueInverted(k, r) ==
  CASE k = "Enqueue" -> "enqueued"
    [] k = "Done"    -> "erase"
    [] k = "Flush"   -> IF r THEN "wait" ELSE "sched"
    [] k = "Finish"  -> IF r THEN "collect" ELSE "sched"

(* Where a thread goes on when the RunScheduler called by k returns r.     *)
Continue(k, r) ==
  CASE k = "Enqueue" -> "enqueued"
    [] k = "Done"    -> "erase"
    [] k = "Flush"   -> IF r THEN "sched" ELSE "wait"
    [] k = "Finish"  -> IF r THEN "sched" ELSE "collect"

(* Nothing to schedule: return false.                                      *)
RunSchedulerFalse(p) ==
  /\ pc[p] = "sched"
  /\ lock[que[p]] = None
  /\ ~ Schedulable(que[p])
  /\ pc' = [pc EXCEPT ![p] = Continue(caller[p], FALSE)]
  /\ UNCHANGED <<status, cmdVars, queueVars, lock, blockVars, freed,
                 caller, que, job, hostVars>>

(* The front command waits for some event: return true.                    *)
RunSchedulerTrue(p) ==
  /\ pc[p] = "sched"
  /\ lock[que[p]] = None
  /\ Schedulable(que[p])
  /\ ~ CanRun(Head(commands[que[p]]))
  /\ pc' = [pc EXCEPT ![p] = Continue(caller[p], TRUE)]
  /\ UNCHANGED <<status, cmdVars, queueVars, lock, blockVars, freed,
                 caller, que, job, hostVars>>

(* The front command can run: keep the lock and submit it.                 *)
RunSchedulerSubmit(p) ==
  /\ pc[p] = "sched"
  /\ lock[que[p]] = None
  /\ Schedulable(que[p])
  /\ CanRun(Head(commands[que[p]]))
  /\ lock' = [lock EXCEPT ![que[p]] = p]
  /\ pc' = [pc EXCEPT ![p] = "submit"]
  /\ UNCHANGED <<status, cmdVars, queueVars, blockVars, freed,
                 caller, que, job, hostVars>>

(* The workers that the overloads of CPUDevice::Submit may choose for a    *)
(* block of c.  pickThread is Threads.front(); pickLeastLoadedThread, for  *)
(* the blocks of NDRange kernels, compares load samples taken at different *)
(* times, so that it may return any one.                                   *)
PickThread(c) == IF shape[c].ndrange THEN Threads ELSE {FirstThread}

(* BlockParallelSubmit, or the submit of the only block of the command:    *)
(* the next block of the front command is handed to a worker.              *)
SubmitBlock(p, t) ==
  LET c == Head(commands[que[p]])
      b == pushed[c] + 1
  IN /\ pc[p] = "submit"
     /\ t \in PickThread(c)
     /\ tq' = [tq EXCEPT ![t] = Append(@, <<c, b>>)]
     /\ pushed' = [pushed EXCEPT ![c] = b]
     /\ pc' = [pc EXCEPT ![p] = IF b = shape[c].blocks THEN "mark" ELSE @]
     /\ UNCHANGED <<status, cmdVars, queueVars, lock, started, waitCount,
                    errors, finished, freed, caller, que, job, hostVars>>

(* The end of CPUDevice::Submit: the workers may already run the command.  *)
MarkSubmitted(p) ==
  /\ pc[p] = "mark"
  /\ status' = Signal(Head(commands[que[p]]), SUBMITTED)
  /\ pc' = [pc EXCEPT ![p] = "commit"]
  /\ UNCHANGED <<cmdVars, queueVars, lock, blockVars, freed,
                 caller, que, job, hostVars>>

(* The command is on the fly; true is returned if there are others.        *)
RunSchedulerCommit(p) ==
  LET q == que[p]
      c == Head(commands[q])
  IN /\ pc[p] = "commit"
     /\ commands' = [commands EXCEPT ![q] = Tail(@)]
     /\ pending' = [pending EXCEPT ![q] = @ \cup {c}]
     /\ onFly' = [onFly EXCEPT ![q] = TRUE]
     /\ lock' = [lock EXCEPT ![q] = None]
     /\ pc' = [pc EXCEPT ![p] = Continue(caller[p], Tail(commands[q]) # <<>>)]
     /\ UNCHANGED <<status, cmdVars, blockVars, freed,
                    caller, que, job, hostVars>>

Scheduler(p) ==
  \/ RunSchedulerFalse(p)
  \/ RunSchedulerTrue(p)
  \/ RunSchedulerSubmit(p)
  \/ \E t \in Threads : SubmitBlock(p, t)
  \/ MarkSubmitted(p)
  \/ RunSchedulerCommit(p)

-----------------------------------------------------------------------------
(* Host threads *)

(* CommandQueue::Enqueue up to the call of RunScheduler, for a command of  *)
(* shape s that waits for the events W.                                    *)
Enqueue(h, q, s, W) ==
  LET c == last + 1
  IN /\ pc[h] = "idle"
     /\ lock[q] = None
     /\ last < MaxCmds
     /\ last' = c
     /\ shape' = [shape EXCEPT ![c] = s]
     /\ queue' = [queue EXCEPT ![c] = q]
     /\ waits' = [waits EXCEPT ![c] = W]
     /\ waitCount' = [waitCount EXCEPT ![c] = s.blocks]
     /\ status' = [status EXCEPT ![c] = QUEUED]
     /\ commands' = [commands EXCEPT ![q] = Append(@, c)]
     /\ mine' = [mine EXCEPT ![h] = c]
     /\ que' = [que EXCEPT ![h] = q]
     /\ caller' = [caller EXCEPT ![h] = "Enqueue"]
     /\ pc' = [pc EXCEPT ![h] = "sched"]
     /\ UNCHANGED <<pending, onFly, lock, pushed, started, errors, tq,
                    finished, freed, job, wset, seen>>

(* Mutant: the call returns at once whatever IsBlocking says.              *)
EnqueueReturnAtOnce(h) ==
  /\ pc[h] = "enqueued"
  /\ wset' = [wset EXCEPT ![h] = {}]
  /\ pc' = [pc EXCEPT ![h] = "wait"]
  /\ UNCHANGED <<status, cmdVars, queueVars, lock, blockVars, freed,
                 caller, que, job, mine, seen>>

(* The end of Enqueue: Cmd.IsBlocking() is read after RunScheduler.  The   *)
(* command may have completed and been freed meanwhile: the read then      *)
(* yields anything.                                                        *)
EnqueueReturn(h) ==
  /\ pc[h] = "enqueued"
  /\ \E b \in BOOLEAN :
       /\ mine[h] \notin freed => b = shape[mine[h]].blocking
       /\ wset' = [wset EXCEPT ![h] = IF b THEN {mine[h]} ELSE {}]
  /\ pc' = [pc EXCEPT ![h] = "wait"]
  /\ UNCHANGED <<status, cmdVars, queueVars, lock, blockVars, freed,
                 caller, que, job, mine, seen>>

(* CommandQueue::Flush repeats RunScheduler while it returns true.         *)
Flush(h, q) ==
  /\ pc[h] = "idle"
  /\ que' = [que EXCEPT ![h] = q]
  /\ caller' = [caller EXCEPT ![h] = "Flush"]
  /\ pc' = [pc EXCEPT ![h] = "sched"]
  /\ UNCHANGED <<status, cmdVars, queueVars, lock, blockVars, freed,
                 job, hostVars>>

(* CommandQueue::Finish starts with a Flush.                               *)
Finish(h, q) ==
  /\ pc[h] = "idle"
  /\ que' = [que EXCEPT ![h] = q]
  /\ caller' = [caller EXCEPT ![h] = "Finish"]
  /\ seen' = [seen EXCEPT ![h] = last]
  /\ pc' = [pc EXCEPT ![h] = "sched"]
  /\ UNCHANGED <<status, cmdVars, queueVars, lock, blockVars, freed,
                 job, mine, wset>>

(* Mutant: only the commands not yet submitted are waited for.             *)
UnfinishedQueuedOnly(q) == {commands[q][i] : i \in DOMAIN commands[q]}

(* The commands whose events Finish copies.                                *)
Unfinished(q) == pending[q] \cup {commands[q][i] : i \in DOMAIN commands[q]}

(* Finish copies the events under the lock.                                *)
FinishCollect(h) ==
  /\ pc[h] = "collect"
  /\ lock[que[h]] = None
  /\ wset' = [wset EXCEPT ![h] = Unfinished(que[h])]
  /\ pc' = [pc EXCEPT ![h] = "wait"]
  /\ UNCHANGED <<status, cmdVars, queueVars, lock, blockVars, freed,
                 caller, que, job, mine, seen>>

(* Event::Wait of all the events, in any order since completed is for      *)
(* ever, and the return to the application.                                *)
ReturnToHost(h) ==
  /\ pc[h] = "wait"
  /\ \A e \in wset[h] : HasCompleted(e)
  /\ pc' = [pc EXCEPT ![h] = "idle"]
  /\ caller' = [caller EXCEPT ![h] = None]
  /\ que' = [que EXCEPT ![h] = None]
  /\ mine' = [mine EXCEPT ![h] = None]
  /\ wset' = [wset EXCEPT ![h] = {}]
  /\ seen' = [seen EXCEPT ![h] = 0]
  /\ UNCHANGED <<status, cmdVars, queueVars, lock, blockVars, freed, job>>

(* clSetUserEventStatus, UserEvent::SetStatus: once only.                  *)
SetUserEventStatus(h, u, s) ==
  /\ pc[h] = "idle"
  /\ status[u] = SUBMITTED
  /\ status' = Signal(u, s)
  /\ UNCHANGED <<cmdVars, queueVars, lock, blockVars, freed,
                 pc, caller, que, job, hostVars>>

(* The events that a wait list may name: SetWaitList takes any.  For a     *)
(* blocking command an event in error is refused there, but an event may   *)
(* still fail between that check and Enqueue.                              *)
WaitLists == {W \in SUBSET {e \in Events : status[e] # NoEvent} :
                Cardinality(W) <= MaxWaits}

(* The calls an application thread may make.                               *)
HostCall(h) ==
  \/ \E q \in Queues : \/ \E s \in Shapes, W \in WaitLists : Enqueue(h, q, s, W)
                       \/ Flush(h, q)
                       \/ Finish(h, q)
  \/ \E u \in UserEvents, s \in {COMPLETE, FAILED} : SetUserEventStatus(h, u, s)

(* The calls it makes run to their end.                                    *)
HostStep(h) == EnqueueReturn(h) \/ FinishCollect(h) \/ ReturnToHost(h)

-----------------------------------------------------------------------------
(* Worker threads of the CPU device *)

(* CPUThread::Run takes the first command of its list.                     *)
Take(t) ==
  /\ pc[t] = "idle"
  /\ tq[t] # <<>>
  /\ job' = [job EXCEPT ![t] = Head(tq[t])]
  /\ tq' = [tq EXCEPT ![t] = Tail(@)]
  /\ pc' = [pc EXCEPT ![t] = "start"]
  /\ UNCHANGED <<status, cmdVars, queueVars, lock, pushed, started,
                 waitCount, errors, finished, freed, caller, que, hostVars>>

(* notifyStart, CPUMultiExecContext::start: the first block to start marks *)
(* the event.  A single-exec command has just one block.                   *)
NotifyStart(t) ==
  LET c == job[t][1]
  IN /\ pc[t] = "start"
     /\ started' = [started EXCEPT ![c] = @ + 1]
     /\ pc' = [pc EXCEPT ![t] = IF started[c] = 0 THEN "running" ELSE "exec"]
     /\ UNCHANGED <<status, cmdVars, queueVars, lock, pushed, waitCount,
                    errors, tq, finished, freed, caller, que, job, hostVars>>

MarkRunning(t) ==
  /\ pc[t] = "running"
  /\ status' = Signal(job[t][1], RUNNING)
  /\ pc' = [pc EXCEPT ![t] = "exec"]
  /\ UNCHANGED <<cmdVars, queueVars, lock, blockVars, freed,
                 caller, que, job, hostVars>>

(* Mutant: the counter is tested before it is decremented.                 *)
IsLastBlockOffByOne(c) == waitCount[c] <= 2

(* --WaitCount == 0 *)
IsLastBlock(c) == waitCount[c] = 1

(* The block has been executed; notifyCompletion and                       *)
(* CPUMultiExecContext::finish: the last one completes the command.        *)
NotifyCompletion(t) ==
  LET c == job[t][1]
  IN /\ pc[t] = "exec"
     /\ errors' = [errors EXCEPT ![c] = @ \/ shape[c].bad]
     /\ waitCount' = [waitCount EXCEPT ![c] = @ - 1]
     /\ finished' = [finished EXCEPT ![c] = @ \cup {job[t][2]}]
     /\ pc' = [pc EXCEPT ![t] = IF IsLastBlock(c) THEN "complete" ELSE "idle"]
     /\ job' = [job EXCEPT ![t] = IF IsLastBlock(c) THEN @ ELSE None]
     /\ UNCHANGED <<status, cmdVars, queueVars, lock, pushed, started, tq,
                    freed, caller, que, hostVars>>

MarkCompleted(t) ==
  LET c == job[t][1]
  IN /\ pc[t] = "complete"
     /\ status' = Signal(c, IF errors[c] THEN FAILED ELSE COMPLETE)
     /\ pc' = [pc EXCEPT ![t] = "done"]
     /\ UNCHANGED <<cmdVars, queueVars, lock, blockVars, freed,
                    caller, que, job, hostVars>>

(* InOrderQueue::CommandDone clears CommandOnFly, then the base class runs *)
(* the scheduler...                                                        *)
CommandDone(t) ==
  LET q == queue[job[t][1]]
  IN /\ pc[t] = "done"
     /\ lock[q] = None
     /\ onFly' = [onFly EXCEPT ![q] = FALSE]
     /\ que' = [que EXCEPT ![t] = q]
     /\ caller' = [caller EXCEPT ![t] = "Done"]
     /\ pc' = [pc EXCEPT ![t] = "sched"]
     /\ UNCHANGED <<status, cmdVars, commands, pending, lock, blockVars,
                    freed, job, hostVars>>

(* ... and erases, hence frees, the command.                               *)
CommandErase(t) ==
  LET c == job[t][1]
  IN /\ pc[t] = "erase"
     /\ lock[que[t]] = None
     /\ pending' = [pending EXCEPT ![que[t]] = @ \ {c}]
     /\ freed' = freed \cup {c}
     /\ pc' = [pc EXCEPT ![t] = "idle"]
     /\ caller' = [caller EXCEPT ![t] = None]
     /\ que' = [que EXCEPT ![t] = None]
     /\ job' = [job EXCEPT ![t] = None]
     /\ UNCHANGED <<status, cmdVars, commands, onFly, lock, blockVars,
                    hostVars>>

Worker(t) ==
  \/ Take(t)
  \/ NotifyStart(t)
  \/ MarkRunning(t)
  \/ NotifyCompletion(t)
  \/ MarkCompleted(t)
  \/ CommandDone(t)
  \/ CommandErase(t)

-----------------------------------------------------------------------------
Init ==
  /\ status = [e \in Events |-> IF e \in UserEvents THEN SUBMITTED ELSE NoEvent]
  /\ last = 0
  /\ shape = [c \in Cmds |-> None]
  /\ queue = [c \in Cmds |-> None]
  /\ waits = [c \in Cmds |-> {}]
  /\ commands = [q \in Queues |-> <<>>]
  /\ pending = [q \in Queues |-> {}]
  /\ onFly = [q \in Queues |-> FALSE]
  /\ lock = [q \in Queues |-> None]
  /\ pushed = [c \in Cmds |-> 0]
  /\ started = [c \in Cmds |-> 0]
  /\ waitCount = [c \in Cmds |-> 0]
  /\ errors = [c \in Cmds |-> FALSE]
  /\ tq = [t \in Threads |-> <<>>]
  /\ freed = {}
  /\ pc = [p \in Procs |-> "idle"]
  /\ caller = [p \in Procs |-> None]
  /\ que = [p \in Procs |-> None]
  /\ job = [t \in Threads |-> None]
  /\ mine = [h \in Hosts |-> None]
  /\ wset = [h \in Hosts |-> {}]
  /\ finished = [c \in Cmds |-> {}]
  /\ seen = [h \in Hosts |-> 0]

Next ==
  \/ \E p \in Procs : Scheduler(p)
  \/ \E h \in Hosts : HostCall(h) \/ HostStep(h)
  \/ \E t \in Threads : Worker(t)

Spec == Init /\ [][Next]_vars

(* A thread inside a call keeps running it; nothing obliges an application *)
(* to make a call.  Locks are held for finitely many steps.                *)
Fairness ==
  /\ \A p \in Procs : WF_vars(Scheduler(p))
  /\ \A h \in Hosts : WF_vars(HostStep(h))
  /\ \A t \in Threads : WF_vars(Worker(t))

FairSpec == Spec /\ Fairness

-----------------------------------------------------------------------------
(* Properties *)

Enqueued(q) == {c \in 1 .. last : queue[c] = q}

(* Command c has left the queue for the device, wholly or in part.         *)
Dispatched(c) == pushed[c] > 0

(* The worker t holds a pointer to the command c.                          *)
Holds(t, c) == pc[t] # "idle" /\ job[t][1] = c

SchedulerPC == {"sched", "submit", "mark", "commit"}
HostPC == SchedulerPC \cup {"idle", "enqueued", "collect", "wait"}
WorkerPC == SchedulerPC \cup {"idle", "start", "running", "exec",
                              "complete", "done", "erase"}

TypeOK ==
  /\ status \in [Events -> FAILED .. NoEvent]
  /\ last \in 0 .. MaxCmds
  /\ shape \in [Cmds -> Shapes \cup {None}]
  /\ queue \in [Cmds -> Queues \cup {None}]
  /\ waits \in [Cmds -> SUBSET Events]
  /\ commands \in [Queues -> Seq(Cmds)]
  /\ pending \in [Queues -> SUBSET Cmds]
  /\ onFly \in [Queues -> BOOLEAN]
  /\ lock \in [Queues -> Procs \cup {None}]
  /\ pushed \in [Cmds -> Nat]
  /\ started \in [Cmds -> Nat]
  /\ waitCount \in [Cmds -> Int]
  /\ errors \in [Cmds -> BOOLEAN]
  /\ tq \in [Threads -> Seq(Cmds \X Nat)]
  /\ freed \in SUBSET Cmds
  /\ pc \in [Procs -> HostPC \cup WorkerPC]
  /\ \A h \in Hosts : pc[h] \in HostPC
  /\ \A t \in Threads : pc[t] \in WorkerPC
  /\ caller \in [Procs -> {"Enqueue", "Flush", "Finish", "Done", None}]
  /\ que \in [Procs -> Queues \cup {None}]
  /\ job \in [Threads -> (Cmds \X Nat) \cup {None}]
  /\ mine \in [Hosts -> Cmds \cup {None}]
  /\ wset \in [Hosts -> SUBSET Cmds]
  /\ finished \in [Cmds -> SUBSET Nat]
  /\ seen \in [Hosts -> 0 .. MaxCmds]

(* InOrderQueue executes in order: once a block of d was handed to the     *)
(* device (RunScheduler, submit), every command enqueued before d on the   *)
(* same queue has completed, although CommandOnFly is reset by a worker    *)
(* and read by hosts.                                                      *)
InOrderExecution ==
  \A c, d \in 1 .. last :
    (c < d /\ queue[c] = queue[d] /\ Dispatched(d)) => HasCompleted(c)

(* Command::CanRun, read without any event lock, is enough: a dispatched   *)
(* command's wait-list events have all completed, and stay so.             *)
WaitListsRespected ==
  \A c \in 1 .. last : Dispatched(c) => \A e \in waits[c] : HasCompleted(e)

(* The promise of the queues, on the commands that have left their queue   *)
(* and the events that have completed.                                     *)
Order == INSTANCE CommandOrder
  WITH sent <- {c \in 1 .. last : Dispatched(c)},
       done <- {e \in Events : HasCompleted(e)}

(* The queues implement CommandOrder: with all the steps of submission and *)
(* completion of RunScheduler and CommandDone, and whatever thread takes   *)
(* them, commands are dispatched and completed as the application expects. *)
ImplementsCommandOrder == Order!Spec

(* Event::Signal: the status of an event only advances, and a final status *)
(* never changes, whichever of the host's MarkSubmitted and the workers'   *)
(* MarkRunning and MarkCompleted comes first.                              *)
StatusAdvances ==
  [][\A e \in Events :
       \/ status'[e] = status[e]
       \/ status'[e] < status[e] /\ ~ HasCompleted(e)]_status

(* CPUMultiExecContext: a command event has a final status only when every *)
(* block of the command has run, and it tells whether one failed.          *)
CompletionIsExact ==
  \A c \in 1 .. last : HasCompleted(c) =>
    /\ finished[c] = 1 .. shape[c].blocks
    /\ status[c] = FAILED <=> shape[c].bad

(* CommandQueue::CommandDone frees a command that no queue, worker list or *)
(* other worker still refers to.                                           *)
NoUseAfterFree ==
  \A c \in freed :
    /\ \A q \in Queues : c \notin Unfinished(q)
    /\ \A t \in Threads : /\ ~ Holds(t, c)
                          /\ \A i \in DOMAIN tq[t] : tq[t][i][1] # c

(* CommandQueue::Enqueue: a blocking call returns only when its command   *)
(* has completed, although IsBlocking may be read from a freed command.    *)
BlockingCallsWait ==
  [][\A h \in Hosts :
       (ReturnToHost(h) /\ caller[h] = "Enqueue" /\ shape[mine[h]].blocking)
         => HasCompleted(mine[h])]_vars

(* CommandQueue::Finish returns only when every command that the queue had *)
(* been given before the call has completed.                               *)
FinishWaitsForAll ==
  [][\A h \in Hosts :
       (ReturnToHost(h) /\ caller[h] = "Finish")
         => \A c \in Enqueued(que[h]) : c <= seen[h] => HasCompleted(c)]_vars

(* The wait lists of c and of the commands before it in its queue name     *)
(* events of the same queue only.                                          *)
WaitsInQueue(c) ==
  /\ c <= last
  /\ \A d \in Enqueued(queue[c]) : d <= c => waits[d] \subseteq Enqueued(queue[c])

(* CommandDone keeps the queue going: with no further call of the          *)
(* application, every command that waits for its own queue only completes. *)
CommandsComplete ==
  \A c \in Cmds : WaitsInQueue(c) ~> (c <= last /\ HasCompleted(c))

(* CommandQueue::Finish returns, as long as the queue's commands wait for  *)
(* commands of the queue only.                                             *)
FinishReturns ==
  \A h \in Hosts :
    (caller[h] = "Finish" /\ \A c \in Enqueued(que[h]) : WaitsInQueue(c))
      ~> (pc[h] = "idle" \/ \E c \in Enqueued(que[h]) : ~ WaitsInQueue(c))

(* What the application expects of event wait lists (CL/cl.hpp, comment on *)
(* enqueueMarkerWithWaitList): a command whose wait list has completed     *)
(* runs, at least when a host is blocked in a Finish that it called on the *)
(* queue after the command was enqueued.                                   *)
FinishRunsWaitingCommands ==
  \A h \in Hosts, c \in Cmds :
    (/\ pc[h] = "wait" /\ caller[h] = "Finish" /\ c \in wset[h] /\ c <= seen[h]
     /\ \A d \in Enqueued(queue[c]) : d <= c => CanRun(d))
      ~> HasCompleted(c)
=============================================================================
