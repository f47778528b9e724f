--------------------------- MODULE WorkerTearDown ---------------------------
(***************************************************************************)
(* The workers of a CPU device while the device is destroyed: at the exit  *)
(* of the process Platform::~Platform deletes the devices, whatever the    *)
(* other threads are doing.  The destructor stops and joins one worker     *)
(* after the other; meanwhile a host submits the blocks of a kernel.  A    *)
(* worker that is being stopped refuses new commands, and a refused block  *)
(* makes the whole submission fail: the queue puts the command back and    *)
(* submits it again, every block of it, with a new context.                *)
(*                                                                         *)
(* A command of a worker is <<try, block>>, or Stop.  The list of workers  *)
(* itself is freed with the last of them; a submitter that still reads it  *)
(* then is left out, as are joined workers among those it picks.           *)
(***************************************************************************)
EXTENDS Integers, Sequences

CONSTANTS
    NumWorkers,  \* workers of the device (CPUDevice::Threads)
    Blocks,      \* work-groups of the kernel
    MaxTries     \* bound: how often the queue submits the command

ASSUME TearDownAssumption ==
    /\ NumWorkers \in Nat \ {0}
    /\ Blocks \in Nat \ {0}
    /\ MaxTries \in Nat \ {0}

Workers == 1..NumWorkers
Tries == 1..MaxTries
Stop == <<0, 0>>
BlockCommands == Tries \X (1..Blocks)
WorkerCommands == BlockCommands \cup {Stop}

VARIABLES
    mode,      \* mode[w]: WorkingMode
    commands,  \* commands[w]: CPUThread::Commands
    wpc,       \* wpc[w]: where Run is
    cur,       \* cur[w]: the command w executes
    try,       \* submissions of the kernel so far
    block,     \* next block of the submission under way, 0: none
    left,      \* left[k]: WaitCount of the context of submission k
    executed,  \* block commands executed so far
    accepted,  \* block commands a worker accepted
    done,      \* submissions whose last block completed the command
    stopping,  \* worker the destructor has to stop or to join next
    stopped    \* has it submitted the stop command to that worker?

hostVars == <<try, block, accepted>>
dtorVars == <<stopping, stopped>>
vars == <<mode, commands, wpc, cur, left, executed, done, hostVars, dtorVars>>

Init ==
    /\ mode = [w \in Workers |-> "operational"]
    /\ commands = [w \in Workers |-> <<>>]
    /\ wpc = [w \in Workers |-> "loop"]
    /\ cur = [w \in Workers |-> Stop]
    /\ try = 0
    /\ block = 0
    /\ left = [k \in Tries |-> Blocks]
    /\ executed = {}
    /\ accepted = {}
    /\ done = {}
    /\ stopping = 1
    /\ stopped = FALSE

---------------------------------------------------------------------------
(* Submit *)

\* Mutant: only a stopped worker refuses commands.
RefusesWhenStopped(w) == mode[w] = "stopped"

\* Mode & NoNewJobs.
Refuses(w) == mode[w] \in {"teardown", "stopped"}

\* Mutant: a worker that waits is not woken.
PushSilently(w, c) ==
    /\ commands' = [commands EXCEPT ![w] = Append(@, c)]
    /\ wpc' = wpc

\* Mutant: a command is pushed twice.
PushTwice(w, c) ==
    /\ commands' = [commands EXCEPT ![w] = @ \o <<c, c>>]
    /\ wpc' = [wpc EXCEPT ![w] = IF @ = "waiting" THEN "monitor" ELSE @]

\* push_back and Signal; the worker is the only thread that waits.
Push(w, c) ==
    /\ commands' = [commands EXCEPT ![w] = Append(@, c)]
    /\ wpc' = [wpc EXCEPT ![w] = IF @ = "waiting" THEN "monitor" ELSE @]

---------------------------------------------------------------------------
(* The queue and the device. *)

\* RunScheduler submits the command; called again, by the loop of Flush or by
\* the next call on the queue, it does so anew after a submission that failed.
StartSubmission ==
    /\ block = 0
    /\ try < MaxTries
    /\ <<try, Blocks>> \notin accepted
    /\ try' = try + 1
    /\ block' = 1
    /\ UNCHANGED <<mode, commands, wpc, cur, left, executed, accepted, done,
                   dtorVars>>

\* The load indicators are read one after the other: any worker may look
\* least loaded.
SubmitBlock(w) ==
    /\ block # 0
    /\ w >= stopping
    /\ \/ /\ Refuses(w)
          /\ block' = 0
          /\ UNCHANGED <<commands, wpc, accepted>>
       \/ /\ ~Refuses(w)
          /\ Push(w, <<try, block>>)
          /\ accepted' = accepted \cup {<<try, block>>}
          /\ block' = IF block = Blocks THEN 0 ELSE block + 1
    /\ UNCHANGED <<mode, cur, try, left, executed, done, dtorVars>>

---------------------------------------------------------------------------
(* CPUThread::Run *)

\* Mutant: a worker leaves as soon as it is being stopped.
LeavesEarly(w) == mode[w] # "operational"

\* ~(Mode & ExecJobs), read without the Monitor.
Leaves(w) == mode[w] = "stopped"

TestMode(w) ==
    /\ wpc[w] = "loop"
    /\ wpc' = [wpc EXCEPT ![w] = IF Leaves(w) THEN "exited" ELSE "monitor"]
    /\ UNCHANGED <<mode, commands, cur, left, executed, done, hostVars, dtorVars>>

WaitForCommands(w) ==
    /\ wpc[w] = "monitor"
    /\ commands[w] = <<>>
    /\ wpc' = [wpc EXCEPT ![w] = "waiting"]
    /\ UNCHANGED <<mode, commands, cur, left, executed, done, hostVars, dtorVars>>

TakeCommand(w) ==
    /\ wpc[w] = "monitor"
    /\ commands[w] # <<>>
    /\ cur' = [cur EXCEPT ![w] = Head(commands[w])]
    /\ commands' = [commands EXCEPT ![w] = Tail(@)]
    /\ wpc' = [wpc EXCEPT ![w] = "execute"]
    /\ UNCHANGED <<mode, left, executed, done, hostVars, dtorVars>>

\* Execute(StopDeviceCPUCommand).
ExecuteStop(w) ==
    /\ wpc[w] = "execute"
    /\ cur[w] = Stop
    /\ mode' = [mode EXCEPT ![w] = "stopped"]
    /\ wpc' = [wpc EXCEPT ![w] = "loop"]
    /\ UNCHANGED <<commands, cur, left, executed, done, hostVars, dtorVars>>

\* Mutant: a context expects the blocks accepted so far.
IsLastSoFar(k) == ~\E b \in 1..Blocks : <<k, b>> \in accepted \ executed
                                        /\ <<k, b>> \notin {cur[w] : w \in Workers}

\* CPUMultiExecContext::finish.
IsLast(k) == left[k] = 1

\* Execute of a block, with the notification of its completion.
ExecuteBlock(w) ==
    LET k == cur[w][1]
    IN  /\ wpc[w] = "execute"
        /\ cur[w] # Stop
        /\ executed' = executed \cup {cur[w]}
        /\ left' = [left EXCEPT ![k] = @ - 1]
        /\ done' = IF IsLast(k) THEN done \cup {k} ELSE done
        /\ wpc' = [wpc EXCEPT ![w] = "loop"]
        /\ UNCHANGED <<mode, commands, cur, hostVars, dtorVars>>

---------------------------------------------------------------------------
(* CPUThread::~CPUThread, one worker after the other. *)

StopDevice ==
    /\ stopping <= NumWorkers
    /\ ~stopped
    /\ stopped' = TRUE
    /\ Push(stopping, Stop)
    /\ mode' = [mode EXCEPT ![stopping] = "teardown"]
    /\ UNCHANGED <<cur, left, executed, done, hostVars, stopping>>

Join ==
    /\ stopped
    /\ wpc[stopping] = "exited"
    /\ stopping' = stopping + 1
    /\ stopped' = FALSE
    /\ UNCHANGED <<mode, commands, wpc, cur, left, executed, done, hostVars>>

WorkerStep(w) ==
    \/ TestMode(w) \/ WaitForCommands(w) \/ TakeCommand(w)
    \/ ExecuteStop(w) \/ ExecuteBlock(w)

Next ==
    \/ StartSubmission
    \/ \E w \in Workers : SubmitBlock(w)
    \/ \E w \in Workers : WorkerStep(w)
    \/ StopDevice
    \/ Join

Spec == Init /\ [][Next]_vars

\* Workers are threads the operating system schedules; the destructor is one
\* too.  Whether the host submits anything is up to the program.
FairSpec ==
    /\ Spec
    /\ \A w \in Workers : WF_vars(WorkerStep(w))
    /\ WF_vars(StopDevice \/ Join)

---------------------------------------------------------------------------
TypeOK ==
    /\ mode \in [Workers -> {"operational", "teardown", "stopped"}]
    /\ commands \in [Workers -> Seq(WorkerCommands)]
    /\ wpc \in [Workers -> {"loop", "monitor", "waiting", "execute", "exited"}]
    /\ cur \in [Workers -> WorkerCommands]
    /\ try \in 0..MaxTries
    /\ block \in 0..Blocks
    /\ left \in [Tries -> 0..Blocks]
    /\ executed \subseteq BlockCommands
    /\ accepted \subseteq BlockCommands
    /\ done \subseteq Tries
    /\ stopping \in 1..(NumWorkers + 1)
    /\ stopped \in BOOLEAN

\* What a worker accepted it executes: although Run tests the mode without
\* the Monitor, no worker leaves with a command in its list.
NothingLeftBehind ==
    \A w \in Workers : wpc[w] = "exited" => commands[w] = <<>>

\* However often a submission fails half-way, only one that was accepted as a
\* whole completes the command, and only when all its blocks were executed.
OnlyWholeSubmissionsComplete ==
    \A k \in done : \A b \in 1..Blocks : <<k, b>> \in executed

\* The destructor of the device returns: no worker waits for a command that
\* does not come, and none is joined that does not leave.
DestructorReturns == <>(stopping = NumWorkers + 1)

\* Every block a worker accepted is executed, tear-down or not.
AcceptedBlocksRun ==
    \A c \in BlockCommands : c \in accepted ~> c \in executed

=============================================================================
