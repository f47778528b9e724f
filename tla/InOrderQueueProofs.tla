------------------------- MODULE InOrderQueueProofs -------------------------
(***************************************************************************)
(* Proofs about InOrderQueue, for every set of queues, hosts, workers and  *)
(* user events, every number of commands and every number of blocks.       *)
(*                                                                         *)
(* First the queue itself: order, wait lists, exact completion.  Then the  *)
(* blocking calls: CommandQueue::Finish and a blocking                     *)
(* CommandQueue::Enqueue return when the commands that they are about have *)
(* completed.  Last the refinement: InOrderQueue implements CommandOrder.  *)
(* The first block of a command that a worker is given is its dispatch,    *)
(* MarkCompleted its completion, and all other steps of hosts and workers  *)
(* change nothing that CommandOrder speaks of.                             *)
(***************************************************************************)
EXTENDS InOrderQueue, FiniteSetTheorems, SequenceTheorems, TLAPS

-----------------------------------------------------------------------------
(* The inductive invariant *)

InQueue(c, q) == \E i \in 1 .. Len(commands[q]) : commands[q][i] = c

(* c was enqueued and has left Commands.                                   *)
Out(c) == c \in 1 .. last /\ ~ InQueue(c, queue[c])

Submitting(p) == pc[p] \in {"submit", "mark", "commit"}

(* Worker t executes a block, or has yet to report the completion.         *)
Active(t) == pc[t] \in {"start", "running", "exec"}
Reporting(t) == pc[t] \in {"complete", "done"}

(* Worker t is behind the finish() of the last block of its command.       *)
Past(t) == Reporting(t) \/ pc[t] \in SchedulerPC \/ pc[t] = "erase"

(* What the threads' local variables hold.                                 *)
ProcInv ==
  /\ \A h \in Hosts : pc[h] # "idle" =>
       que[h] \in Queues /\ caller[h] \in {"Enqueue", "Flush", "Finish"}
  /\ \A h \in Hosts : pc[h] # "idle" /\ caller[h] = "Enqueue" => mine[h] \in 1 .. last
  /\ \A h \in Hosts : pc[h] = "enqueued" => caller[h] = "Enqueue"
  /\ \A t \in Threads : pc[t] # "idle" => job[t] \in (1 .. last) \X Nat
  /\ \A t \in Threads : (pc[t] \in SchedulerPC \/ pc[t] = "erase") =>
       caller[t] = "Done" /\ que[t] = queue[job[t][1]]

(* A submission holds the lock of its queue, whose front command may run.  *)
LockInv ==
  \A p \in Procs : Submitting(p) =>
    /\ lock[que[p]] = p
    /\ commands[que[p]] # <<>>
    /\ ~ onFly[que[p]]
    /\ CanRun(Head(commands[que[p]]))

(* Commands that wait in a queue are in the order of their numbers, behind *)
(* those that have left it.                                                *)
QueueInv ==
  /\ \A c \in 1 .. last : queue[c] \in Queues /\ shape[c] \in Shapes /\ status[c] # NoEvent
  /\ \A c \in Cmds : c > last => status[c] = NoEvent
  /\ \A q \in Queues : \A i \in 1 .. Len(commands[q]) :
       commands[q][i] \in 1 .. last /\ queue[commands[q][i]] = q
  /\ \A q \in Queues : \A i, j \in 1 .. Len(commands[q]) :
       i < j => commands[q][i] < commands[q][j]
  /\ \A q \in Queues : \A c \in 1 .. last : \A i \in 1 .. Len(commands[q]) :
       Out(c) /\ queue[c] = q => c < commands[q][i]

(* How far the submission of each command has come.                        *)
SubmitInv ==
  /\ \A c \in Cmds : c > last => pushed[c] = 0
  /\ \A c \in 1 .. last : pushed[c] <= shape[c].blocks
  /\ \A c \in 1 .. last : Out(c) => pushed[c] = shape[c].blocks
  /\ \A c \in 1 .. last : pushed[c] > 0 /\ ~ Out(c) =>
       \E p \in Procs : /\ Submitting(p)
                        /\ que[p] = queue[c]
                        /\ c = Head(commands[que[p]])
  /\ \A p \in Procs : pc[p] = "submit" =>
       LET c == Head(commands[que[p]]) IN pushed[c] < shape[c].blocks
  /\ \A p \in Procs : pc[p] \in {"mark", "commit"} =>
       LET c == Head(commands[que[p]]) IN pushed[c] = shape[c].blocks
  /\ \A c \in 1 .. last : pushed[c] > 0 => CanRun(c)

(* Of the commands that have left a queue only the last one may be         *)
(* incomplete, and only while CommandOnFly is set.                         *)
FlyInv ==
  /\ \A c, d \in 1 .. last :
       Out(c) /\ Out(d) /\ queue[c] = queue[d] /\ c < d => HasCompleted(c)
  /\ \A c \in 1 .. last : Out(c) /\ ~ onFly[queue[c]] => HasCompleted(c)

(* c is being submitted, or it is the command on the fly.                  *)
InFlight(c) ==
  Out(c) => /\ onFly[queue[c]]
            /\ \A d \in 1 .. last : Out(d) /\ queue[d] = queue[c] => d <= c

(* The blocks with the workers are of commands in flight.                  *)
FlightInv ==
  /\ \A t \in Threads : \A i \in 1 .. Len(tq[t]) : InFlight(tq[t][i][1])
  /\ \A t \in Threads : Active(t) \/ Reporting(t) => InFlight(job[t][1])

(* A block that was handed over and has not finished.                      *)
Unfinished1(b) ==
  /\ b[1] \in 1 .. last
  /\ b[2] \in 1 .. pushed[b[1]]
  /\ b[2] \notin finished[b[1]]

(* Every such block is in one place.                                       *)
BlockInv ==
  /\ \A t \in Threads : \A i \in 1 .. Len(tq[t]) : Unfinished1(tq[t][i])
  /\ \A t \in Threads : Active(t) => Unfinished1(job[t])
  /\ \A t, u \in Threads : \A i \in 1 .. Len(tq[t]), j \in 1 .. Len(tq[u]) :
       tq[t][i] = tq[u][j] => t = u /\ i = j
  /\ \A t, u \in Threads : \A i \in 1 .. Len(tq[t]) : Active(u) => tq[t][i] # job[u]
  /\ \A t, u \in Threads : Active(t) /\ Active(u) /\ job[t] = job[u] => t = u

(* The counters count the blocks that have not finished.                   *)
CountInv ==
  /\ \A c \in Cmds : finished[c] \subseteq 1 .. pushed[c]
  /\ \A c \in 1 .. last : waitCount[c] = shape[c].blocks - Cardinality(finished[c])

(* One worker reports the completion of a command, when all blocks ran.    *)
PastInv ==
  /\ \A t \in Threads : Past(t) =>
       LET c == job[t][1] IN finished[c] = 1 .. shape[c].blocks
  /\ \A t, u \in Threads : Past(t) /\ Past(u) /\ job[t][1] = job[u][1] => t = u
  /\ \A t \in Threads : Past(t) => (pc[t] = "complete" <=> ~ HasCompleted(job[t][1]))

(* What a final status and the error flag mean.                            *)
StatusInv ==
  /\ CompletionIsExact
  /\ \A c \in Cmds : c > last => ~ errors[c]
  /\ \A c \in 1 .. last : errors[c] => shape[c].bad
  /\ \A c \in 1 .. last : finished[c] # {} /\ shape[c].bad => errors[c]

(* What it takes to free a command.                                        *)
FreedInv ==
  /\ \A q \in Queues : \A c \in pending[q] : Out(c) /\ queue[c] = q /\ c \notin freed
  /\ \A t \in Threads : pc[t] \in SchedulerPC \/ pc[t] = "erase" => Out(job[t][1])
  /\ \A c \in freed : /\ Out(c)
                      /\ finished[c] = 1 .. shape[c].blocks
                      /\ \A t \in Threads : Past(t) => job[t][1] # c

IInv == /\ TypeOK /\ ProcInv /\ LockInv /\ QueueInv /\ SubmitInv /\ FlyInv
        /\ FlightInv /\ BlockInv /\ CountInv /\ PastInv /\ StatusInv /\ FreedInv

-----------------------------------------------------------------------------
LEMMA InitInv == Init => IInv
<1> SUFFICES ASSUME Init PROVE IInv
  OBVIOUS
<1> USE ConstantsAssumption DEF Init
<1>1. TypeOK
  BY DEF TypeOK, Events, Cmds, Procs, HostPC, WorkerPC, SchedulerPC,
         NoEvent, SUBMITTED, FAILED
<1>2. ProcInv
  BY DEF ProcInv, Procs, SchedulerPC
<1>3. LockInv
  BY DEF LockInv, Submitting
<1>4. QueueInv
  BY DEF QueueInv, Cmds, Events
<1>5. SubmitInv
  BY DEF SubmitInv, Cmds
<1>6. FlyInv
  BY DEF FlyInv
<1>7. FlightInv
  BY DEF FlightInv, Active, Reporting, Procs
<1>8. BlockInv
  BY DEF BlockInv, Active, Procs
<1>13. CountInv
  BY DEF CountInv
<1>9. PastInv
  BY DEF PastInv, Past, Reporting, SchedulerPC, Procs
<1>10. StatusInv
  BY DEF StatusInv, CompletionIsExact, Cmds
<1>11. FreedInv
  BY DEF FreedInv, SchedulerPC, Procs
<1>12. QED
  BY <1>1, <1>2, <1>3, <1>4, <1>5, <1>6, <1>7, <1>8, <1>9, <1>10, <1>11, <1>13 DEF IInv

-----------------------------------------------------------------------------
(* What each part of the invariant depends on.                             *)

LEMMA OutFrame ==
  ASSUME UNCHANGED <<last, queue, commands>>
  PROVE  \A c : Out(c)' <=> Out(c)
BY DEF Out, InQueue

LEMMA CanRunFrame ==
  ASSUME UNCHANGED <<waits, status>>
  PROVE  /\ \A c : CanRun(c)' <=> CanRun(c)
         /\ \A c : HasCompleted(c)' <=> HasCompleted(c)
BY DEF CanRun, HasCompleted

LEMMA QueueFrame ==
  ASSUME QueueInv, UNCHANGED <<last, queue, shape, status, commands>>
  PROVE  QueueInv'
BY OutFrame DEF QueueInv

LEMMA FlyFrame ==
  ASSUME FlyInv, UNCHANGED <<last, queue, commands, onFly, status>>
  PROVE  FlyInv'
BY OutFrame DEF FlyInv, HasCompleted

LEMMA StatusFrame ==
  ASSUME StatusInv, UNCHANGED <<last, status, shape, finished, errors>>
  PROVE  StatusInv'
BY DEF StatusInv, CompletionIsExact, HasCompleted

LEMMA CountFrame ==
  ASSUME CountInv, UNCHANGED <<last, shape, pushed, finished, waitCount>>
  PROVE  CountInv'
BY DEF CountInv

LEMMA InFlightFrame ==
  ASSUME UNCHANGED <<last, queue, commands, onFly>>
  PROVE  \A c : InFlight(c)' <=> InFlight(c)
BY OutFrame DEF InFlight

LEMMA Unfinished1Frame ==
  ASSUME UNCHANGED <<last, pushed, finished>>
  PROVE  \A b : Unfinished1(b)' <=> Unfinished1(b)
BY DEF Unfinished1

-----------------------------------------------------------------------------
(* Each action preserves the invariant.                                    *)

LEMMA RunSchedulerReturns ==
  ASSUME IInv, NEW p \in Procs, RunSchedulerFalse(p) \/ RunSchedulerTrue(p)
  PROVE  IInv'
<1> USE DEF IInv
<1>1. PICK r \in BOOLEAN : /\ pc[p] = "sched"
                          /\ pc' = [pc EXCEPT ![p] = Continue(caller[p], r)]
  BY DEF RunSchedulerFalse, RunSchedulerTrue
<1>2. UNCHANGED <<status, last, shape, queue, waits, commands, pending, onFly,
        lock, pushed, started, waitCount, errors, tq, finished, freed,
        caller, que, job, mine, wset, seen>>
  BY DEF RunSchedulerFalse, RunSchedulerTrue, cmdVars, queueVars, blockVars, hostVars
<1>3. /\ pc'[p] \in {"sched", "wait", "collect", "enqueued", "erase"}
      /\ p \in Hosts => pc'[p] \in HostPC
      /\ p \in Threads => pc'[p] \in {"sched", "erase"}
      /\ p \in Hosts /\ pc'[p] = "enqueued" => caller[p] = "Enqueue"
      /\ \A x \in Procs : x # p => pc'[x] = pc[x]
  BY <1>1, ConstantsAssumption DEF TypeOK, ProcInv, Continue, Procs, HostPC, SchedulerPC
<1>4. /\ \A x \in Procs : Submitting(x)' <=> Submitting(x)
      /\ \A t \in Threads : Active(t)' <=> Active(t)
      /\ \A t \in Threads : Reporting(t)' <=> Reporting(t)
      /\ \A t \in Threads : Past(t)' <=> Past(t)
  BY <1>1, <1>3 DEF Submitting, Active, Reporting, Past, SchedulerPC, Procs
<1>5. TypeOK'
  BY <1>1, <1>2, <1>3, ConstantsAssumption DEF TypeOK, Procs, HostPC, WorkerPC, SchedulerPC
<1>6. ProcInv'
  BY <1>1, <1>2, <1>3, ConstantsAssumption DEF TypeOK, ProcInv, Procs, SchedulerPC
<1>7. LockInv'
  BY <1>2, <1>4, CanRunFrame DEF LockInv
<1>8. QueueInv' /\ FlyInv' /\ StatusInv' /\ CountInv'
  BY <1>2, QueueFrame, FlyFrame, StatusFrame, CountFrame
<1>9. SubmitInv'
  BY <1>1, <1>2, <1>3, <1>4, OutFrame, CanRunFrame DEF SubmitInv
<1>10. FlightInv'
  BY <1>2, <1>4, InFlightFrame DEF FlightInv
<1>11. BlockInv'
  BY <1>2, <1>4, Unfinished1Frame DEF BlockInv
<1>12. PastInv'
  BY <1>1, <1>2, <1>3, <1>4, CanRunFrame DEF PastInv, Past, SchedulerPC, Procs
<1>13. FreedInv'
  BY <1>1, <1>2, <1>3, <1>4, OutFrame DEF FreedInv, SchedulerPC, Procs
<1>14. QED
  BY <1>5, <1>6, <1>7, <1>8, <1>9, <1>10, <1>11, <1>12, <1>13

(* A free lock means that nothing of the queued commands is submitted.     *)
LEMMA FreeLock ==
  ASSUME IInv, NEW q \in Queues, lock[q] = None
  PROVE  /\ \A p \in Procs : Submitting(p) => que[p] # q
         /\ \A c \in 1 .. last : queue[c] = q /\ ~ Out(c) => pushed[c] = 0
<1>1. \A p \in Procs : Submitting(p) => que[p] # q
  BY ConstantsAssumption DEF IInv, LockInv, Procs
<1>2. \A c \in 1 .. last : queue[c] = q /\ ~ Out(c) => ~ (pushed[c] > 0)
  BY <1>1 DEF IInv, SubmitInv
<1>3. \A c \in 1 .. last : pushed[c] \in Nat
  BY ConstantsAssumption DEF IInv, TypeOK, Cmds
<1>4. QED
  BY <1>1, <1>2, <1>3

(* The front command of a queue.                                           *)
LEMMA FrontCommand ==
  ASSUME IInv, NEW q \in Queues, commands[q] # <<>>
  PROVE  /\ Head(commands[q]) = commands[q][1]
         /\ Len(commands[q]) \in Nat \ {0}
         /\ Head(commands[q]) \in 1 .. last
         /\ Head(commands[q]) \in Cmds
         /\ queue[Head(commands[q])] = q
         /\ ~ Out(Head(commands[q]))
         /\ shape[Head(commands[q])] \in Shapes
         /\ shape[Head(commands[q])].blocks \in Nat \ {0}
         /\ pushed[Head(commands[q])] \in Nat
<1>1. commands[q] \in Seq(Cmds)
  BY DEF IInv, TypeOK
<1>2. Head(commands[q]) = commands[q][1] /\ Len(commands[q]) \in Nat \ {0}
  BY <1>1
<1>3. Head(commands[q]) \in 1 .. last /\ queue[Head(commands[q])] = q
  BY <1>2 DEF IInv, QueueInv
<1>4. last \in 0 .. MaxCmds
  BY DEF IInv, TypeOK
<1>5. Head(commands[q]) \in Cmds
  BY <1>3, <1>4, ConstantsAssumption DEF Cmds
<1>6. ~ Out(Head(commands[q]))
  BY <1>2, <1>3 DEF Out, InQueue
<1>7. shape[Head(commands[q])] \in Shapes
  BY <1>3 DEF IInv, QueueInv
<1>8. shape[Head(commands[q])].blocks \in Nat \ {0}
  BY <1>7, ShapesAssumption
<1>9. pushed[Head(commands[q])] \in Nat
  BY <1>5 DEF IInv, TypeOK
<1>10. QED
  BY <1>2, <1>3, <1>5, <1>6, <1>7, <1>8, <1>9

(* A thread in the scheduler works on some queue.                          *)
LEMMA SchedulerQueue ==
  ASSUME IInv, NEW p \in Procs, pc[p] \in SchedulerPC
  PROVE  que[p] \in Queues
<1>1. CASE p \in Hosts
  BY <1>1 DEF IInv, ProcInv, SchedulerPC
<1>2. CASE p \in Threads
  <2>1. que[p] = queue[job[p][1]] /\ job[p] \in (1 .. last) \X Nat
    BY <1>2 DEF IInv, ProcInv, SchedulerPC
  <2>2. QED
    BY <2>1 DEF IInv, QueueInv
<1>3. QED
  BY <1>1, <1>2 DEF Procs

LEMMA RunSchedulerSubmitInv ==
  ASSUME IInv, NEW p \in Procs, RunSchedulerSubmit(p)
  PROVE  IInv'
<1> USE DEF IInv
<1> DEFINE q == que[p]
<1>1. /\ pc[p] = "sched" /\ lock[q] = None
      /\ commands[q] # <<>> /\ ~ onFly[q] /\ CanRun(Head(commands[q]))
      /\ lock' = [lock EXCEPT ![q] = p]
      /\ pc' = [pc EXCEPT ![p] = "submit"]
  BY DEF RunSchedulerSubmit, Schedulable
<1>2. UNCHANGED <<status, last, shape, queue, waits, commands, pending, onFly,
        pushed, started, waitCount, errors, tq, finished, freed,
        caller, que, job, mine, wset, seen>>
  BY DEF RunSchedulerSubmit, cmdVars, queueVars, blockVars, hostVars
<1>3. q \in Queues
  BY <1>1, SchedulerQueue DEF SchedulerPC
<1> HIDE DEF q
<1>4. /\ pc'[p] = "submit"
      /\ \A x \in Procs : x # p => pc'[x] = pc[x]
  BY <1>1 DEF TypeOK
<1>5. /\ Submitting(p)'
      /\ \A x \in Procs : x # p => (Submitting(x)' <=> Submitting(x))
      /\ \A t \in Threads : Active(t)' <=> Active(t)
      /\ \A t \in Threads : Reporting(t)' <=> Reporting(t)
      /\ \A t \in Threads : Past(t)' <=> Past(t)
  BY <1>1, <1>4 DEF Submitting, Active, Reporting, Past, SchedulerPC, Procs
<1>6. TypeOK'
  BY <1>1, <1>2, <1>3, <1>4, ConstantsAssumption
     DEF TypeOK, Procs, HostPC, WorkerPC, SchedulerPC
<1>7. ProcInv'
  BY <1>1, <1>2, <1>4, ConstantsAssumption DEF TypeOK, ProcInv, Procs, SchedulerPC
<1>8. LockInv'
  <2> SUFFICES ASSUME NEW x \in Procs, Submitting(x)'
               PROVE  /\ lock'[que[x]] = x
                      /\ commands[que[x]] # <<>>
                      /\ ~ onFly[que[x]]
                      /\ CanRun(Head(commands[que[x]]))
    BY <1>2, CanRunFrame DEF LockInv
  <2>1. CASE x = p
    BY <2>1, <1>1, <1>3 DEF TypeOK, q
  <2>2. CASE x # p
    <3>1. Submitting(x)
      BY <2>2, <1>5
    <3>2. que[x] # q
      BY <3>1, <1>1, <1>3, FreeLock
    <3>3. QED
      BY <3>1, <3>2, <1>1 DEF LockInv, TypeOK
  <2>3. QED
    BY <2>1, <2>2
<1>9. QueueInv' /\ FlyInv' /\ StatusInv' /\ CountInv'
  BY <1>2, QueueFrame, FlyFrame, StatusFrame, CountFrame
<1>10. SubmitInv'
  <2>1. pushed[Head(commands[q])] < shape[Head(commands[q])].blocks
    BY <1>1, <1>3, FrontCommand, FreeLock
  <2>2. \A c \in 1 .. last : pushed[c] > 0 /\ ~ Out(c) =>
          \E x \in Procs : /\ Submitting(x)'
                           /\ que[x] = queue[c]
                           /\ c = Head(commands[que[x]])
    BY <1>5 DEF SubmitInv
  <2>3. \A x \in Procs : pc'[x] = "submit" =>
          pushed[Head(commands[que[x]])] < shape[Head(commands[que[x]])].blocks
    BY <2>1, <1>4 DEF SubmitInv, q
  <2>4. \A x \in Procs : pc'[x] \in {"mark", "commit"} =>
          pushed[Head(commands[que[x]])] = shape[Head(commands[que[x]])].blocks
    BY <1>4 DEF SubmitInv
  <2>5. QED
    BY <2>2, <2>3, <2>4, <1>2, OutFrame, CanRunFrame DEF SubmitInv
<1>11. FlightInv'
  BY <1>2, <1>5, InFlightFrame DEF FlightInv
<1>12. BlockInv'
  BY <1>2, <1>5, Unfinished1Frame DEF BlockInv
<1>13. PastInv'
  BY <1>1, <1>2, <1>4, <1>5, CanRunFrame DEF PastInv, Past, SchedulerPC, Procs
<1>14. FreedInv'
  BY <1>1, <1>2, <1>4, <1>5, OutFrame DEF FreedInv, SchedulerPC, Procs
<1>15. QED
  BY <1>6, <1>7, <1>8, <1>9, <1>10, <1>11, <1>12, <1>13, <1>14

(* Two submissions are of different commands.                              *)
LEMMA OneSubmitter ==
  ASSUME IInv, NEW p \in Procs, NEW x \in Procs, x # p, Submitting(p), Submitting(x)
  PROVE  que[x] # que[p] /\ Head(commands[que[x]]) # Head(commands[que[p]])
<1>1. que[p] \in Queues /\ que[x] \in Queues
  BY SchedulerQueue DEF Submitting, SchedulerPC
<1>2. que[x] # que[p]
  BY DEF IInv, LockInv
<1>3. commands[que[p]] # <<>> /\ commands[que[x]] # <<>>
  BY DEF IInv, LockInv
<1>4. queue[Head(commands[que[p]])] = que[p] /\ queue[Head(commands[que[x]])] = que[x]
  BY <1>1, <1>3, FrontCommand
<1>5. QED
  BY <1>2, <1>4

LEMMA SubmitBlockInv ==
  ASSUME IInv, NEW p \in Procs, NEW t \in Threads, SubmitBlock(p, t)
  PROVE  IInv'
<1> USE DEF IInv
<1>1. PICK q, c, b :
        /\ q = que[p] /\ c = Head(commands[q]) /\ b = pushed[c] + 1
        /\ pc[p] = "submit"
        /\ tq' = [tq EXCEPT ![t] = Append(@, <<c, b>>)]
        /\ pushed' = [pushed EXCEPT ![c] = b]
        /\ pc' = [pc EXCEPT ![p] = IF b = shape[c].blocks THEN "mark" ELSE @]
  BY DEF SubmitBlock
<1>2. UNCHANGED <<status, last, shape, queue, waits, commands, pending, onFly,
        lock, started, waitCount, errors, finished, freed,
        caller, que, job, mine, wset, seen>>
  BY DEF SubmitBlock, cmdVars, queueVars, hostVars
<1>3. q \in Queues /\ Submitting(p) /\ commands[q] # <<>> /\ CanRun(c)
  BY <1>1, SchedulerQueue DEF SchedulerPC, Submitting, LockInv
<1>4. /\ c \in 1 .. last /\ c \in Cmds /\ queue[c] = q /\ ~ Out(c)
      /\ shape[c].blocks \in Nat \ {0} /\ pushed[c] \in Nat
  BY <1>1, <1>3, FrontCommand
<1>5. /\ b \in Nat /\ b = pushed[c] + 1 /\ b > pushed[c] /\ b <= shape[c].blocks
      /\ c = Head(commands[que[p]])
  BY <1>1, <1>4 DEF SubmitInv
<1>6. \A x \in Procs : x # p /\ Submitting(x) => Head(commands[que[x]]) # c
  BY <1>1, <1>3, OneSubmitter
<1>7. /\ pc'[p] = IF b = shape[c].blocks THEN "mark" ELSE "submit"
      /\ \A x \in Procs : x # p => pc'[x] = pc[x]
      /\ pushed'[c] = b
      /\ \A d \in Cmds : d # c => pushed'[d] = pushed[d]
  BY <1>1, <1>4 DEF TypeOK
<1>8. /\ \A x \in Procs : Submitting(x)' <=> Submitting(x)
      /\ \A u \in Threads : Active(u)' <=> Active(u)
      /\ \A u \in Threads : Reporting(u)' <=> Reporting(u)
      /\ \A u \in Threads : Past(u)' <=> Past(u)
  BY <1>1, <1>7 DEF Submitting, Active, Reporting, Past, SchedulerPC, Procs
<1>9. TypeOK'
  <2>1. tq' \in [Threads -> Seq(Cmds \X Nat)] /\ pushed' \in [Cmds -> Nat]
    BY <1>1, <1>4, <1>5 DEF TypeOK
  <2>2. /\ pc' \in [Procs -> HostPC \cup WorkerPC]
        /\ \A h \in Hosts : pc'[h] \in HostPC
        /\ \A u \in Threads : pc'[u] \in WorkerPC
    BY <1>1, <1>7 DEF TypeOK, Procs, HostPC, WorkerPC, SchedulerPC
  <2>3. QED
    BY <2>1, <2>2, <1>2 DEF TypeOK
<1>10. ProcInv'
  BY <1>1, <1>2, <1>7, ConstantsAssumption DEF TypeOK, ProcInv, Procs, SchedulerPC
<1>11. LockInv'
  BY <1>2, <1>8, CanRunFrame DEF LockInv
<1>12. QueueInv' /\ FlyInv' /\ StatusInv'
  BY <1>2, QueueFrame, FlyFrame, StatusFrame
<1>13. 1 .. last \subseteq Cmds /\ Cmds \subseteq Nat /\ last \in Nat
  BY ConstantsAssumption DEF TypeOK, Cmds
<1>14. SubmitInv'
  <2>1. \A d \in Cmds : d > last => pushed'[d] = 0
    BY <1>4, <1>7, <1>13 DEF SubmitInv
  <2>2. \A d \in 1 .. last : /\ pushed'[d] <= shape[d].blocks
                             /\ Out(d) => pushed'[d] = shape[d].blocks
    BY <1>4, <1>5, <1>7, <1>13 DEF SubmitInv
  <2>3. \A d \in 1 .. last : pushed'[d] > 0 /\ ~ Out(d) =>
          \E x \in Procs : /\ Submitting(x)
                           /\ que[x] = queue[d]
                           /\ d = Head(commands[que[x]])
    BY <1>3, <1>4, <1>5, <1>1, <1>7, <1>13 DEF SubmitInv
  <2>4. \A x \in Procs : pc'[x] = "submit" =>
          pushed'[Head(commands[que[x]])] < shape[Head(commands[que[x]])].blocks
    <3> SUFFICES ASSUME NEW x \in Procs, pc'[x] = "submit"
                 PROVE  pushed'[Head(commands[que[x]])]
                          < shape[Head(commands[que[x]])].blocks
      OBVIOUS
    <3>1. CASE x = p
      BY <3>1, <1>4, <1>5, <1>7
    <3>2. CASE x # p
      <4>1. Submitting(x) /\ pc[x] = "submit"
        BY <3>2, <1>7 DEF Submitting
      <4>2. Head(commands[que[x]]) \in Cmds
        BY <4>1, SchedulerQueue, FrontCommand DEF SchedulerPC, LockInv
      <4>3. QED
        BY <3>2, <4>1, <4>2, <1>6, <1>7 DEF SubmitInv
    <3>3. QED
      BY <3>1, <3>2
  <2>5. \A x \in Procs : pc'[x] \in {"mark", "commit"} =>
          pushed'[Head(commands[que[x]])] = shape[Head(commands[que[x]])].blocks
    <3> SUFFICES ASSUME NEW x \in Procs, pc'[x] \in {"mark", "commit"}
                 PROVE  pushed'[Head(commands[que[x]])]
                          = shape[Head(commands[que[x]])].blocks
      OBVIOUS
    <3>1. CASE x = p
      BY <3>1, <1>5, <1>7
    <3>2. CASE x # p
      <4>1. Submitting(x) /\ pc[x] \in {"mark", "commit"}
        BY <3>2, <1>7 DEF Submitting
      <4>2. Head(commands[que[x]]) \in Cmds
        BY <4>1, SchedulerQueue, FrontCommand DEF SchedulerPC, LockInv
      <4>3. QED
        BY <3>2, <4>1, <4>2, <1>6, <1>7 DEF SubmitInv
    <3>3. QED
      BY <3>1, <3>2
  <2>6. \A d \in 1 .. last : pushed'[d] > 0 => CanRun(d)
    BY <1>3, <1>7, <1>13 DEF SubmitInv
  <2>7. QED
    BY <2>1, <2>2, <2>3, <2>4, <2>5, <2>6, <1>2, <1>8, OutFrame, CanRunFrame DEF SubmitInv
<1>15. \A u \in Threads : u # t => tq'[u] = tq[u]
  BY <1>1 DEF TypeOK
<1>16. /\ tq[t] \in Seq(Cmds \X Nat)
       /\ Len(tq[t]) \in Nat
       /\ Len(tq'[t]) = Len(tq[t]) + 1
       /\ \A i \in 1 .. Len(tq[t]) : tq'[t][i] = tq[t][i]
       /\ tq'[t][Len(tq[t]) + 1] = <<c, b>>
  BY <1>1, <1>4, <1>5 DEF TypeOK
<1>17. \A u \in Threads : \A i \in 1 .. Len(tq'[u]) :
          \/ i \in 1 .. Len(tq[u]) /\ tq'[u][i] = tq[u][i]
          \/ u = t /\ i = Len(tq[t]) + 1 /\ tq'[u][i] = <<c, b>>
  <2> SUFFICES ASSUME NEW u \in Threads, NEW i \in 1 .. Len(tq'[u])
               PROVE  \/ i \in 1 .. Len(tq[u]) /\ tq'[u][i] = tq[u][i]
                      \/ u = t /\ i = Len(tq[t]) + 1 /\ tq'[u][i] = <<c, b>>
    OBVIOUS
  <2>1. CASE u # t
    BY <2>1, <1>15
  <2>2. CASE u = t
    <3>1. i \in 1 .. Len(tq[t]) \/ i = Len(tq[t]) + 1
      BY <2>2, <1>16
    <3>2. QED
      BY <2>2, <3>1, <1>16
  <2>3. QED
    BY <2>1, <2>2
<1>18. FlightInv'
  <2>1. InFlight(c)
    BY <1>4 DEF InFlight
  <2>2. QED
    BY <2>1, <1>2, <1>8, <1>17, InFlightFrame DEF FlightInv
<1>19. BlockInv'
  <2>1. \A e : Unfinished1(e) => Unfinished1(e)' /\ e # <<c, b>>
    <3> SUFFICES ASSUME NEW e, Unfinished1(e)
                 PROVE  Unfinished1(e)' /\ e # <<c, b>>
      OBVIOUS
    <3>1. e[1] \in 1 .. last /\ e[2] \in 1 .. pushed[e[1]] /\ e[2] \notin finished[e[1]]
      BY DEF Unfinished1
    <3>2. pushed[e[1]] \in Nat /\ pushed'[e[1]] \in Nat /\ pushed[e[1]] <= pushed'[e[1]]
      <4>1. e[1] \in Cmds /\ pushed[e[1]] \in Nat
        BY <3>1, <1>13 DEF TypeOK
      <4>2. CASE e[1] = c
        BY <4>1, <4>2, <1>5, <1>7
      <4>3. CASE e[1] # c
        BY <4>1, <4>3, <1>7
      <4>4. QED
        BY <4>1, <4>2, <4>3
    <3>3. e[2] \in 1 .. pushed'[e[1]]
      BY <3>1, <3>2
    <3>4. ~ (e[1] = c /\ e[2] = b)
      BY <3>1, <1>4, <1>5
    <3>5. QED
      BY <3>1, <3>3, <3>4, <1>2 DEF Unfinished1
  <2>2. Unfinished1(<<c, b>>)'
    <3>1. b \in 1 .. pushed'[c]
      BY <1>4, <1>7, <1>5
    <3>2. b \notin finished[c]
      BY <1>4, <1>5 DEF CountInv
    <3>3. QED
      BY <3>1, <3>2, <1>2, <1>4 DEF Unfinished1
  <2>3. \A u \in Threads : \A i \in 1 .. Len(tq'[u]) : Unfinished1(tq[u][i])'
    <3> SUFFICES ASSUME NEW u \in Threads, NEW i \in 1 .. Len(tq'[u])
                 PROVE  Unfinished1(tq[u][i])'
      OBVIOUS
    <3>1. PICK e : e = tq'[u][i] /\ (Unfinished1(e) \/ e = <<c, b>>)
      BY <1>17 DEF BlockInv
    <3>2. Unfinished1(e)'
      BY <3>1, <2>1, <2>2
    <3>3. QED
      BY <3>1, <3>2 DEF Unfinished1
  <2>4. \A u \in Threads : Active(u)' => Unfinished1(job[u])'
    <3> SUFFICES ASSUME NEW u \in Threads, Active(u)
                 PROVE  Unfinished1(job[u])'
      BY <1>8
    <3>1. PICK e : e = job[u] /\ Unfinished1(e)
      BY DEF BlockInv
    <3>2. QED
      BY <3>1, <2>1, <1>2 DEF Unfinished1
  <2>5. \A u \in Threads : \A i \in 1 .. Len(tq[u]) : tq[u][i] # <<c, b>>
    BY <2>1 DEF BlockInv
  <2>6. \A u \in Threads : Active(u) => job[u] # <<c, b>>
    BY <2>1 DEF BlockInv
  <2>7. \A u, v \in Threads : \A i \in 1 .. Len(tq'[u]), j \in 1 .. Len(tq'[v]) :
          tq'[u][i] = tq'[v][j] => u = v /\ i = j
    <3> SUFFICES ASSUME NEW u \in Threads, NEW v \in Threads,
                        NEW i \in 1 .. Len(tq'[u]), NEW j \in 1 .. Len(tq'[v]),
                        tq'[u][i] = tq'[v][j]
                 PROVE  u = v /\ i = j
      OBVIOUS
    <3>1. \/ i \in 1 .. Len(tq[u]) /\ tq'[u][i] = tq[u][i]
          \/ u = t /\ i = Len(tq[t]) + 1 /\ tq'[u][i] = <<c, b>>
      BY <1>17
    <3>2. \/ j \in 1 .. Len(tq[v]) /\ tq'[v][j] = tq[v][j]
          \/ v = t /\ j = Len(tq[t]) + 1 /\ tq'[v][j] = <<c, b>>
      BY <1>17
    <3>3. i \in 1 .. Len(tq[u]) /\ j \in 1 .. Len(tq[v]) /\ tq[u][i] = tq[v][j] => u = v /\ i = j
      BY DEF BlockInv
    <3>4. QED
      BY <3>1, <3>2, <3>3, <2>5
  <2>8. \A u, v \in Threads : \A i \in 1 .. Len(tq'[u]) :
          Active(v)' => tq'[u][i] # job[v]
    BY <2>6, <1>8, <1>17 DEF BlockInv
  <2>9. \A u, v \in Threads : Active(u)' /\ Active(v)' /\ job'[u] = job'[v] => u = v
    BY <1>2, <1>8 DEF BlockInv
  <2>10. \A u, v \in Threads : \A i \in 1 .. Len(tq'[u]) :
           Active(v)' => tq'[u][i] # job'[v]
    BY <2>8, <1>2
  <2>11. QED
    BY <2>3, <2>4, <2>7, <2>9, <2>10, Zenon DEF BlockInv
<1>23. CountInv'
  <2>1. \A d \in Cmds : finished[d] \subseteq 1 .. pushed'[d]
    <3> SUFFICES ASSUME NEW d \in Cmds PROVE finished[d] \subseteq 1 .. pushed'[d]
      OBVIOUS
    <3>1. finished[d] \subseteq 1 .. pushed[d] /\ pushed[d] \in Nat
      BY DEF CountInv, TypeOK
    <3>2. CASE d = c
      BY <3>1, <3>2, <1>5, <1>7
    <3>3. CASE d # c
      BY <3>1, <3>3, <1>7
    <3>4. QED
      BY <3>2, <3>3
  <2>2. QED
    BY <2>1, <1>2 DEF CountInv
<1>20. PastInv'
  BY <1>1, <1>2, <1>7, <1>8, CanRunFrame DEF PastInv, Past, SchedulerPC, Procs
<1>21. FreedInv'
  BY <1>1, <1>2, <1>7, <1>8, OutFrame DEF FreedInv, SchedulerPC, Procs
<1>22. QED
  BY <1>9, <1>10, <1>11, <1>12, <1>14, <1>18, <1>19, <1>20, <1>21, <1>23

(* Event::Signal moves the status of one event forward only.               *)
LEMMA SignalFacts ==
  ASSUME TypeOK, NEW e \in Events, NEW s \in FAILED .. SUBMITTED, status' = Signal(e, s)
  PROVE  /\ status' \in [Events -> FAILED .. NoEvent]
         /\ status'[e] = IF status[e] > s THEN s ELSE status[e]
         /\ \A x \in Events : x # e => status'[x] = status[x]
         /\ \A x \in Events : status[x] # NoEvent => status'[x] # NoEvent
         /\ \A x \in Events : HasCompleted(x) => status'[x] <= COMPLETE
         /\ s > COMPLETE => \A x \in Events : status'[x] <= COMPLETE =>
              HasCompleted(x) /\ status'[x] = status[x]
<1> USE DEF FAILED, COMPLETE, SUBMITTED, NoEvent
<1>1. status \in [Events -> FAILED .. NoEvent]
  BY DEF TypeOK
<1>2. status' = [status EXCEPT ![e] = IF @ > s THEN s ELSE @]
  BY DEF Signal
<1>3. status'[e] = (IF status[e] > s THEN s ELSE status[e])
  BY <1>1, <1>2
<1>4. \A x \in Events : x # e => status'[x] = status[x]
  BY <1>1, <1>2
<1>5. status' \in [Events -> FAILED .. NoEvent]
  BY <1>1, <1>2
<1>6. status[e] \in FAILED .. NoEvent
  BY <1>1
<1>7. QED
  BY <1>1, <1>3, <1>4, <1>5, <1>6 DEF HasCompleted

LEMMA CmdsAreEvents ==
  ASSUME IInv
  PROVE  /\ 1 .. last \subseteq Cmds /\ Cmds \subseteq Nat /\ last \in Nat
         /\ Cmds \subseteq Events
         /\ \A c \in Cmds : waits[c] \subseteq Events
  BY ConstantsAssumption DEF IInv, TypeOK, Cmds, Events

LEMMA BlockCounts ==
  ASSUME IInv, NEW c \in 1 .. last
  PROVE  shape[c].blocks \in Nat \ {0} /\ pushed[c] \in Nat /\ pushed[c] <= shape[c].blocks
<1>1. shape[c] \in Shapes
  BY DEF IInv, QueueInv
<1>2. shape[c].blocks \in Nat \ {0}
  BY <1>1, ShapesAssumption
<1>3. pushed[c] \in Nat
  BY CmdsAreEvents DEF IInv, TypeOK
<1>4. QED
  BY <1>2, <1>3 DEF IInv, SubmitInv

(* A status that is not final, signalled to a command by a thread p that   *)
(* moves from one control state to another.                                *)
LEMMA LightSignal ==
  ASSUME IInv, NEW c \in 1 .. last, NEW s \in {SUBMITTED, RUNNING},
         status' = Signal(c, s),
         UNCHANGED <<last, shape, queue, waits, commands, pending, onFly,
           lock, pushed, started, waitCount, errors, tq, finished, freed,
           caller, que, job, mine, wset, seen>>
  PROVE  /\ status' \in [Events -> FAILED .. NoEvent]
         /\ \A x \in Events : HasCompleted(x)' <=> HasCompleted(x)
         /\ \A d \in Cmds : CanRun(d)' <=> CanRun(d)
         /\ QueueInv' /\ FlyInv' /\ StatusInv'
<1>1. s \in FAILED .. SUBMITTED /\ s > COMPLETE
  BY DEF SUBMITTED, RUNNING, FAILED, COMPLETE
<1>2. c \in Events /\ 1 .. last \subseteq Events
  BY CmdsAreEvents
<1>3. /\ status' \in [Events -> FAILED .. NoEvent]
      /\ \A x \in Events : x # c => status'[x] = status[x]
      /\ \A x \in Events : status[x] # NoEvent => status'[x] # NoEvent
      /\ \A x \in Events : HasCompleted(x) => status'[x] <= COMPLETE
      /\ \A x \in Events : status'[x] <= COMPLETE => HasCompleted(x) /\ status'[x] = status[x]
  BY <1>1, <1>2, SignalFacts DEF IInv
<1>4. \A x \in Events : HasCompleted(x)' <=> HasCompleted(x)
  BY <1>3 DEF HasCompleted
<1>5. \A d \in Cmds : CanRun(d)' <=> CanRun(d)
  BY <1>4, CmdsAreEvents DEF CanRun
<1>6. QueueInv'
  <2>1. \A d \in Cmds : d > last => status'[d] = NoEvent
    BY <1>2, <1>3, CmdsAreEvents DEF IInv, QueueInv
  <2>2. \A x \in 1 .. last : queue[x] \in Queues /\ shape[x] \in Shapes /\ status'[x] # NoEvent
    BY <1>2, <1>3 DEF IInv, QueueInv
  <2>3. /\ \A q \in Queues : \A i \in 1 .. Len(commands[q]) :
             commands[q][i] \in 1 .. last /\ queue[commands[q][i]] = q
        /\ \A q \in Queues : \A i, j \in 1 .. Len(commands[q]) :
             i < j => commands[q][i] < commands[q][j]
        /\ \A q \in Queues : \A x \in 1 .. last : \A i \in 1 .. Len(commands[q]) :
             Out(x)' /\ queue[x] = q => x < commands[q][i]
    BY OutFrame DEF IInv, QueueInv
  <2>4. QED
    BY <2>1, <2>2, <2>3 DEF QueueInv
<1>7. FlyInv'
  BY <1>2, <1>4, OutFrame DEF IInv, FlyInv
<1>8. StatusInv'
  <2>1. CompletionIsExact'
    BY <1>2, <1>3, <1>4 DEF IInv, StatusInv, CompletionIsExact, HasCompleted
  <2>2. QED
    BY <2>1 DEF IInv, StatusInv
<1>9. QED
  BY <1>3, <1>4, <1>5, <1>6, <1>7, <1>8

LEMMA MarkSubmittedInv ==
  ASSUME IInv, NEW p \in Procs, MarkSubmitted(p)
  PROVE  IInv'
<1> USE DEF IInv
<1>1. PICK q, c : /\ q = que[p] /\ c = Head(commands[q])
                  /\ pc[p] = "mark"
                  /\ status' = Signal(c, SUBMITTED)
                  /\ pc' = [pc EXCEPT ![p] = "commit"]
  BY DEF MarkSubmitted
<1>2. UNCHANGED <<last, shape, queue, waits, commands, pending, onFly,
        lock, pushed, started, waitCount, errors, tq, finished, freed,
        caller, que, job, mine, wset, seen>>
  BY DEF MarkSubmitted, cmdVars, queueVars, blockVars, hostVars
<1>3. q \in Queues /\ Submitting(p) /\ commands[q] # <<>>
  BY <1>1, SchedulerQueue DEF SchedulerPC, Submitting, LockInv
<1>4. c \in 1 .. last
  BY <1>1, <1>3, FrontCommand
<1>5. /\ status' \in [Events -> FAILED .. NoEvent]
      /\ \A x \in Events : HasCompleted(x)' <=> HasCompleted(x)
      /\ \A d \in Cmds : CanRun(d)' <=> CanRun(d)
      /\ QueueInv' /\ FlyInv' /\ StatusInv'
  BY <1>1, <1>2, <1>4, LightSignal
<1>6. pc'[p] = "commit" /\ \A x \in Procs : x # p => pc'[x] = pc[x]
  BY <1>1 DEF TypeOK
<1>7. /\ \A x \in Procs : Submitting(x)' <=> Submitting(x)
      /\ \A u \in Threads : Active(u)' <=> Active(u)
      /\ \A u \in Threads : Reporting(u)' <=> Reporting(u)
      /\ \A u \in Threads : Past(u)' <=> Past(u)
  BY <1>1, <1>6 DEF Submitting, Active, Reporting, Past, SchedulerPC, Procs
<1>8. TypeOK'
  BY <1>1, <1>2, <1>5, <1>6, ConstantsAssumption
     DEF TypeOK, Procs, HostPC, WorkerPC, SchedulerPC
<1>9. ProcInv'
  BY <1>1, <1>2, <1>6, ConstantsAssumption DEF TypeOK, ProcInv, Procs, SchedulerPC
<1>10. \A x \in Procs : Submitting(x) => Head(commands[que[x]]) \in Cmds
  BY SchedulerQueue, FrontCommand DEF Submitting, SchedulerPC, LockInv
<1>11. LockInv'
  BY <1>2, <1>5, <1>7, <1>10 DEF LockInv
<1>12. SubmitInv'
  BY <1>1, <1>2, <1>5, <1>6, <1>7, OutFrame, CmdsAreEvents DEF SubmitInv
<1>13. FlightInv'
  BY <1>2, <1>7, InFlightFrame DEF FlightInv
<1>14. BlockInv' /\ CountInv'
  BY <1>2, <1>7, Unfinished1Frame, CountFrame DEF BlockInv
<1>15. PastInv'
  <2>1. \A u \in Threads : Past(u) => job[u][1] \in Events
    BY CmdsAreEvents DEF Past, Reporting, ProcInv, SchedulerPC
  <2>2. \A u \in Threads : pc'[u] = "complete" <=> pc[u] = "complete"
    BY <1>1, <1>6 DEF Procs
  <2>3. QED
    BY <2>1, <2>2, <1>2, <1>5, <1>7 DEF PastInv
<1>16. FreedInv'
  BY <1>1, <1>2, <1>6, <1>7, OutFrame DEF FreedInv, SchedulerPC, Procs
<1>17. QED
  BY <1>5, <1>8, <1>9, <1>11, <1>12, <1>13, <1>14, <1>15, <1>16

LEMMA MarkRunningInv ==
  ASSUME IInv, NEW t \in Threads, MarkRunning(t)
  PROVE  IInv'
<1> USE DEF IInv
<1>1. PICK c : /\ c = job[t][1]
               /\ pc[t] = "running"
               /\ status' = Signal(c, RUNNING)
               /\ pc' = [pc EXCEPT ![t] = "exec"]
  BY DEF MarkRunning
<1>2. UNCHANGED <<last, shape, queue, waits, commands, pending, onFly,
        lock, pushed, started, waitCount, errors, tq, finished, freed,
        caller, que, job, mine, wset, seen>>
  BY DEF MarkRunning, cmdVars, queueVars, blockVars, hostVars
<1>3. c \in 1 .. last
  BY <1>1 DEF ProcInv
<1>4. /\ status' \in [Events -> FAILED .. NoEvent]
      /\ \A x \in Events : HasCompleted(x)' <=> HasCompleted(x)
      /\ \A d \in Cmds : CanRun(d)' <=> CanRun(d)
      /\ QueueInv' /\ FlyInv' /\ StatusInv'
  BY <1>1, <1>2, <1>3, LightSignal
<1>5. t \in Procs /\ pc'[t] = "exec" /\ \A x \in Procs : x # t => pc'[x] = pc[x]
  BY <1>1 DEF TypeOK, Procs
<1>6. /\ \A x \in Procs : Submitting(x)' <=> Submitting(x)
      /\ \A u \in Threads : Active(u)' <=> Active(u)
      /\ \A u \in Threads : Reporting(u)' <=> Reporting(u)
      /\ \A u \in Threads : Past(u)' <=> Past(u)
  BY <1>1, <1>5 DEF Submitting, Active, Reporting, Past, SchedulerPC, Procs
<1>7. TypeOK'
  BY <1>1, <1>2, <1>4, <1>5, ConstantsAssumption
     DEF TypeOK, Procs, HostPC, WorkerPC, SchedulerPC
<1>8. ProcInv'
  BY <1>1, <1>2, <1>5, ConstantsAssumption DEF TypeOK, ProcInv, Procs, SchedulerPC
<1>9. \A x \in Procs : Submitting(x) => Head(commands[que[x]]) \in Cmds
  BY SchedulerQueue, FrontCommand DEF Submitting, SchedulerPC, LockInv
<1>10. LockInv'
  BY <1>2, <1>4, <1>6, <1>9 DEF LockInv
<1>11. SubmitInv'
  BY <1>1, <1>2, <1>4, <1>5, <1>6, OutFrame, CmdsAreEvents DEF SubmitInv
<1>12. FlightInv'
  BY <1>2, <1>6, InFlightFrame DEF FlightInv
<1>13. BlockInv' /\ CountInv'
  BY <1>2, <1>6, Unfinished1Frame, CountFrame DEF BlockInv
<1>14. PastInv'
  <2>1. \A u \in Threads : Past(u) => job[u][1] \in Events
    BY CmdsAreEvents DEF Past, Reporting, ProcInv, SchedulerPC
  <2>2. \A u \in Threads : pc'[u] = "complete" <=> pc[u] = "complete"
    BY <1>1, <1>5 DEF Procs
  <2>3. QED
    BY <2>1, <2>2, <1>2, <1>4, <1>6 DEF PastInv
<1>15. FreedInv'
  BY <1>1, <1>2, <1>5, <1>6, OutFrame DEF FreedInv, SchedulerPC, Procs
<1>16. QED
  BY <1>4, <1>7, <1>8, <1>10, <1>11, <1>12, <1>13, <1>14, <1>15

(* A step of host h outside the scheduler that changes its locals only.    *)
LEMMA HostLocal ==
  ASSUME IInv, NEW h \in Hosts,
         ~ Submitting(h), ~ Submitting(h)',
         \A x \in Procs : x # h => pc'[x] = pc[x] /\ que'[x] = que[x],
         UNCHANGED <<status, last, shape, queue, waits, commands, pending, onFly,
           lock, pushed, started, waitCount, errors, tq, finished, freed, job>>
  PROVE  /\ LockInv' /\ QueueInv' /\ SubmitInv' /\ FlyInv' /\ FlightInv'
         /\ BlockInv' /\ CountInv' /\ PastInv' /\ StatusInv' /\ FreedInv'
<1> USE DEF IInv
<1>1. h \in Procs /\ h \notin Threads /\ Threads \subseteq Procs
  BY ConstantsAssumption DEF Procs
<1>2. /\ \A x \in Procs : Submitting(x)' <=> Submitting(x)
      /\ \A x \in Procs : Submitting(x) => pc'[x] = pc[x] /\ que'[x] = que[x]
      /\ \A u \in Threads : pc'[u] = pc[u]
  BY <1>1 DEF Submitting
<1>3. /\ \A u \in Threads : Active(u)' <=> Active(u)
      /\ \A u \in Threads : Reporting(u)' <=> Reporting(u)
      /\ \A u \in Threads : Past(u)' <=> Past(u)
  BY <1>2 DEF Active, Reporting, Past
<1>4. LockInv'
  BY <1>2, CanRunFrame DEF LockInv
<1>5. QueueInv' /\ FlyInv' /\ StatusInv' /\ CountInv'
  BY QueueFrame, FlyFrame, StatusFrame, CountFrame
<1>6. SubmitInv'
  <2>1. \A x \in Procs : pc'[x] \in {"submit", "mark", "commit"} =>
          pc'[x] = pc[x] /\ que'[x] = que[x]
    BY <1>2 DEF Submitting
  <2>2. QED
    BY <1>2, <2>1, OutFrame, CanRunFrame DEF SubmitInv
<1>7. FlightInv'
  BY <1>3, InFlightFrame DEF FlightInv
<1>8. BlockInv'
  BY <1>3, Unfinished1Frame DEF BlockInv
<1>9. PastInv'
  BY <1>2, <1>3, CanRunFrame DEF PastInv
<1>10. FreedInv'
  BY <1>2, <1>3, OutFrame DEF FreedInv
<1>11. QED
  BY <1>4, <1>5, <1>6, <1>7, <1>8, <1>9, <1>10

LEMMA EnqueueReturnInv ==
  ASSUME IInv, NEW h \in Hosts, EnqueueReturn(h)
  PROVE  IInv'
<1> USE DEF IInv
<1>1. PICK W \in SUBSET {mine[h]} :
        /\ pc[h] = "enqueued"
        /\ pc' = [pc EXCEPT ![h] = "wait"]
        /\ wset' = [wset EXCEPT ![h] = W]
  <2>1. PICK b \in BOOLEAN : wset' = [wset EXCEPT ![h] = IF b THEN {mine[h]} ELSE {}]
    BY DEF EnqueueReturn
  <2>2. QED
    BY <2>1 DEF EnqueueReturn
<1>2. UNCHANGED <<status, last, shape, queue, waits, commands, pending, onFly,
        lock, pushed, started, waitCount, errors, tq, finished, freed,
        caller, que, job, mine, seen>>
  BY DEF EnqueueReturn, cmdVars, queueVars, blockVars
<1>3. h \in Procs /\ pc'[h] = "wait" /\ \A x \in Procs : x # h => pc'[x] = pc[x]
  BY <1>1 DEF TypeOK, Procs
<1>4. mine[h] \in Cmds
  BY <1>1, CmdsAreEvents DEF ProcInv
<1>5. TypeOK'
  BY <1>1, <1>2, <1>3, <1>4, ConstantsAssumption DEF TypeOK, Procs, HostPC
<1>6. ProcInv'
  BY <1>1, <1>2, <1>3, ConstantsAssumption DEF ProcInv, Procs
<1>7. ~ Submitting(h) /\ ~ Submitting(h)'
  BY <1>1, <1>3 DEF Submitting
<1>8. QED
  BY <1>2, <1>3, <1>5, <1>6, <1>7, HostLocal

LEMMA FlushInv ==
  ASSUME IInv, NEW h \in Hosts, NEW q \in Queues, Flush(h, q) \/ Finish(h, q)
  PROVE  IInv'
<1> USE DEF IInv
<1>1. PICK k \in {"Flush", "Finish"}, n \in {seen[h], last} :
        /\ pc[h] = "idle"
        /\ pc' = [pc EXCEPT ![h] = "sched"]
        /\ caller' = [caller EXCEPT ![h] = k]
        /\ que' = [que EXCEPT ![h] = q]
        /\ seen' = [seen EXCEPT ![h] = n]
  <2>1. CASE Flush(h, q)
    <3>1. seen' = [seen EXCEPT ![h] = seen[h]]
      BY <2>1 DEF Flush, hostVars, TypeOK
    <3>2. QED
      BY <2>1, <3>1 DEF Flush
  <2>2. CASE Finish(h, q)
    BY <2>2 DEF Finish
  <2>3. QED
    BY <2>1, <2>2
<1>2. UNCHANGED <<status, last, shape, queue, waits, commands, pending, onFly,
        lock, pushed, started, waitCount, errors, tq, finished, freed,
        job, mine, wset>>
  BY DEF Flush, Finish, cmdVars, queueVars, blockVars, hostVars
<1>3. /\ h \in Procs /\ pc'[h] = "sched" /\ que'[h] = q /\ caller'[h] = k
      /\ \A x \in Procs : x # h =>
           pc'[x] = pc[x] /\ que'[x] = que[x] /\ caller'[x] = caller[x]
  BY <1>1 DEF TypeOK, Procs
<1>4. TypeOK'
  <2>1. n \in 0 .. MaxCmds
    BY <1>1 DEF TypeOK
  <2>2. QED
    BY <1>1, <1>2, <1>3, <2>1, ConstantsAssumption DEF TypeOK, Procs, HostPC, SchedulerPC
<1>5. ProcInv'
  BY <1>1, <1>2, <1>3, ConstantsAssumption DEF ProcInv, Procs
<1>6. ~ Submitting(h) /\ ~ Submitting(h)'
  BY <1>1, <1>3 DEF Submitting
<1>7. QED
  BY <1>2, <1>3, <1>4, <1>5, <1>6, HostLocal

LEMMA FinishCollectInv ==
  ASSUME IInv, NEW h \in Hosts, FinishCollect(h)
  PROVE  IInv'
<1> USE DEF IInv
<1>1. /\ pc[h] = "collect"
      /\ wset' = [wset EXCEPT ![h] = Unfinished(que[h])]
      /\ pc' = [pc EXCEPT ![h] = "wait"]
  BY DEF FinishCollect
<1>2. UNCHANGED <<status, last, shape, queue, waits, commands, pending, onFly,
        lock, pushed, started, waitCount, errors, tq, finished, freed,
        caller, que, job, mine, seen>>
  BY DEF FinishCollect, cmdVars, queueVars, blockVars
<1>3. h \in Procs /\ pc'[h] = "wait" /\ \A x \in Procs : x # h => pc'[x] = pc[x]
  BY <1>1 DEF TypeOK, Procs
<1>4. Unfinished(que[h]) \subseteq Cmds
  <2>1. que[h] \in Queues
    BY <1>1 DEF ProcInv
  <2>2. commands[que[h]] \in Seq(Cmds) /\ pending[que[h]] \subseteq Cmds
    BY <2>1 DEF TypeOK
  <2>3. QED
    BY <2>2 DEF Unfinished
<1>5. TypeOK'
  BY <1>1, <1>2, <1>3, <1>4, ConstantsAssumption DEF TypeOK, Procs, HostPC
<1>6. ProcInv'
  BY <1>1, <1>2, <1>3, ConstantsAssumption DEF ProcInv, Procs
<1>7. ~ Submitting(h) /\ ~ Submitting(h)'
  BY <1>1, <1>3 DEF Submitting
<1>8. QED
  BY <1>2, <1>3, <1>5, <1>6, <1>7, HostLocal

LEMMA ReturnToHostInv ==
  ASSUME IInv, NEW h \in Hosts, ReturnToHost(h)
  PROVE  IInv'
<1> USE DEF IInv
<1>1. /\ pc[h] = "wait"
      /\ pc' = [pc EXCEPT ![h] = "idle"]
      /\ caller' = [caller EXCEPT ![h] = None]
      /\ que' = [que EXCEPT ![h] = None]
      /\ mine' = [mine EXCEPT ![h] = None]
      /\ wset' = [wset EXCEPT ![h] = {}]
      /\ seen' = [seen EXCEPT ![h] = 0]
  BY DEF ReturnToHost
<1>2. UNCHANGED <<status, last, shape, queue, waits, commands, pending, onFly,
        lock, pushed, started, waitCount, errors, tq, finished, freed, job>>
  BY DEF ReturnToHost, cmdVars, queueVars, blockVars
<1>3. /\ h \in Procs /\ pc'[h] = "idle"
      /\ \A x \in Procs : x # h =>
           pc'[x] = pc[x] /\ que'[x] = que[x] /\ caller'[x] = caller[x]
      /\ \A x \in Hosts : x # h => mine'[x] = mine[x]
  BY <1>1 DEF TypeOK, Procs
<1>4. TypeOK'
  BY <1>1, <1>2, <1>3, ConstantsAssumption DEF TypeOK, Procs, HostPC
<1>5. ProcInv'
  BY <1>1, <1>2, <1>3, ConstantsAssumption DEF ProcInv, Procs
<1>6. ~ Submitting(h) /\ ~ Submitting(h)'
  BY <1>1, <1>3 DEF Submitting
<1>7. QED
  BY <1>2, <1>3, <1>4, <1>5, <1>6, HostLocal

LEMMA SetUserEventStatusInv ==
  ASSUME IInv, NEW h \in Hosts, NEW u \in UserEvents, NEW s \in {COMPLETE, FAILED},
         SetUserEventStatus(h, u, s)
  PROVE  IInv'
<1> USE DEF IInv
<1>1. status' = Signal(u, s)
  BY DEF SetUserEventStatus
<1>2. UNCHANGED <<last, shape, queue, waits, commands, pending, onFly,
        lock, pushed, started, waitCount, errors, tq, finished, freed, pc,
        caller, que, job, mine, wset, seen>>
  BY DEF SetUserEventStatus, cmdVars, queueVars, blockVars, hostVars
<1>3. u \in Events /\ s \in FAILED .. SUBMITTED
  BY DEF Events, COMPLETE, FAILED, SUBMITTED
<1>4. /\ status' \in [Events -> FAILED .. NoEvent]
      /\ \A x \in Events : x # u => status'[x] = status[x]
      /\ \A x \in Events : HasCompleted(x) => status'[x] <= COMPLETE
  BY <1>1, <1>3, SignalFacts
<1>5. u \notin Cmds
  BY ConstantsAssumption DEF Cmds
<1>6. \A c \in Cmds : status'[c] = status[c]
  BY <1>4, <1>5, CmdsAreEvents
<1>7. \A c \in Cmds : HasCompleted(c)' <=> HasCompleted(c)
  BY <1>6 DEF HasCompleted
<1>8. \A c \in Cmds : CanRun(c) => CanRun(c)'
  BY <1>2, <1>4, CmdsAreEvents DEF CanRun, HasCompleted
<1>9. /\ \A x \in Procs : Submitting(x)' <=> Submitting(x)
      /\ \A x \in Threads : Active(x)' <=> Active(x)
      /\ \A x \in Threads : Reporting(x)' <=> Reporting(x)
      /\ \A x \in Threads : Past(x)' <=> Past(x)
  BY <1>2 DEF Submitting, Active, Reporting, Past
<1>10. TypeOK' /\ ProcInv'
  BY <1>2, <1>4 DEF TypeOK, ProcInv
<1>11. \A x \in Procs : Submitting(x) => Head(commands[que[x]]) \in Cmds
  BY SchedulerQueue, FrontCommand DEF Submitting, SchedulerPC, LockInv
<1>12. LockInv'
  BY <1>2, <1>8, <1>9, <1>11 DEF LockInv
<1>13. QueueInv'
  BY <1>2, <1>6, OutFrame, CmdsAreEvents DEF QueueInv
<1>14. SubmitInv'
  BY <1>2, <1>8, <1>9, OutFrame, CmdsAreEvents DEF SubmitInv
<1>15. FlyInv'
  BY <1>2, <1>7, OutFrame, CmdsAreEvents DEF FlyInv
<1>16. FlightInv'
  BY <1>2, <1>9, InFlightFrame DEF FlightInv
<1>17. BlockInv' /\ CountInv'
  BY <1>2, <1>9, Unfinished1Frame, CountFrame DEF BlockInv
<1>18. PastInv'
  <2>1. \A x \in Threads : Past(x) => job[x][1] \in Cmds
    BY CmdsAreEvents DEF Past, Reporting, ProcInv, SchedulerPC
  <2>2. QED
    BY <2>1, <1>2, <1>7, <1>9 DEF PastInv
<1>19. StatusInv'
  BY <1>2, <1>6, <1>7, CmdsAreEvents DEF StatusInv, CompletionIsExact
<1>20. FreedInv'
  BY <1>2, <1>9, OutFrame DEF FreedInv
<1>21. QED
  BY <1>10, <1>12, <1>13, <1>14, <1>15, <1>16, <1>17, <1>18, <1>19, <1>20

(* The front command leaves the queue; nothing else does.                  *)
LEMMA PopFront ==
  ASSUME IInv, NEW q \in Queues, commands[q] # <<>>,
         commands' = [commands EXCEPT ![q] = Tail(@)], UNCHANGED <<last, queue>>
  PROVE  /\ \A d : Out(d)' <=> Out(d) \/ d = Head(commands[q])
         /\ \A i \in 1 .. Len(commands'[q]) :
              i + 1 \in 1 .. Len(commands[q]) /\ commands'[q][i] = commands[q][i + 1]
         /\ commands'[q] \in Seq(Cmds)
         /\ \A x \in Queues : x # q => commands'[x] = commands[x]
<1> USE DEF IInv
<1> DEFINE c == Head(commands[q])
<1>1. /\ c = commands[q][1] /\ c \in 1 .. last /\ queue[c] = q
      /\ Len(commands[q]) \in Nat \ {0}
  BY FrontCommand
<1>2. commands[q] \in Seq(Cmds)
  BY DEF TypeOK
<1>3. /\ commands'[q] = Tail(commands[q])
      /\ \A x \in Queues : x # q => commands'[x] = commands[x]
  BY DEF TypeOK
<1>4. /\ Tail(commands[q]) \in Seq(Cmds)
      /\ Len(Tail(commands[q])) = Len(commands[q]) - 1
      /\ \A i \in 1 .. Len(commands[q]) - 1 : Tail(commands[q])[i] = commands[q][i + 1]
  BY <1>2
<1>5. \A i \in 1 .. Len(commands'[q]) :
        i + 1 \in 1 .. Len(commands[q]) /\ commands'[q][i] = commands[q][i + 1]
  <2>1. \A i \in 1 .. Len(Tail(commands[q])) :
          i \in 1 .. Len(commands[q]) - 1 /\ i + 1 \in 1 .. Len(commands[q])
    BY <1>1, <1>4
  <2>2. QED
    BY <2>1, <1>3, <1>4
<1>6. \A i \in 1 .. Len(commands[q]) : i # 1 =>
        i - 1 \in 1 .. Len(commands'[q]) /\ commands'[q][i - 1] = commands[q][i]
  <2> SUFFICES ASSUME NEW i \in 1 .. Len(commands[q]), i # 1
               PROVE  i - 1 \in 1 .. Len(commands'[q]) /\ commands'[q][i - 1] = commands[q][i]
    OBVIOUS
  <2>1. i - 1 \in 1 .. Len(commands[q]) - 1 /\ (i - 1) + 1 = i
    BY <1>1
  <2>2. QED
    BY <2>1, <1>3, <1>4
<1>7. \A i \in 1 .. Len(commands[q]) : i # 1 => commands[q][i] # c
  <2>1. \A i \in 1 .. Len(commands[q]) : i # 1 => commands[q][1] < commands[q][i]
    BY <1>1 DEF QueueInv
  <2>2. \A i \in 1 .. Len(commands[q]) : commands[q][i] \in Nat
    BY DEF QueueInv
  <2>3. QED
    BY <2>1, <2>2, <1>1
<1>8. \A d : InQueue(d, q)' <=> InQueue(d, q) /\ d # c
  <2> SUFFICES ASSUME NEW d PROVE InQueue(d, q)' <=> InQueue(d, q) /\ d # c
    OBVIOUS
  <2>1. ASSUME InQueue(d, q)' PROVE InQueue(d, q) /\ d # c
    <3>1. PICK i \in 1 .. Len(commands'[q]) : commands'[q][i] = d
      BY <2>1 DEF InQueue
    <3>2. i + 1 \in 1 .. Len(commands[q]) /\ commands[q][i + 1] = d /\ i + 1 # 1
      BY <3>1, <1>5
    <3>3. QED
      BY <3>2, <1>7 DEF InQueue
  <2>2. ASSUME InQueue(d, q), d # c PROVE InQueue(d, q)'
    <3>1. PICK i \in 1 .. Len(commands[q]) : commands[q][i] = d
      BY <2>2 DEF InQueue
    <3>2. i # 1
      BY <3>1, <2>2, <1>1
    <3>3. QED
      BY <3>1, <3>2, <1>6 DEF InQueue
  <2>3. QED
    BY <2>1, <2>2
<1>9. \A d \in 1 .. last : queue[d] # q => (InQueue(d, queue[d])' <=> InQueue(d, queue[d]))
  BY <1>3 DEF InQueue, QueueInv
<1>10. \A d : Out(d)' <=> Out(d) \/ d = c
  <2> SUFFICES ASSUME NEW d \in 1 .. last PROVE Out(d)' <=> Out(d) \/ d = c
    BY <1>1 DEF Out
  <2>1. CASE queue[d] = q
    <3>1. queue'[d] = q /\ (InQueue(d, q)' <=> InQueue(d, q) /\ d # c)
      BY <2>1, <1>8
    <3>2. InQueue(c, q)
      BY <1>1 DEF InQueue
    <3>3. QED
      BY <2>1, <3>1, <3>2 DEF Out
  <2>2. CASE queue[d] # q
    BY <2>2, <1>1, <1>9 DEF Out
  <2>3. QED
    BY <2>1, <2>2
<1>11. QED
  BY <1>3, <1>4, <1>5, <1>10

LEMMA RunSchedulerCommitInv ==
  ASSUME IInv, NEW p \in Procs, RunSchedulerCommit(p)
  PROVE  IInv'
<1> USE DEF IInv
<1>1. PICK q, c, r : /\ q = que[p] /\ c = Head(commands[q]) /\ r \in BOOLEAN
                     /\ pc[p] = "commit"
                     /\ commands' = [commands EXCEPT ![q] = Tail(@)]
                     /\ pending' = [pending EXCEPT ![q] = @ \cup {c}]
                     /\ onFly' = [onFly EXCEPT ![q] = TRUE]
                     /\ lock' = [lock EXCEPT ![q] = None]
                     /\ pc' = [pc EXCEPT ![p] = Continue(caller[p], r)]
  BY DEF RunSchedulerCommit
<1>2. UNCHANGED <<status, last, shape, queue, waits, pushed, started, waitCount,
        errors, tq, finished, freed, caller, que, job, mine, wset, seen>>
  BY DEF RunSchedulerCommit, cmdVars, blockVars, hostVars
<1>3. q \in Queues /\ Submitting(p) /\ commands[q] # <<>> /\ ~ onFly[q]
  BY <1>1, SchedulerQueue DEF SchedulerPC, Submitting, LockInv
<1>4. /\ c \in 1 .. last /\ c \in Cmds /\ queue[c] = q /\ ~ Out(c)
      /\ c = commands[q][1] /\ Len(commands[q]) \in Nat \ {0}
  BY <1>1, <1>3, FrontCommand
<1>5. /\ \A d : Out(d)' <=> Out(d) \/ d = c
      /\ \A i \in 1 .. Len(commands'[q]) :
           i + 1 \in 1 .. Len(commands[q]) /\ commands'[q][i] = commands[q][i + 1]
      /\ commands'[q] \in Seq(Cmds)
      /\ \A x \in Queues : x # q => commands'[x] = commands[x]
  BY <1>1, <1>2, <1>3, PopFront
<1>6. /\ onFly'[q] /\ \A x \in Queues : x # q => onFly'[x] = onFly[x]
      /\ \A x \in Queues : x # q => lock'[x] = lock[x]
      /\ pending'[q] = pending[q] \cup {c}
      /\ \A x \in Queues : x # q => pending'[x] = pending[x]
  BY <1>1, <1>3 DEF TypeOK
<1>7. /\ pc'[p] \in {"sched", "wait", "collect", "enqueued", "erase"}
      /\ p \in Hosts => pc'[p] \in HostPC
      /\ p \in Threads => pc'[p] \in {"sched", "erase"}
      /\ p \in Hosts /\ pc'[p] = "enqueued" => caller[p] = "Enqueue"
      /\ \A x \in Procs : x # p => pc'[x] = pc[x]
  BY <1>1, ConstantsAssumption DEF TypeOK, ProcInv, Continue, Procs, HostPC, SchedulerPC
<1>8. /\ \A x \in Procs : Submitting(x)' <=> Submitting(x) /\ x # p
      /\ \A t \in Threads : Active(t)' <=> Active(t)
      /\ \A t \in Threads : Reporting(t)' <=> Reporting(t)
      /\ \A t \in Threads : Past(t)' <=> Past(t)
  BY <1>1, <1>7 DEF Submitting, Active, Reporting, Past, SchedulerPC, Procs
<1>9. \A x \in Procs : Submitting(x) /\ x # p => que[x] \in Queues /\ que[x] # q
  BY <1>1, <1>3, OneSubmitter, SchedulerQueue DEF Submitting, SchedulerPC
<1>10. TypeOK'
  <2>1. /\ commands' \in [Queues -> Seq(Cmds)]
        /\ pending' \in [Queues -> SUBSET Cmds]
        /\ onFly' \in [Queues -> BOOLEAN]
        /\ lock' \in [Queues -> Procs \cup {None}]
    BY <1>1, <1>3, <1>4, <1>5 DEF TypeOK
  <2>2. /\ pc' \in [Procs -> HostPC \cup WorkerPC]
        /\ \A h \in Hosts : pc'[h] \in HostPC
        /\ \A u \in Threads : pc'[u] \in WorkerPC
    BY <1>1, <1>7 DEF TypeOK, Procs, HostPC, WorkerPC, SchedulerPC
  <2>3. QED
    BY <2>1, <2>2, <1>2 DEF TypeOK
<1>11. ProcInv'
  BY <1>1, <1>2, <1>7, ConstantsAssumption DEF TypeOK, ProcInv, Procs, SchedulerPC
<1>12. LockInv'
  BY <1>2, <1>5, <1>6, <1>8, <1>9, CanRunFrame DEF LockInv
<1>13. QueueInv'
  <2>1. \A x \in Queues : \A i \in 1 .. Len(commands'[x]) :
          commands'[x][i] \in 1 .. last /\ queue[commands'[x][i]] = x
    BY <1>5 DEF QueueInv
  <2>2. \A x \in Queues : \A i, j \in 1 .. Len(commands'[x]) :
          i < j => commands'[x][i] < commands'[x][j]
    <3>1. \A i, j \in 1 .. Len(commands'[q]) : i < j => commands'[q][i] < commands'[q][j]
      BY <1>3, <1>5 DEF QueueInv
    <3>2. QED
      BY <3>1, <1>5 DEF QueueInv
  <2>3. \A x \in Queues : \A d \in 1 .. last : \A i \in 1 .. Len(commands'[x]) :
          Out(d)' /\ queue[d] = x => d < commands'[x][i]
    <3> SUFFICES ASSUME NEW x \in Queues, NEW d \in 1 .. last,
                        NEW i \in 1 .. Len(commands'[x]), Out(d)', queue[d] = x
                 PROVE  d < commands'[x][i]
      OBVIOUS
    <3>1. CASE x # q
      BY <3>1, <1>4, <1>5 DEF QueueInv
    <3>2. CASE x = q /\ Out(d)
      BY <3>2, <1>5 DEF QueueInv
    <3>3. CASE x = q /\ d = c
      <4>1. /\ 1 \in 1 .. Len(commands[q]) /\ i + 1 \in 1 .. Len(commands[q]) /\ 1 < i + 1
            /\ commands'[q][i] = commands[q][i + 1]
        BY <3>3, <1>4, <1>5
      <4>2. commands[q][1] < commands[q][i + 1]
        BY <4>1, <1>3 DEF QueueInv
      <4>3. QED
        BY <4>1, <4>2, <3>3, <1>4
    <3>4. QED
      BY <3>1, <3>2, <3>3, <1>5
  <2>4. QED
    BY <2>1, <2>2, <2>3, <1>2 DEF QueueInv
<1>14. SubmitInv'
  <2>1. pushed[c] = shape[c].blocks
    BY <1>1 DEF SubmitInv
  <2>2. \A d \in 1 .. last : Out(d)' => pushed[d] = shape[d].blocks
    BY <2>1, <1>5 DEF SubmitInv
  <2>3. \A d \in 1 .. last : pushed[d] > 0 /\ ~ Out(d)' =>
          \E x \in Procs : /\ Submitting(x)'
                           /\ que[x] = queue[d]
                           /\ d = Head(commands'[que[x]])
    <3> SUFFICES ASSUME NEW d \in 1 .. last, pushed[d] > 0, ~ Out(d)'
                 PROVE  \E x \in Procs : /\ Submitting(x)'
                                         /\ que[x] = queue[d]
                                         /\ d = Head(commands'[que[x]])
      OBVIOUS
    <3>1. ~ Out(d) /\ d # c
      BY <1>5
    <3>2. PICK x \in Procs : /\ Submitting(x) /\ que[x] = queue[d]
                             /\ d = Head(commands[que[x]])
      BY <3>1 DEF SubmitInv
    <3>3. x # p
      BY <3>1, <3>2, <1>1
    <3>4. commands'[que[x]] = commands[que[x]]
      BY <3>2, <3>3, <1>5, <1>9
    <3>5. QED
      BY <3>2, <3>3, <3>4, <1>8
  <2>4. \A x \in Procs : Submitting(x)' => commands'[que[x]] = commands[que[x]] /\ pc'[x] = pc[x]
    BY <1>5, <1>7, <1>8, <1>9
  <2>5. \A x \in Procs : pc'[x] = "submit" =>
          pushed[Head(commands'[que[x]])] < shape[Head(commands'[que[x]])].blocks
    BY <2>4 DEF SubmitInv, Submitting
  <2>6. \A x \in Procs : pc'[x] \in {"mark", "commit"} =>
          pushed[Head(commands'[que[x]])] = shape[Head(commands'[que[x]])].blocks
    BY <2>4 DEF SubmitInv, Submitting
  <2>7. QED
    BY <2>2, <2>3, <2>5, <2>6, <1>2, CanRunFrame DEF SubmitInv
<1>15. \A d \in 1 .. last : Out(d) /\ queue[d] = q => d < c /\ HasCompleted(d)
  BY <1>3, <1>4 DEF QueueInv, FlyInv
<1>16. FlyInv'
  <2>1. \A d, e \in 1 .. last :
          Out(d)' /\ Out(e)' /\ queue[d] = queue[e] /\ d < e => HasCompleted(d)
    BY <1>4, <1>5, <1>15 DEF FlyInv
  <2>2. \A d \in 1 .. last : Out(d)' /\ ~ onFly'[queue[d]] => HasCompleted(d)
    BY <1>4, <1>5, <1>6 DEF FlyInv, QueueInv
  <2>3. QED
    BY <2>1, <2>2, <1>2, CanRunFrame DEF FlyInv
<1>17. \A d : InFlight(d) => InFlight(d)'
  <2> SUFFICES ASSUME NEW d, InFlight(d), Out(d)'
               PROVE  /\ onFly'[queue[d]]
                      /\ \A e \in 1 .. last : Out(e)' /\ queue[e] = queue[d] => e <= d
    BY <1>2 DEF InFlight
  <2>1. CASE d = c
    BY <2>1, <1>4, <1>5, <1>6, <1>15
  <2>2. CASE d # c
    <3>1. Out(d) /\ d \in 1 .. last /\ onFly[queue[d]]
      BY <2>2, <1>5 DEF InFlight, Out
    <3>2. queue[d] \in Queues /\ queue[d] # q
      BY <3>1, <1>3 DEF QueueInv
    <3>3. QED
      BY <3>1, <3>2, <1>4, <1>5, <1>6 DEF InFlight
  <2>3. QED
    BY <2>1, <2>2
<1>18. FlightInv'
  <2>1. \A t \in Threads : \A i \in 1 .. Len(tq[t]) : InFlight(tq[t][i][1])'
    BY <1>2, <1>17 DEF FlightInv
  <2>2. \A t \in Threads : Active(t)' \/ Reporting(t)' => InFlight(job[t][1])'
    BY <1>2, <1>8, <1>17 DEF FlightInv
  <2>3. QED
    BY <2>1, <2>2, <1>2 DEF FlightInv
<1>19. BlockInv' /\ CountInv' /\ StatusInv'
  BY <1>2, <1>8, Unfinished1Frame, CountFrame, StatusFrame DEF BlockInv
<1>20. PastInv'
  BY <1>1, <1>2, <1>7, <1>8, CanRunFrame DEF PastInv, Past, SchedulerPC, Procs
<1>21. FreedInv'
  <2>1. \A x \in Queues : \A d \in pending'[x] : Out(d)' /\ queue[d] = x /\ d \notin freed
    BY <1>4, <1>5, <1>6 DEF FreedInv
  <2>2. \A t \in Threads : (pc'[t] \in SchedulerPC \/ pc'[t] = "erase") => Out(job[t][1])'
    BY <1>1, <1>2, <1>5, <1>7 DEF FreedInv, SchedulerPC, Procs
  <2>3. \A d \in freed : /\ Out(d)'
                         /\ finished[d] = 1 .. shape[d].blocks
                         /\ \A t \in Threads : Past(t)' => job[t][1] # d
    BY <1>5, <1>8 DEF FreedInv
  <2>4. QED
    BY <2>1, <2>2, <2>3, <1>2 DEF FreedInv
<1>22. QED
  BY <1>10, <1>11, <1>12, <1>13, <1>14, <1>16, <1>18, <1>19, <1>20, <1>21

LEMMA EnqueueInv ==
  ASSUME IInv, NEW h \in Hosts, NEW q \in Queues, NEW s \in Shapes,
         NEW W \in SUBSET Events, Enqueue(h, q, s, W)
  PROVE  IInv'
<1> USE DEF IInv
<1>1. PICK c : /\ c = last + 1
               /\ pc[h] = "idle" /\ lock[q] = None /\ last < MaxCmds
               /\ last' = c
               /\ shape' = [shape EXCEPT ![c] = s]
               /\ queue' = [queue EXCEPT ![c] = q]
               /\ waits' = [waits EXCEPT ![c] = W]
               /\ waitCount' = [waitCount EXCEPT ![c] = s.blocks]
               /\ status' = [status EXCEPT ![c] = QUEUED]
               /\ commands' = [commands EXCEPT ![q] = Append(@, c)]
               /\ mine' = [mine EXCEPT ![h] = c]
               /\ que' = [que EXCEPT ![h] = q]
               /\ caller' = [caller EXCEPT ![h] = "Enqueue"]
               /\ pc' = [pc EXCEPT ![h] = "sched"]
  BY DEF Enqueue
<1>2. UNCHANGED <<pending, onFly, lock, pushed, started, errors, tq,
                  finished, freed, job, wset, seen>>
  BY DEF Enqueue
<1>3. /\ last \in Nat /\ 1 .. last \subseteq Cmds /\ Cmds \subseteq Nat /\ Cmds \subseteq Events
      /\ \A d \in Cmds : waits[d] \subseteq Events
  BY CmdsAreEvents
<1>4. /\ c \in Cmds /\ c > last /\ c \in Nat
      /\ \A d \in 1 .. last' : d \in 1 .. last \/ d = c
      /\ \A d \in 1 .. last : d # c /\ d < c /\ d \in 1 .. last'
      /\ \A d \in Cmds : d > last' => d > last /\ d # c
  <2>1. c = last + 1 /\ last' = last + 1 /\ last < MaxCmds /\ last \in Nat
    BY <1>1, <1>3
  <2>2. MaxCmds \in Nat
    BY ConstantsAssumption
  <2>3. c \in Cmds /\ c > last /\ c \in Nat
    BY <2>1, <2>2 DEF Cmds
  <2>4. /\ \A d \in 1 .. last' : d \in 1 .. last \/ d = c
        /\ \A d \in 1 .. last : d # c /\ d < c /\ d \in 1 .. last'
    BY <2>1
  <2>5. \A d \in Nat : d > last' => d > last /\ d # c
    BY <2>1
  <2> QED
    BY <1>3, <2>3, <2>4, <2>5
<1>5. /\ shape'[c] = s /\ queue'[c] = q /\ waits'[c] = W /\ waitCount'[c] = s.blocks
      /\ status'[c] = QUEUED
      /\ \A d \in Cmds : d # c => /\ shape'[d] = shape[d] /\ queue'[d] = queue[d]
                                  /\ waits'[d] = waits[d] /\ waitCount'[d] = waitCount[d]
      /\ \A e \in Events : e # c => status'[e] = status[e]
  BY <1>1, <1>3, <1>4 DEF TypeOK
<1>6. /\ commands[q] \in Seq(Cmds) /\ Len(commands[q]) \in Nat
      /\ commands'[q] \in Seq(Cmds)
      /\ Len(commands'[q]) = Len(commands[q]) + 1
      /\ \A i \in 1 .. Len(commands[q]) : commands'[q][i] = commands[q][i]
      /\ commands'[q][Len(commands[q]) + 1] = c
      /\ \A x \in Queues : x # q => commands'[x] = commands[x]
  BY <1>1, <1>4 DEF TypeOK
<1>7. /\ h \in Procs /\ h \notin Threads /\ Threads \subseteq Procs
      /\ pc'[h] = "sched" /\ que'[h] = q /\ caller'[h] = "Enqueue" /\ mine'[h] = c
      /\ \A x \in Procs : x # h =>
           pc'[x] = pc[x] /\ que'[x] = que[x] /\ caller'[x] = caller[x]
      /\ \A x \in Hosts : x # h => mine'[x] = mine[x]
  BY <1>1, ConstantsAssumption DEF TypeOK, Procs
<1>8. /\ \A x \in Procs : Submitting(x)' <=> Submitting(x)
      /\ ~ Submitting(h)
      /\ \A t \in Threads : pc'[t] = pc[t]
  BY <1>1, <1>7 DEF Submitting
<1>9. /\ \A t \in Threads : Active(t)' <=> Active(t)
      /\ \A t \in Threads : Reporting(t)' <=> Reporting(t)
      /\ \A t \in Threads : Past(t)' <=> Past(t)
  BY <1>8 DEF Active, Reporting, Past
<1>10. \A x \in Queues : \A i \in 1 .. Len(commands'[x]) :
          \/ i \in 1 .. Len(commands[x]) /\ commands'[x][i] = commands[x][i]
          \/ x = q /\ i = Len(commands[q]) + 1 /\ commands'[x][i] = c
  <2> SUFFICES ASSUME NEW x \in Queues, NEW i \in 1 .. Len(commands'[x])
               PROVE  \/ i \in 1 .. Len(commands[x]) /\ commands'[x][i] = commands[x][i]
                      \/ x = q /\ i = Len(commands[q]) + 1 /\ commands'[x][i] = c
    OBVIOUS
  <2>1. CASE x # q
    BY <2>1, <1>6
  <2>2. CASE x = q
    <3>1. i \in 1 .. Len(commands[q]) \/ i = Len(commands[q]) + 1
      BY <2>2, <1>6
    <3>2. QED
      BY <2>2, <3>1, <1>6
  <2>3. QED
    BY <2>1, <2>2
<1>11. \A x \in Queues : \A i \in 1 .. Len(commands[x]) :
          i \in 1 .. Len(commands'[x]) /\ commands'[x][i] = commands[x][i]
  BY <1>6
<1>12. \A d : Out(d)' <=> Out(d)
  <2>1. ~ Out(c)'
    <3>1. Len(commands[q]) + 1 \in 1 .. Len(commands'[q])
      BY <1>6
    <3>2. InQueue(c, q)'
      BY <3>1, <1>6 DEF InQueue
    <3>3. QED
      BY <3>2, <1>5 DEF Out
  <2>2. ~ Out(c)
    BY <1>3, <1>4 DEF Out
  <2>3. ASSUME NEW d \in 1 .. last PROVE Out(d)' <=> Out(d)
    <3>1. queue'[d] = queue[d] /\ queue[d] \in Queues /\ d # c /\ d \in 1 .. last'
      BY <1>3, <1>4, <1>5 DEF QueueInv
    <3>2. InQueue(d, queue[d])' <=> InQueue(d, queue[d])
      BY <3>1, <1>10, <1>11 DEF InQueue
    <3>3. QED
      BY <3>1, <3>2 DEF Out
  <2>4. QED
    BY <2>1, <2>2, <2>3, <1>4 DEF Out
<1>13. /\ \A d \in 1 .. last : HasCompleted(d)' <=> HasCompleted(d)
       /\ \A d \in 1 .. last : CanRun(d) => CanRun(d)'
       /\ ~ HasCompleted(c)'
  <2>1. status[c] = NoEvent
    BY <1>4 DEF QueueInv
  <2>2. ~ HasCompleted(c) /\ ~ HasCompleted(c)'
    BY <2>1, <1>5 DEF HasCompleted, NoEvent, COMPLETE, QUEUED
  <2>3. \A e \in Events : HasCompleted(e) => HasCompleted(e)'
    BY <2>2, <1>5 DEF HasCompleted
  <2>4. \A d \in 1 .. last : CanRun(d) => CanRun(d)'
    BY <2>3, <1>3, <1>4, <1>5 DEF CanRun
  <2>5. \A d \in 1 .. last : HasCompleted(d)' <=> HasCompleted(d)
    BY <1>3, <1>4, <1>5 DEF HasCompleted
  <2>6. QED
    BY <2>2, <2>4, <2>5
<1>14. \A x \in Procs : Submitting(x) =>
          /\ que[x] \in Queues /\ que[x] # q /\ x # h
          /\ que'[x] = que[x] /\ commands'[que[x]] = commands[que[x]] /\ pc'[x] = pc[x]
          /\ Head(commands[que[x]]) \in 1 .. last
  <2> SUFFICES ASSUME NEW x \in Procs, Submitting(x)
               PROVE  /\ que[x] \in Queues /\ que[x] # q /\ x # h
                      /\ que'[x] = que[x] /\ commands'[que[x]] = commands[que[x]]
                      /\ pc'[x] = pc[x] /\ Head(commands[que[x]]) \in 1 .. last
    OBVIOUS
  <2>1. que[x] \in Queues /\ que[x] # q /\ x # h
    BY <1>1, <1>8, FreeLock, SchedulerQueue DEF Submitting, SchedulerPC
  <2>2. QED
    BY <2>1, <1>6, <1>7, FrontCommand DEF LockInv
<1>15. s.blocks \in Nat \ {0}
  BY ShapesAssumption
<1>16. TypeOK'
  <2>1. /\ status' \in [Events -> FAILED .. NoEvent]
        /\ last' \in 0 .. MaxCmds
        /\ shape' \in [Cmds -> Shapes \cup {None}]
        /\ queue' \in [Cmds -> Queues \cup {None}]
        /\ waits' \in [Cmds -> SUBSET Events]
        /\ waitCount' \in [Cmds -> Int]
    <3>1. status' \in [Events -> FAILED .. NoEvent]
      <4>1. status \in [Events -> FAILED .. NoEvent] /\ QUEUED \in FAILED .. NoEvent
        BY DEF TypeOK, FAILED, NoEvent, QUEUED
      <4>2. status' = [status EXCEPT ![c] = QUEUED]
        BY <1>1
      <4>3. QED
        BY <4>1, <4>2
    <3>2. last' \in 0 .. MaxCmds
      BY <1>1, <1>4, ConstantsAssumption DEF TypeOK
    <3>3. shape' \in [Cmds -> Shapes \cup {None}]
      BY <1>1, <1>4 DEF TypeOK
    <3>4. queue' \in [Cmds -> Queues \cup {None}]
      BY <1>1, <1>4 DEF TypeOK
    <3>5. waits' \in [Cmds -> SUBSET Events]
      BY <1>1, <1>4 DEF TypeOK, WaitLists
    <3>6. waitCount' \in [Cmds -> Int]
      BY <1>1, <1>4, <1>15 DEF TypeOK
    <3>7. QED
      BY <3>1, <3>2, <3>3, <3>4, <3>5, <3>6
  <2>2. /\ commands' \in [Queues -> Seq(Cmds)]
        /\ mine' \in [Hosts -> Cmds \cup {None}]
        /\ que' \in [Procs -> Queues \cup {None}]
        /\ caller' \in [Procs -> {"Enqueue", "Flush", "Finish", "Done", None}]
    BY <1>1, <1>4, <1>6 DEF TypeOK
  <2>3. /\ pc' \in [Procs -> HostPC \cup WorkerPC]
        /\ \A x \in Hosts : pc'[x] \in HostPC
        /\ \A u \in Threads : pc'[u] \in WorkerPC
    BY <1>1, <1>7 DEF TypeOK, Procs, HostPC, WorkerPC, SchedulerPC
  <2>4. QED
    BY <2>1, <2>2, <2>3, <1>2 DEF TypeOK
<1>17. ProcInv'
  <2>1. \A t \in Threads : pc[t] # "idle" =>
          job[t] \in (1 .. last') \X Nat /\ queue'[job[t][1]] = queue[job[t][1]]
    BY <1>3, <1>4, <1>5 DEF ProcInv
  <2>2. \A t \in Threads : que'[t] = que[t] /\ caller'[t] = caller[t] /\ t # h
    BY <1>7
  <2>3. \A x \in Hosts : pc'[x] # "idle" /\ caller'[x] = "Enqueue" => mine'[x] \in 1 .. last'
    BY <1>1, <1>4, <1>7, <1>3 DEF ProcInv, Procs
  <2>4. \A x \in Hosts : pc'[x] # "idle" =>
          que'[x] \in Queues /\ caller'[x] \in {"Enqueue", "Flush", "Finish"}
    BY <1>7 DEF ProcInv, Procs
  <2>5. \A x \in Hosts : pc'[x] = "enqueued" => caller'[x] = "Enqueue"
    BY <1>7 DEF ProcInv, Procs
  <2>6. \A t \in Threads : (pc'[t] \in SchedulerPC \/ pc'[t] = "erase") =>
          caller'[t] = "Done" /\ que'[t] = queue'[job[t][1]]
    BY <2>1, <2>2, <1>8 DEF ProcInv, SchedulerPC
  <2>7. QED
    BY <2>1, <2>3, <2>4, <2>5, <2>6, <1>2, <1>8 DEF ProcInv
<1>18. LockInv'
  BY <1>2, <1>8, <1>13, <1>14 DEF LockInv
<1>19. QueueInv'
  <2>1. \A d \in 1 .. last' : queue'[d] \in Queues /\ shape'[d] \in Shapes /\ status'[d] # NoEvent
    BY <1>3, <1>4, <1>5 DEF QueueInv, QUEUED, NoEvent
  <2>2. \A d \in Cmds : d > last' => status'[d] = NoEvent
    BY <1>3, <1>4, <1>5 DEF QueueInv
  <2>3. \A x \in Queues : \A i \in 1 .. Len(commands'[x]) :
          commands'[x][i] \in 1 .. last' /\ queue'[commands'[x][i]] = x
    <3> SUFFICES ASSUME NEW x \in Queues, NEW i \in 1 .. Len(commands'[x])
                 PROVE  commands'[x][i] \in 1 .. last' /\ queue'[commands'[x][i]] = x
      OBVIOUS
    <3>1. CASE i \in 1 .. Len(commands[x]) /\ commands'[x][i] = commands[x][i]
      BY <3>1, <1>3, <1>4, <1>5 DEF QueueInv
    <3>2. CASE x = q /\ commands'[x][i] = c
      BY <3>2, <1>1, <1>3, <1>4, <1>5
    <3>3. QED
      BY <3>1, <3>2, <1>10
  <2>4. \A x \in Queues : \A i, j \in 1 .. Len(commands'[x]) :
          i < j => commands'[x][i] < commands'[x][j]
    <3> SUFFICES ASSUME NEW x \in Queues, NEW i \in 1 .. Len(commands'[x]),
                        NEW j \in 1 .. Len(commands'[x]), i < j
                 PROVE  commands'[x][i] < commands'[x][j]
      OBVIOUS
    <3>1. CASE j \in 1 .. Len(commands[x]) /\ commands'[x][j] = commands[x][j]
      <4>1. i \in 1 .. Len(commands[x]) /\ commands'[x][i] = commands[x][i]
        BY <3>1, <1>10, <1>6
      <4>2. QED
        BY <3>1, <4>1 DEF QueueInv
    <3>2. CASE x = q /\ j = Len(commands[q]) + 1 /\ commands'[x][j] = c
      <4>1. i \in 1 .. Len(commands[x]) /\ commands'[x][i] = commands[x][i]
        BY <3>2, <1>10, <1>6
      <4>2. QED
        BY <3>2, <4>1, <1>4 DEF QueueInv
    <3>3. QED
      BY <3>1, <3>2, <1>10
  <2>5. \A x \in Queues : \A d \in 1 .. last' : \A i \in 1 .. Len(commands'[x]) :
          Out(d)' /\ queue'[d] = x => d < commands'[x][i]
    <3> SUFFICES ASSUME NEW x \in Queues, NEW d \in 1 .. last',
                        NEW i \in 1 .. Len(commands'[x]), Out(d)', queue'[d] = x
                 PROVE  d < commands'[x][i]
      OBVIOUS
    <3>1. Out(d) /\ d \in 1 .. last /\ queue[d] = x
      BY <1>3, <1>4, <1>5, <1>12 DEF Out
    <3>2. CASE i \in 1 .. Len(commands[x]) /\ commands'[x][i] = commands[x][i]
      BY <3>1, <3>2 DEF QueueInv
    <3>3. CASE commands'[x][i] = c
      BY <3>1, <3>3, <1>4
    <3>4. QED
      BY <3>2, <3>3, <1>10
  <2>6. QED
    BY <2>1, <2>2, <2>3, <2>4, <2>5, Zenon DEF QueueInv
<1>20. pushed[c] = 0 /\ finished[c] = {} /\ ~ errors[c]
  <2>1. pushed[c] = 0 /\ ~ errors[c] /\ finished[c] \subseteq 1 .. pushed[c]
    BY <1>4 DEF SubmitInv, StatusInv, CountInv
  <2>2. QED
    BY <2>1
<1>21. SubmitInv'
  <2>1. \A d \in Cmds : d > last' => pushed[d] = 0
    BY <1>4 DEF SubmitInv
  <2>2. \A d \in 1 .. last' : pushed[d] <= shape'[d].blocks
    BY <1>3, <1>4, <1>5, <1>15, <1>20 DEF SubmitInv
  <2>3. \A d \in 1 .. last' : Out(d)' => pushed[d] = shape'[d].blocks
    <3>1. \A d \in 1 .. last' : Out(d)' => d \in 1 .. last /\ Out(d)
      BY <1>12 DEF Out
    <3>2. QED
      BY <3>1, <1>3, <1>4, <1>5 DEF SubmitInv
  <2>4. \A d \in 1 .. last' : pushed[d] > 0 /\ ~ Out(d)' =>
          \E x \in Procs : /\ Submitting(x)'
                           /\ que'[x] = queue'[d]
                           /\ d = Head(commands'[que'[x]])
    <3> SUFFICES ASSUME NEW d \in 1 .. last', pushed[d] > 0, ~ Out(d)'
                 PROVE  \E x \in Procs : /\ Submitting(x)'
                                         /\ que'[x] = queue'[d]
                                         /\ d = Head(commands'[que'[x]])
      OBVIOUS
    <3>1. d \in 1 .. last /\ ~ Out(d)
      BY <1>4, <1>12, <1>20
    <3>2. PICK x \in Procs : /\ Submitting(x) /\ que[x] = queue[d]
                             /\ d = Head(commands[que[x]])
      BY <3>1 DEF SubmitInv
    <3>3. queue'[d] = queue[d]
      BY <3>1, <1>3, <1>4, <1>5
    <3>4. QED
      BY <3>2, <3>3, <1>8, <1>14
  <2>5. \A x \in Procs : pc'[x] = "submit" =>
          pushed[Head(commands'[que'[x]])] < shape'[Head(commands'[que'[x]])].blocks
    <3> SUFFICES ASSUME NEW x \in Procs, pc'[x] = "submit"
                 PROVE  pushed[Head(commands'[que'[x]])] < shape'[Head(commands'[que'[x]])].blocks
      OBVIOUS
    <3>1. Submitting(x) /\ pc[x] = "submit"
      BY <1>7 DEF Submitting
    <3>2. PICK d \in 1 .. last : d = Head(commands[que[x]]) /\ d = Head(commands'[que'[x]])
      BY <3>1, <1>14
    <3>3. shape'[d] = shape[d]
      BY <1>3, <1>4, <1>5
    <3>4. QED
      BY <3>1, <3>2, <3>3 DEF SubmitInv
  <2>6. \A x \in Procs : pc'[x] \in {"mark", "commit"} =>
          pushed[Head(commands'[que'[x]])] = shape'[Head(commands'[que'[x]])].blocks
    <3> SUFFICES ASSUME NEW x \in Procs, pc'[x] \in {"mark", "commit"}
                 PROVE  pushed[Head(commands'[que'[x]])] = shape'[Head(commands'[que'[x]])].blocks
      OBVIOUS
    <3>1. Submitting(x) /\ pc[x] \in {"mark", "commit"}
      BY <1>7 DEF Submitting
    <3>2. PICK d \in 1 .. last : d = Head(commands[que[x]]) /\ d = Head(commands'[que'[x]])
      BY <3>1, <1>14
    <3>3. shape'[d] = shape[d]
      BY <1>3, <1>4, <1>5
    <3>4. QED
      BY <3>1, <3>2, <3>3 DEF SubmitInv
  <2>7. \A d \in 1 .. last' : pushed[d] > 0 => CanRun(d)'
    BY <1>4, <1>13, <1>20 DEF SubmitInv
  <2>8. QED
    BY <2>1, <2>2, <2>3, <2>4, <2>5, <2>6, <2>7, <1>2 DEF SubmitInv
<1>22. \A d : Out(d) => d \in 1 .. last /\ queue'[d] = queue[d]
  BY <1>3, <1>4, <1>5 DEF Out
<1>23. FlyInv'
  <2>1. \A d, e \in 1 .. last' :
          Out(d)' /\ Out(e)' /\ queue'[d] = queue'[e] /\ d < e => HasCompleted(d)'
    BY <1>12, <1>13, <1>22 DEF FlyInv
  <2>2. \A d \in 1 .. last' : Out(d)' /\ ~ onFly[queue'[d]] => HasCompleted(d)'
    BY <1>12, <1>13, <1>22 DEF FlyInv
  <2>3. QED
    BY <2>1, <2>2, <1>2 DEF FlyInv
<1>24. \A d : InFlight(d) => InFlight(d)'
  <2> SUFFICES ASSUME NEW d, InFlight(d), Out(d)'
               PROVE  /\ onFly'[queue'[d]]
                      /\ \A e \in 1 .. last' : Out(e)' /\ queue'[e] = queue'[d] => e <= d
    BY DEF InFlight
  <2>1. Out(d) /\ onFly[queue[d]]
    BY <1>12 DEF InFlight
  <2>2. QED
    BY <2>1, <1>2, <1>12, <1>22 DEF InFlight
<1>25. FlightInv'
  <2>1. \A t \in Threads : \A i \in 1 .. Len(tq[t]) : InFlight(tq[t][i][1])'
    BY <1>2, <1>24 DEF FlightInv
  <2>2. \A t \in Threads : Active(t)' \/ Reporting(t)' => InFlight(job[t][1])'
    BY <1>2, <1>9, <1>24 DEF FlightInv
  <2>3. QED
    BY <2>1, <2>2, <1>2 DEF FlightInv
<1>26. \A b : Unfinished1(b) => Unfinished1(b)'
  BY <1>2, <1>4 DEF Unfinished1
<1>27. BlockInv'
  <2>1. \A t \in Threads : \A i \in 1 .. Len(tq[t]) : Unfinished1(tq[t][i])'
    BY <1>2, <1>26 DEF BlockInv
  <2>2. \A t \in Threads : Active(t)' => Unfinished1(job[t])'
    BY <1>2, <1>9, <1>26 DEF BlockInv
  <2>3. QED
    BY <2>1, <2>2, <1>2, <1>9 DEF BlockInv
<1>28. CountInv'
  <2>1. s.blocks = s.blocks - Cardinality({})
    BY <1>15, FS_EmptySet
  <2>2. \A d \in 1 .. last' : waitCount'[d] = shape'[d].blocks - Cardinality(finished[d])
    BY <2>1, <1>3, <1>4, <1>5, <1>20 DEF CountInv
  <2>3. QED
    BY <2>2, <1>2 DEF CountInv
<1>29. \A t \in Threads : Past(t) => job[t][1] \in 1 .. last
  BY DEF Past, Reporting, ProcInv, SchedulerPC
<1>30. PastInv'
  <2>1. \A t \in Threads : Past(t)' => finished[job[t][1]] = 1 .. shape'[job[t][1]].blocks
    BY <1>3, <1>4, <1>5, <1>9, <1>29 DEF PastInv
  <2>2. \A t \in Threads : Past(t)' => (pc'[t] = "complete" <=> ~ HasCompleted(job[t][1])')
    BY <1>2, <1>8, <1>9, <1>13, <1>29 DEF PastInv
  <2>3. QED
    BY <2>1, <2>2, <1>2, <1>9 DEF PastInv
<1>31. StatusInv'
  <2>1. CompletionIsExact'
    <3> SUFFICES ASSUME NEW d \in 1 .. last', HasCompleted(d)'
                 PROVE  /\ finished'[d] = 1 .. shape'[d].blocks
                        /\ status'[d] = FAILED <=> shape'[d].bad
      BY DEF CompletionIsExact
    <3>1. d \in 1 .. last /\ HasCompleted(d)
      BY <1>4, <1>13
    <3>2. status'[d] = status[d] /\ shape'[d] = shape[d]
      BY <3>1, <1>3, <1>4, <1>5
    <3>3. QED
      BY <3>1, <3>2, <1>2 DEF StatusInv, CompletionIsExact
  <2>2. \A d \in Cmds : d > last' => ~ errors[d]
    BY <1>4 DEF StatusInv
  <2>3. \A d \in 1 .. last' : errors[d] => shape'[d].bad
    BY <1>3, <1>4, <1>5, <1>20 DEF StatusInv
  <2>4. \A d \in 1 .. last' : finished[d] # {} /\ shape'[d].bad => errors[d]
    BY <1>3, <1>4, <1>5, <1>20 DEF StatusInv
  <2>5. QED
    BY <2>1, <2>2, <2>3, <2>4, <1>2 DEF StatusInv
<1>32. FreedInv'
  <2>1. \A x \in Queues : \A d \in pending[x] : Out(d)' /\ queue'[d] = x /\ d \notin freed
    BY <1>12, <1>22 DEF FreedInv
  <2>2. \A t \in Threads : (pc'[t] \in SchedulerPC \/ pc'[t] = "erase") => Out(job[t][1])'
    BY <1>2, <1>8, <1>12 DEF FreedInv
  <2>3. \A d \in freed : /\ Out(d)'
                         /\ finished[d] = 1 .. shape'[d].blocks
                         /\ \A t \in Threads : Past(t)' => job[t][1] # d
    <3>1. \A d \in freed : shape'[d] = shape[d]
      BY <1>3, <1>4, <1>5 DEF FreedInv, Out
    <3>2. QED
      BY <3>1, <1>9, <1>12 DEF FreedInv
  <2>4. QED
    BY <2>1, <2>2, <2>3, <1>2 DEF FreedInv
<1>33. QED
  BY <1>16, <1>17, <1>18, <1>19, <1>21, <1>23, <1>25, <1>27, <1>28, <1>30, <1>31, <1>32

(* A worker's control state alone changes, and it goes on with its block.  *)
LEMMA NotifyStartInv ==
  ASSUME IInv, NEW t \in Threads, NotifyStart(t)
  PROVE  IInv'
<1> USE DEF IInv
<1>1. PICK c, r : /\ c = job[t][1] /\ r \in {"running", "exec"}
                  /\ pc[t] = "start"
                  /\ started' = [started EXCEPT ![c] = @ + 1]
                  /\ pc' = [pc EXCEPT ![t] = r]
  BY DEF NotifyStart
<1>2. UNCHANGED <<status, last, shape, queue, waits, commands, pending, onFly,
        lock, pushed, waitCount, errors, tq, finished, freed,
        caller, que, job, mine, wset, seen>>
  BY DEF NotifyStart, cmdVars, queueVars, hostVars
<1>3. /\ t \in Procs /\ Threads \subseteq Procs
      /\ pc'[t] = r /\ \A x \in Procs : x # t => pc'[x] = pc[x]
      /\ \A h \in Hosts : h # t /\ h \in Procs
  BY <1>1, ConstantsAssumption DEF TypeOK, Procs
<1>4. /\ \A x \in Procs : Submitting(x)' <=> Submitting(x)
      /\ \A x \in Procs : Submitting(x) => pc'[x] = pc[x]
      /\ \A u \in Threads : Active(u)' <=> Active(u)
      /\ \A u \in Threads : Reporting(u)' <=> Reporting(u)
      /\ \A u \in Threads : Past(u)' <=> Past(u)
      /\ \A u \in Threads : Past(u) => pc'[u] = pc[u]
  BY <1>1, <1>3 DEF Submitting, Active, Reporting, Past, SchedulerPC
<1>5. c \in Cmds
  BY <1>1, CmdsAreEvents DEF ProcInv
<1>6. TypeOK'
  <2>1. started' \in [Cmds -> Nat]
    BY <1>1, <1>5 DEF TypeOK
  <2>2. /\ pc' \in [Procs -> HostPC \cup WorkerPC]
        /\ \A h \in Hosts : pc'[h] \in HostPC
        /\ \A u \in Threads : pc'[u] \in WorkerPC
    BY <1>1, <1>3 DEF TypeOK, HostPC, WorkerPC
  <2>3. QED
    BY <2>1, <2>2, <1>2 DEF TypeOK
<1>7. ProcInv'
  BY <1>1, <1>2, <1>3 DEF ProcInv, SchedulerPC
<1>8. LockInv'
  BY <1>2, <1>4, CanRunFrame DEF LockInv
<1>9. QueueInv' /\ FlyInv' /\ StatusInv' /\ CountInv'
  BY <1>2, QueueFrame, FlyFrame, StatusFrame, CountFrame
<1>10. SubmitInv'
  BY <1>1, <1>2, <1>3, <1>4, OutFrame, CanRunFrame DEF SubmitInv
<1>11. FlightInv'
  BY <1>2, <1>4, InFlightFrame DEF FlightInv
<1>12. BlockInv'
  BY <1>2, <1>4, Unfinished1Frame DEF BlockInv
<1>13. PastInv'
  BY <1>2, <1>4, CanRunFrame DEF PastInv
<1>14. FreedInv'
  BY <1>1, <1>2, <1>3, <1>4, OutFrame DEF FreedInv, SchedulerPC
<1>15. QED
  BY <1>6, <1>7, <1>8, <1>9, <1>10, <1>11, <1>12, <1>13, <1>14

LEMMA TakeInv ==
  ASSUME IInv, NEW t \in Threads, Take(t)
  PROVE  IInv'
<1> USE DEF IInv
<1>1. PICK b : /\ b = Head(tq[t])
               /\ pc[t] = "idle" /\ tq[t] # <<>>
               /\ job' = [job EXCEPT ![t] = b]
               /\ tq' = [tq EXCEPT ![t] = Tail(@)]
               /\ pc' = [pc EXCEPT ![t] = "start"]
  BY DEF Take
<1>2. UNCHANGED <<status, last, shape, queue, waits, commands, pending, onFly,
        lock, pushed, started, waitCount, errors, finished, freed,
        caller, que, mine, wset, seen>>
  BY DEF Take, cmdVars, queueVars, hostVars
<1>3. /\ tq[t] \in Seq(Cmds \X Nat)
      /\ Len(tq[t]) \in Nat \ {0}
      /\ b = tq[t][1] /\ 1 \in 1 .. Len(tq[t])
      /\ b \in Cmds \X Nat
  <2>1. tq[t] \in Seq(Cmds \X Nat)
    BY DEF TypeOK
  <2>2. Len(tq[t]) \in Nat \ {0} /\ b = tq[t][1]
    BY <1>1, <2>1
  <2>3. 1 \in 1 .. Len(tq[t])
    BY <2>2
  <2>4. QED
    BY <2>1, <2>2, <2>3
<1>4. Unfinished1(b) /\ InFlight(b[1])
  BY <1>3 DEF BlockInv, FlightInv
<1>5. b[1] \in 1 .. last /\ b \in (1 .. last) \X Nat
  BY <1>3, <1>4 DEF Unfinished1
<1>6. /\ tq'[t] = Tail(tq[t])
      /\ \A u \in Threads : u # t => tq'[u] = tq[u] /\ job'[u] = job[u]
      /\ job'[t] = b
  BY <1>1 DEF TypeOK
<1>7. \A i \in 1 .. Len(tq'[t]) :
        i + 1 \in 1 .. Len(tq[t]) /\ i + 1 # 1 /\ tq'[t][i] = tq[t][i + 1]
  BY <1>3, <1>6
<1>8. \A u \in Threads : \A i \in 1 .. Len(tq'[u]) :
        \E k \in 1 .. Len(tq[u]) : tq'[u][i] = tq[u][k] /\ tq[u][k] # b
  <2> SUFFICES ASSUME NEW u \in Threads, NEW i \in 1 .. Len(tq'[u])
               PROVE  \E k \in 1 .. Len(tq[u]) : tq'[u][i] = tq[u][k] /\ tq[u][k] # b
    OBVIOUS
  <2>1. CASE u = t
    BY <2>1, <1>3, <1>7 DEF BlockInv
  <2>2. CASE u # t
    BY <2>2, <1>3, <1>6 DEF BlockInv
  <2>3. QED
    BY <2>1, <2>2
<1>9. /\ t \in Procs /\ Threads \subseteq Procs
      /\ pc'[t] = "start" /\ \A x \in Procs : x # t => pc'[x] = pc[x]
      /\ \A h \in Hosts : h # t /\ h \in Procs
  BY <1>1, ConstantsAssumption DEF TypeOK, Procs
<1>10. /\ \A x \in Procs : Submitting(x)' <=> Submitting(x)
       /\ \A x \in Procs : Submitting(x) => pc'[x] = pc[x]
       /\ \A u \in Threads : Active(u)' <=> Active(u) \/ u = t
       /\ \A u \in Threads : Reporting(u)' <=> Reporting(u)
       /\ \A u \in Threads : Past(u)' <=> Past(u)
       /\ ~ Active(t) /\ ~ Reporting(t) /\ ~ Past(t)
  BY <1>1, <1>9 DEF Submitting, Active, Reporting, Past, SchedulerPC
<1>11. TypeOK'
  <2>1. /\ tq' \in [Threads -> Seq(Cmds \X Nat)]
        /\ job' \in [Threads -> (Cmds \X Nat) \cup {None}]
    BY <1>1, <1>3 DEF TypeOK
  <2>2. /\ pc' \in [Procs -> HostPC \cup WorkerPC]
        /\ \A h \in Hosts : pc'[h] \in HostPC
        /\ \A u \in Threads : pc'[u] \in WorkerPC
    BY <1>1, <1>9 DEF TypeOK, HostPC, WorkerPC
  <2>3. QED
    BY <2>1, <2>2, <1>2 DEF TypeOK
<1>12. ProcInv'
  <2>1. \A u \in Threads : pc'[u] # "idle" => job'[u] \in (1 .. last) \X Nat
    BY <1>5, <1>6, <1>9 DEF ProcInv
  <2>2. \A u \in Threads : (pc'[u] \in SchedulerPC \/ pc'[u] = "erase") =>
          caller[u] = "Done" /\ que[u] = queue[job'[u][1]]
    BY <1>6, <1>9 DEF ProcInv, SchedulerPC
  <2>3. QED
    BY <2>1, <2>2, <1>2, <1>9 DEF ProcInv
<1>13. LockInv'
  BY <1>2, <1>10, CanRunFrame DEF LockInv
<1>14. QueueInv' /\ FlyInv' /\ StatusInv' /\ CountInv'
  BY <1>2, QueueFrame, FlyFrame, StatusFrame, CountFrame
<1>15. SubmitInv'
  BY <1>1, <1>2, <1>9, <1>10, OutFrame, CanRunFrame DEF SubmitInv
<1>16. FlightInv'
  <2>1. \A x : InFlight(x)' <=> InFlight(x)
    BY <1>2, InFlightFrame
  <2>2. \A u \in Threads : \A i \in 1 .. Len(tq'[u]) : InFlight(tq'[u][i][1])
    BY <1>8 DEF FlightInv
  <2>3. \A u \in Threads : Active(u)' \/ Reporting(u)' => InFlight(job'[u][1])
    BY <1>4, <1>6, <1>10 DEF FlightInv
  <2>4. QED
    BY <2>1, <2>2, <2>3 DEF FlightInv
<1>17. BlockInv'
  <2>1. \A x : Unfinished1(x)' <=> Unfinished1(x)
    BY <1>2, Unfinished1Frame
  <2>2. \A u \in Threads : \A i \in 1 .. Len(tq'[u]) : Unfinished1(tq[u][i])'
    BY <1>8, <2>1 DEF BlockInv
  <2>3. \A u \in Threads : Active(u)' => Unfinished1(job[u])'
    BY <1>4, <1>6, <1>10, <2>1 DEF BlockInv
  <2>4. \A u, v \in Threads : \A i \in 1 .. Len(tq'[u]), j \in 1 .. Len(tq'[v]) :
          tq'[u][i] = tq'[v][j] => u = v /\ i = j
    <3> SUFFICES ASSUME NEW u \in Threads, NEW v \in Threads,
                        NEW i \in 1 .. Len(tq'[u]), NEW j \in 1 .. Len(tq'[v]),
                        tq'[u][i] = tq'[v][j]
                 PROVE  u = v /\ i = j
      OBVIOUS
    <3>5. \A k \in 1 .. Len(tq[u]), m \in 1 .. Len(tq[v]) :
            tq[u][k] = tq[v][m] => u = v /\ k = m
      BY DEF BlockInv
    <3>1. u = v
      <4>1. PICK k \in 1 .. Len(tq[u]) : tq'[u][i] = tq[u][k]
        BY <1>8
      <4>2. PICK m \in 1 .. Len(tq[v]) : tq'[v][j] = tq[v][m]
        BY <1>8
      <4>3. QED
        BY <3>5, <4>1, <4>2
    <3>2. CASE u # t
      BY <3>1, <3>2, <3>5, <1>6
    <3>3. CASE u = t
      <4>1. i + 1 \in 1 .. Len(tq[u]) /\ tq'[u][i] = tq[u][i + 1]
        BY <3>3, <1>7
      <4>2. j + 1 \in 1 .. Len(tq[v]) /\ tq'[v][j] = tq[v][j + 1]
        BY <3>1, <3>3, <1>7
      <4>3. i + 1 = j + 1
        BY <3>5, <4>1, <4>2
      <4>4. i \in Int /\ j \in Int
        OBVIOUS
      <4>5. QED
        BY <3>1, <4>3, <4>4
    <3>4. QED
      BY <3>2, <3>3
  <2>5. \A u, v \in Threads : \A i \in 1 .. Len(tq'[u]) : Active(v)' => tq'[u][i] # job'[v]
    BY <1>6, <1>8, <1>10 DEF BlockInv
  <2>6. \A u, v \in Threads : Active(u)' /\ Active(v)' /\ job'[u] = job'[v] => u = v
    BY <1>3, <1>6, <1>10 DEF BlockInv
  <2>7. QED
    BY <2>2, <2>3, <2>4, <2>5, <2>6, Zenon DEF BlockInv
<1>18. PastInv'
  <2>1. \A u \in Threads : Past(u) => job'[u] = job[u] /\ pc'[u] = pc[u]
    BY <1>6, <1>9, <1>10
  <2>2. QED
    BY <2>1, <1>2, <1>10, CanRunFrame DEF PastInv
<1>19. FreedInv'
  <2>1. \A u \in Threads : u # t => job'[u] = job[u] /\ pc'[u] = pc[u]
    BY <1>6, <1>9
  <2>2. \A u \in Threads : Past(u)' => u # t
    BY <1>10
  <2>3. ~ (pc'[t] \in SchedulerPC \/ pc'[t] = "erase")
    BY <1>9 DEF SchedulerPC
  <2>4. \A x : Out(x)' <=> Out(x)
    BY <1>2, OutFrame
  <2>5. \A u \in Threads : (pc'[u] \in SchedulerPC \/ pc'[u] = "erase") => Out(job[u][1])'
    BY <2>1, <2>3, <2>4 DEF FreedInv
  <2>6. \A x \in freed : \A u \in Threads : Past(u)' => job'[u][1] # x
    BY <2>1, <2>2, <1>10 DEF FreedInv
  <2>7. QED
    BY <2>4, <2>5, <2>6, <1>2 DEF FreedInv
<1>20. QED
  BY <1>11, <1>12, <1>13, <1>14, <1>15, <1>16, <1>17, <1>18, <1>19

(* A command with a block still at work has not completed.                 *)
LEMMA ActiveCommand ==
  ASSUME IInv, NEW t \in Threads, Active(t)
  PROVE  LET c == job[t][1] IN
         /\ c \in 1 .. last /\ c \in Cmds
         /\ shape[c] \in Shapes /\ shape[c].blocks \in Nat \ {0}
         /\ pushed[c] \in Nat /\ pushed[c] <= shape[c].blocks
         /\ job[t][2] \in 1 .. pushed[c] /\ job[t][2] \notin finished[c]
         /\ finished[c] # 1 .. shape[c].blocks
         /\ ~ HasCompleted(c)
         /\ c \notin freed
         /\ \A u \in Threads : Past(u) => job[u][1] # c
<1> USE DEF IInv
<1> DEFINE c == job[t][1]
<1>1. c \in 1 .. last /\ job[t][2] \in 1 .. pushed[c] /\ job[t][2] \notin finished[c]
  BY DEF BlockInv, Unfinished1
<1>2. c \in Cmds /\ pushed[c] \in Nat
  BY <1>1, CmdsAreEvents DEF TypeOK
<1>3. shape[c] \in Shapes /\ shape[c].blocks \in Nat \ {0}
  BY <1>1, ShapesAssumption DEF QueueInv
<1>4. pushed[c] <= shape[c].blocks
  BY <1>1 DEF SubmitInv
<1>5. finished[c] # 1 .. shape[c].blocks
  <2>1. job[t][2] \in 1 .. shape[c].blocks
    BY <1>1, <1>2, <1>3, <1>4
  <2>2. QED
    BY <1>1, <2>1
<1>6. ~ HasCompleted(c)
  BY <1>1, <1>5 DEF StatusInv, CompletionIsExact
<1>7. c \notin freed
  BY <1>5 DEF FreedInv
<1>8. \A u \in Threads : Past(u) => job[u][1] # c
  BY <1>5 DEF PastInv
<1>9. QED
  BY <1>1, <1>2, <1>3, <1>4, <1>5, <1>6, <1>7, <1>8

(* The counter reaches zero with the last block.                           *)
LEMMA CountDown ==
  ASSUME NEW n \in Nat, NEW F \in SUBSET (1 .. n), NEW b \in 1 .. n, b \notin F
  PROVE  /\ n - Cardinality(F \cup {b}) = (n - Cardinality(F)) - 1
         /\ n - Cardinality(F) = 1 <=> F \cup {b} = 1 .. n
<1>1. IsFiniteSet(1 .. n) /\ Cardinality(1 .. n) = n
  BY FS_Interval
<1>2. IsFiniteSet(F) /\ Cardinality(F) \in Nat
  BY <1>1, FS_Subset, FS_CardinalityType
<1>3. Cardinality(F \cup {b}) = Cardinality(F) + 1
  BY <1>2, FS_AddElement
<1>4. F \cup {b} \in SUBSET (1 .. n)
  OBVIOUS
<1>5. Cardinality(F \cup {b}) = n => F \cup {b} = 1 .. n
  BY <1>1, <1>4, FS_Subset
<1>6. F \cup {b} = 1 .. n => Cardinality(F \cup {b}) = n
  BY <1>1
<1>7. PICK m \in Nat : m = Cardinality(F)
  BY <1>2
<1>8. /\ n - (m + 1) = (n - m) - 1
      /\ n - m = 1 <=> m + 1 = n
  OBVIOUS
<1>9. QED
  BY <1>3, <1>5, <1>6, <1>7, <1>8

LEMMA NotifyCompletionInv ==
  ASSUME IInv, NEW t \in Threads, NotifyCompletion(t)
  PROVE  IInv'
<1> USE DEF IInv
<1>1. PICK b, c, k, l :
        /\ b = job[t] /\ c = b[1] /\ k = b[2] /\ l \in BOOLEAN
        /\ l <=> waitCount[c] = 1
        /\ pc[t] = "exec"
        /\ errors' = [errors EXCEPT ![c] = @ \/ shape[c].bad]
        /\ waitCount' = [waitCount EXCEPT ![c] = @ - 1]
        /\ finished' = [finished EXCEPT ![c] = @ \cup {k}]
        /\ pc' = [pc EXCEPT ![t] = IF l THEN "complete" ELSE "idle"]
        /\ job' = [job EXCEPT ![t] = IF l THEN @ ELSE None]
  <2>1. PICK l : l = (waitCount[job[t][1]] = 1)
    OBVIOUS
  <2>2. QED
    BY <2>1 DEF NotifyCompletion, IsLastBlock
<1>2. UNCHANGED <<status, last, shape, queue, waits, commands, pending, onFly,
        lock, pushed, started, tq, freed, caller, que, mine, wset, seen>>
  BY DEF NotifyCompletion, cmdVars, queueVars, hostVars
<1>3. Active(t) /\ ~ Past(t)
  BY <1>1 DEF Active, Past, Reporting, SchedulerPC
<1>4. /\ c \in 1 .. last /\ c \in Cmds
      /\ shape[c] \in Shapes /\ shape[c].blocks \in Nat \ {0}
      /\ pushed[c] \in Nat /\ pushed[c] <= shape[c].blocks
      /\ k \in 1 .. pushed[c] /\ k \notin finished[c]
      /\ finished[c] # 1 .. shape[c].blocks
      /\ ~ HasCompleted(c)
      /\ c \notin freed
      /\ \A u \in Threads : Past(u) => job[u][1] # c
  BY <1>1, <1>3, ActiveCommand
<1>5. b = <<c, k>> /\ b \in (1 .. last) \X Nat /\ k \in Nat
  <2>1. b \in (1 .. last) \X Nat
    BY <1>1 DEF ProcInv
  <2>2. QED
    BY <2>1, <1>1
<1>6. /\ errors'[c] = (errors[c] \/ shape[c].bad)
      /\ waitCount'[c] = waitCount[c] - 1
      /\ finished'[c] = finished[c] \cup {k}
      /\ \A d \in Cmds : d # c => /\ errors'[d] = errors[d]
                                  /\ waitCount'[d] = waitCount[d]
                                  /\ finished'[d] = finished[d]
  <2>1. errors'[c] = (errors[c] \/ shape[c].bad) /\ \A d \in Cmds : d # c => errors'[d] = errors[d]
    BY <1>1, <1>4 DEF TypeOK
  <2>2. waitCount'[c] = waitCount[c] - 1 /\ \A d \in Cmds : d # c => waitCount'[d] = waitCount[d]
    BY <1>1, <1>4 DEF TypeOK
  <2>3. /\ finished'[c] = finished[c] \cup {k}
        /\ \A d \in Cmds : d # c => finished'[d] = finished[d]
    BY <1>1, <1>4 DEF TypeOK
  <2>4. QED
    BY <2>1, <2>2, <2>3
<1>7. /\ waitCount'[c] = shape[c].blocks - Cardinality(finished'[c])
      /\ l <=> finished'[c] = 1 .. shape[c].blocks
      /\ finished'[c] \subseteq 1 .. pushed[c]
  <2>1. finished[c] \subseteq 1 .. pushed[c]
    BY <1>4 DEF CountInv
  <2>2. finished[c] \in SUBSET (1 .. shape[c].blocks) /\ k \in 1 .. shape[c].blocks
    BY <2>1, <1>4
  <2>3. waitCount[c] = shape[c].blocks - Cardinality(finished[c])
    BY <1>4 DEF CountInv
  <2>4. /\ shape[c].blocks - Cardinality(finished[c] \cup {k})
             = (shape[c].blocks - Cardinality(finished[c])) - 1
        /\ shape[c].blocks - Cardinality(finished[c]) = 1
             <=> finished[c] \cup {k} = 1 .. shape[c].blocks
    BY <2>2, <1>4, CountDown
  <2>5. QED
    BY <2>1, <2>3, <2>4, <1>1, <1>4, <1>6
<1>8. /\ t \in Procs /\ Threads \subseteq Procs
      /\ pc'[t] = IF l THEN "complete" ELSE "idle"
      /\ job'[t] = IF l THEN b ELSE None
      /\ \A x \in Procs : x # t => pc'[x] = pc[x]
      /\ \A u \in Threads : u # t => job'[u] = job[u]
      /\ \A h \in Hosts : h # t /\ h \in Procs
  BY <1>1, ConstantsAssumption DEF TypeOK, Procs
<1>9. /\ \A x \in Procs : Submitting(x)' <=> Submitting(x)
      /\ \A x \in Procs : Submitting(x) => pc'[x] = pc[x]
      /\ \A u \in Threads : Active(u)' <=> Active(u) /\ u # t
      /\ \A u \in Threads : Reporting(u)' <=> Reporting(u) \/ (u = t /\ l)
      /\ \A u \in Threads : Past(u)' <=> Past(u) \/ (u = t /\ l)
  BY <1>1, <1>8 DEF Submitting, Active, Reporting, Past, SchedulerPC
<1>10. TypeOK'
  <2>1. errors' \in [Cmds -> BOOLEAN]
    <3>1. errors \in [Cmds -> BOOLEAN] /\ shape[c].bad \in BOOLEAN
      BY <1>4, ShapesAssumption DEF TypeOK
    <3>2. QED
      BY <3>1, <1>1, Zenon
  <2>2. waitCount' \in [Cmds -> Int]
    <3>1. waitCount \in [Cmds -> Int]
      BY DEF TypeOK
    <3>2. waitCount[c] - 1 \in Int
      BY <3>1, <1>4
    <3>3. QED
      BY <3>1, <3>2, <1>1
  <2>3. finished' \in [Cmds -> SUBSET Nat]
    BY <1>1, <1>5 DEF TypeOK
  <2>4. job' \in [Threads -> (Cmds \X Nat) \cup {None}]
    BY <1>1 DEF TypeOK
  <2>5. /\ pc' \in [Procs -> HostPC \cup WorkerPC]
        /\ \A h \in Hosts : pc'[h] \in HostPC
        /\ \A u \in Threads : pc'[u] \in WorkerPC
    BY <1>1, <1>8 DEF TypeOK, HostPC, WorkerPC
  <2>6. QED
    BY <2>1, <2>2, <2>3, <2>4, <2>5, <1>2 DEF TypeOK
<1>11. ProcInv'
  <2>1. \A u \in Threads : pc'[u] # "idle" => job'[u] \in (1 .. last) \X Nat
    BY <1>5, <1>8 DEF ProcInv
  <2>2. \A u \in Threads : (pc'[u] \in SchedulerPC \/ pc'[u] = "erase") =>
          caller[u] = "Done" /\ que[u] = queue[job'[u][1]]
    BY <1>8 DEF ProcInv, SchedulerPC
  <2>3. QED
    BY <2>1, <2>2, <1>2, <1>8 DEF ProcInv
<1>12. LockInv'
  BY <1>2, <1>9, CanRunFrame DEF LockInv
<1>13. QueueInv' /\ FlyInv'
  BY <1>2, QueueFrame, FlyFrame
<1>14. CountInv'
  <2>1. 1 .. last \subseteq Cmds
    BY CmdsAreEvents
  <2>2. QED
    BY <2>1, <1>2, <1>6, <1>7 DEF CountInv
<1>15. StatusInv'
  <2>1. 1 .. last \subseteq Cmds /\ \A d \in 1 .. last : HasCompleted(d) => d # c
    BY <1>4, CmdsAreEvents
  <2>2. CompletionIsExact'
    BY <2>1, <1>2, <1>6 DEF StatusInv, CompletionIsExact, HasCompleted
  <2>3. \A d \in Cmds : d > last => ~ errors'[d]
    <3>1. \A d \in Cmds : d > last => d # c
      BY <1>4, CmdsAreEvents
    <3>2. QED
      BY <3>1, <1>6 DEF StatusInv
  <2>4. \A d \in 1 .. last : errors'[d] => shape[d].bad
    BY <2>1, <1>6 DEF StatusInv
  <2>5. \A d \in 1 .. last : finished'[d] # {} /\ shape[d].bad => errors'[d]
    BY <2>1, <1>6 DEF StatusInv
  <2>6. QED
    BY <2>2, <2>3, <2>4, <2>5, <1>2 DEF StatusInv
<1>16. SubmitInv'
  BY <1>1, <1>2, <1>8, <1>9, OutFrame, CanRunFrame DEF SubmitInv
<1>17. FlightInv'
  <2>1. \A x : InFlight(x)' <=> InFlight(x)
    BY <1>2, InFlightFrame
  <2>2. \A u \in Threads : Active(u)' \/ Reporting(u)' => InFlight(job[u][1])'
    <3> SUFFICES ASSUME NEW u \in Threads, Active(u)' \/ Reporting(u)'
                 PROVE  InFlight(job[u][1])'
      OBVIOUS
    <3>1. Active(u) \/ Reporting(u)
      BY <1>3, <1>9
    <3>2. job'[u] = job[u]
      <4>1. u = t => l
        BY <1>3, <1>9 DEF Reporting, Past
      <4>2. QED
        BY <4>1, <1>1, <1>8
    <3>3. PICK x : x = job[u][1]
      OBVIOUS
    <3>4. InFlight(x)'
      BY <2>1, <3>1, <3>3 DEF FlightInv
    <3>5. QED
      BY <3>2, <3>3, <3>4 DEF InFlight
  <2>3. QED
    BY <2>1, <2>2, <1>2 DEF FlightInv
<1>18. BlockInv'
  <2>1. \A x : Unfinished1(x) /\ x # b /\ x \in Cmds \X Nat => Unfinished1(x)'
    <3> SUFFICES ASSUME NEW x, Unfinished1(x), x # b, x \in Cmds \X Nat
                 PROVE  x[2] \notin finished'[x[1]]
      BY <1>2 DEF Unfinished1
    <3>1. CASE x[1] # c
      BY <3>1, <1>6 DEF Unfinished1
    <3>2. CASE x[1] = c
      <4>1. x[2] # k
        BY <3>2, <1>5
      <4>2. QED
        BY <3>2, <4>1, <1>6 DEF Unfinished1
    <3>3. QED
      BY <3>1, <3>2
  <2>2. \A u \in Threads : \A i \in 1 .. Len(tq[u]) : Unfinished1(tq[u][i])'
    <3> SUFFICES ASSUME NEW u \in Threads, NEW i \in 1 .. Len(tq[u])
                 PROVE  Unfinished1(tq[u][i])'
      OBVIOUS
    <3>1. tq[u] \in Seq(Cmds \X Nat)
      BY DEF TypeOK
    <3>2. tq[u][i] \in Cmds \X Nat
      BY <3>1
    <3>3. Unfinished1(tq[u][i]) /\ tq[u][i] # b
      BY <1>1, <1>3 DEF BlockInv
    <3>4. PICK x : x = tq[u][i]
      OBVIOUS
    <3>5. Unfinished1(x)'
      BY <2>1, <3>2, <3>3, <3>4
    <3>6. QED
      BY <3>4, <3>5, <1>2 DEF Unfinished1
  <2>3. \A u \in Threads : Active(u)' => Unfinished1(job[u])'
    <3> SUFFICES ASSUME NEW u \in Threads, Active(u)'
                 PROVE  Unfinished1(job[u])'
      OBVIOUS
    <3>1. Active(u) /\ u # t /\ job'[u] = job[u]
      BY <1>8, <1>9
    <3>2. Unfinished1(job[u]) /\ job[u] # b
      BY <3>1, <1>1, <1>3 DEF BlockInv
    <3>3. job[u] \in Cmds \X Nat
      <4>1. job[u] \in (1 .. last) \X Nat
        BY <3>1 DEF ProcInv, Active
      <4>2. QED
        BY <4>1, CmdsAreEvents
    <3>4. PICK x : x = job[u]
      OBVIOUS
    <3>5. Unfinished1(x)'
      BY <2>1, <3>2, <3>3, <3>4
    <3>6. QED
      BY <3>1, <3>4, <3>5 DEF Unfinished1
  <2>4. \A u \in Threads : Active(u)' => Active(u) /\ job'[u] = job[u]
    BY <1>8, <1>9
  <2>5. \A u, v \in Threads : \A i \in 1 .. Len(tq[u]) : Active(v)' => tq[u][i] # job'[v]
    BY <2>4 DEF BlockInv
  <2>6. \A u, v \in Threads : Active(u)' /\ Active(v)' /\ job'[u] = job'[v] => u = v
    BY <2>4 DEF BlockInv
  <2>7. QED
    BY <2>2, <2>3, <2>5, <2>6, <1>2 DEF BlockInv
<1>19. PastInv'
  <2>1. \A u \in Threads : Past(u) => /\ job'[u] = job[u] /\ pc'[u] = pc[u]
                                      /\ finished'[job[u][1]] = finished[job[u][1]]
    <3>1. \A u \in Threads : Past(u) => job[u][1] \in Cmds /\ job[u][1] # c /\ u # t
      BY <1>3, <1>4, CmdsAreEvents DEF Past, Reporting, SchedulerPC, ProcInv
    <3>2. QED
      BY <3>1, <1>6, <1>8
  <2>2. l => /\ finished'[job'[t][1]] = 1 .. shape[job'[t][1]].blocks
             /\ job'[t][1] = c /\ pc'[t] = "complete"
    BY <1>1, <1>7, <1>8
  <2>3. \A u \in Threads : Past(u)' => finished'[job'[u][1]] = 1 .. shape[job'[u][1]].blocks
    BY <2>1, <2>2, <1>9 DEF PastInv
  <2>4. \A u, v \in Threads : Past(u)' /\ Past(v)' /\ job'[u][1] = job'[v][1] => u = v
    BY <2>1, <2>2, <1>4, <1>9 DEF PastInv
  <2>5. \A u \in Threads : Past(u)' => (pc'[u] = "complete" <=> ~ HasCompleted(job[u][1])')
    <3> SUFFICES ASSUME NEW u \in Threads, Past(u)'
                 PROVE  pc'[u] = "complete" <=> ~ HasCompleted(job[u][1])'
      OBVIOUS
    <3>1. pc'[u] = "complete" <=> ~ HasCompleted(job'[u][1])
      BY <2>1, <2>2, <1>4, <1>9 DEF PastInv
    <3>2. QED
      BY <3>1, <1>2 DEF HasCompleted
  <2>6. QED
    BY <2>3, <2>4, <2>5, <1>2 DEF PastInv
<1>20. FreedInv'
  <2>1. \A x : Out(x)' <=> Out(x)
    BY <1>2, OutFrame
  <2>2. \A u \in Threads : (pc'[u] \in SchedulerPC \/ pc'[u] = "erase") =>
          pc'[u] = pc[u] /\ job'[u] = job[u]
    BY <1>8 DEF SchedulerPC
  <2>3. \A u \in Threads : (pc'[u] \in SchedulerPC \/ pc'[u] = "erase") => Out(job[u][1])'
    BY <2>1, <2>2 DEF FreedInv
  <2>4. \A d \in freed : d # c /\ finished'[d] = finished[d]
    BY <1>4, <1>6 DEF TypeOK
  <2>5. \A d \in freed : \A u \in Threads : Past(u)' => job'[u][1] # d
    <3> SUFFICES ASSUME NEW d \in freed, NEW u \in Threads, Past(u)'
                 PROVE  job'[u][1] # d
      OBVIOUS
    <3>1. CASE u = t
      BY <3>1, <2>4, <1>1, <1>3, <1>8, <1>9
    <3>2. CASE u # t
      BY <3>2, <1>8, <1>9 DEF FreedInv
    <3>3. QED
      BY <3>1, <3>2
  <2>6. QED
    BY <2>1, <2>3, <2>4, <2>5, <1>2 DEF FreedInv
<1>21. QED
  BY <1>10, <1>11, <1>12, <1>13, <1>14, <1>15, <1>16, <1>17, <1>18, <1>19, <1>20

LEMMA MarkCompletedInv ==
  ASSUME IInv, NEW t \in Threads, MarkCompleted(t)
  PROVE  IInv'
<1> USE DEF IInv
<1>1. PICK c, s : /\ c = job[t][1] /\ s = (IF errors[c] THEN FAILED ELSE COMPLETE)
                  /\ pc[t] = "complete"
                  /\ status' = Signal(c, s)
                  /\ pc' = [pc EXCEPT ![t] = "done"]
  BY DEF MarkCompleted
<1>2. UNCHANGED <<last, shape, queue, waits, commands, pending, onFly,
        lock, pushed, started, waitCount, errors, tq, finished, freed,
        caller, que, job, mine, wset, seen>>
  BY DEF MarkCompleted, cmdVars, queueVars, blockVars, hostVars
<1>3. /\ t \in Procs /\ Threads \subseteq Procs
      /\ pc'[t] = "done" /\ \A x \in Procs : x # t => pc'[x] = pc[x]
      /\ \A h \in Hosts : h # t /\ h \in Procs
  BY <1>1, ConstantsAssumption DEF TypeOK, Procs
<1>4. /\ \A x \in Procs : Submitting(x)' <=> Submitting(x)
      /\ \A x \in Procs : Submitting(x) => pc'[x] = pc[x]
      /\ \A u \in Threads : Active(u)' <=> Active(u)
      /\ \A u \in Threads : Reporting(u)' <=> Reporting(u)
      /\ \A u \in Threads : Past(u)' <=> Past(u)
      /\ Past(t)
  BY <1>1, <1>3 DEF Submitting, Active, Reporting, Past, SchedulerPC
<1>5. /\ c \in 1 .. last /\ c \in Events /\ 1 .. last \subseteq Events
      /\ 1 .. last \subseteq Cmds /\ Cmds \subseteq Events
  BY <1>1, CmdsAreEvents DEF ProcInv
<1>6. ~ HasCompleted(c) /\ finished[c] = 1 .. shape[c].blocks
  BY <1>1, <1>4 DEF PastInv
<1>7. s \in FAILED .. SUBMITTED /\ s <= COMPLETE
  BY <1>1 DEF FAILED, SUBMITTED, COMPLETE
<1>8. /\ status' \in [Events -> FAILED .. NoEvent]
      /\ status'[c] = IF status[c] > s THEN s ELSE status[c]
      /\ \A x \in Events : x # c => status'[x] = status[x]
      /\ \A x \in Events : status[x] # NoEvent => status'[x] # NoEvent
      /\ \A x \in Events : HasCompleted(x) => status'[x] <= COMPLETE
  BY <1>1, <1>5, <1>7, SignalFacts
<1>9. status'[c] = s
  <2>1. status[c] \in FAILED .. NoEvent /\ ~ (status[c] <= COMPLETE)
    BY <1>5, <1>6 DEF TypeOK, HasCompleted
  <2>2. status[c] > s
    BY <2>1, <1>7 DEF FAILED, COMPLETE, NoEvent, SUBMITTED
  <2>3. QED
    BY <2>2, <1>8
<1>10. /\ \A x \in Events : HasCompleted(x) => HasCompleted(x)'
       /\ HasCompleted(c)'
       /\ \A x \in Events : x # c => (HasCompleted(x)' <=> HasCompleted(x))
  BY <1>7, <1>8, <1>9 DEF HasCompleted
<1>11. \A d \in Cmds : CanRun(d) => CanRun(d)'
  <2>1. \A d \in Cmds : waits[d] \subseteq Events
    BY CmdsAreEvents
  <2>2. QED
    BY <2>1, <1>2, <1>10 DEF CanRun
<1>12. TypeOK'
  <2>1. /\ pc' \in [Procs -> HostPC \cup WorkerPC]
        /\ \A h \in Hosts : pc'[h] \in HostPC
        /\ \A u \in Threads : pc'[u] \in WorkerPC
    BY <1>1, <1>3 DEF TypeOK, HostPC, WorkerPC
  <2>2. QED
    BY <2>1, <1>2, <1>8 DEF TypeOK
<1>13. ProcInv'
  BY <1>1, <1>2, <1>3 DEF ProcInv, SchedulerPC
<1>14. LockInv'
  <2>1. \A x \in Procs : Submitting(x) => Head(commands[que[x]]) \in Cmds
    <3> SUFFICES ASSUME NEW x \in Procs, Submitting(x)
                 PROVE  Head(commands[que[x]]) \in Cmds
      OBVIOUS
    <3>1. que[x] \in Queues /\ commands[que[x]] # <<>>
      BY SchedulerQueue DEF Submitting, SchedulerPC, LockInv
    <3>2. QED
      BY <3>1, FrontCommand
  <2>2. \A x \in Procs : Submitting(x) => CanRun(Head(commands[que[x]]))'
    <3> SUFFICES ASSUME NEW x \in Procs, Submitting(x)
                 PROVE  CanRun(Head(commands[que[x]]))'
      OBVIOUS
    <3>1. PICK d \in Cmds : d = Head(commands[que[x]])
      BY <2>1
    <3>2. CanRun(d)'
      BY <3>1, <1>11 DEF LockInv
    <3>3. QED
      BY <3>1, <3>2, <1>2 DEF CanRun
  <2>3. QED
    BY <2>2, <1>2, <1>4 DEF LockInv
<1>15. QueueInv'
  <2>1. \A d \in 1 .. last : status'[d] # NoEvent
    BY <1>5, <1>8 DEF QueueInv
  <2>2. \A d \in Cmds : d > last => status'[d] = NoEvent
    <3>1. \A d \in Cmds : d > last => d # c /\ d \in Events
      BY <1>5, CmdsAreEvents
    <3>2. QED
      BY <3>1, <1>8 DEF QueueInv
  <2>3. \A x : Out(x)' <=> Out(x)
    BY <1>2, OutFrame
  <2>4. QED
    BY <2>1, <2>2, <2>3, <1>2 DEF QueueInv
<1>16. SubmitInv'
  <2>1. \A x : Out(x)' <=> Out(x)
    BY <1>2, OutFrame
  <2>2. \A d \in 1 .. last : pushed[d] > 0 => CanRun(d)'
    BY <1>5, <1>11 DEF SubmitInv
  <2>3. \A d \in 1 .. last : pushed[d] > 0 /\ ~ Out(d)' =>
          \E x \in Procs : /\ Submitting(x)'
                           /\ que[x] = queue[d]
                           /\ d = Head(commands[que[x]])
    BY <2>1, <1>4 DEF SubmitInv
  <2>4. /\ \A x \in Procs : pc'[x] = "submit" => pc[x] = "submit"
        /\ \A x \in Procs : pc'[x] \in {"mark", "commit"} => pc[x] \in {"mark", "commit"}
    BY <1>3
  <2>5. QED
    BY <2>1, <2>2, <2>3, <2>4, <1>2 DEF SubmitInv
<1>17. FlyInv'
  <2>1. \A x : Out(x)' <=> Out(x)
    BY <1>2, OutFrame
  <2>2. \A d \in 1 .. last : HasCompleted(d) => HasCompleted(d)'
    BY <1>5, <1>10
  <2>3. QED
    BY <2>1, <2>2, <1>2 DEF FlyInv
<1>18. FlightInv'
  BY <1>2, <1>4, InFlightFrame DEF FlightInv
<1>19. BlockInv'
  BY <1>2, <1>4, Unfinished1Frame DEF BlockInv
<1>20. CountInv'
  BY <1>2, CountFrame
<1>21. PastInv'
  <2>1. \A u \in Threads : Past(u) /\ u # t =>
          (pc'[u] = "complete" <=> ~ HasCompleted(job[u][1])')
    <3> SUFFICES ASSUME NEW u \in Threads, Past(u), u # t
                 PROVE  pc'[u] = "complete" <=> ~ HasCompleted(job[u][1])'
      OBVIOUS
    <3>1. PICK d : d = job[u][1]
      OBVIOUS
    <3>2. d # c /\ d \in Events
      BY <3>1, <1>1, <1>4, <1>5 DEF PastInv, ProcInv, Past, Reporting, SchedulerPC
    <3>3. pc'[u] = "complete" <=> ~ HasCompleted(d)'
      BY <3>1, <3>2, <1>3, <1>10 DEF PastInv
    <3>4. QED
      BY <3>1, <3>3, <1>2 DEF HasCompleted
  <2>2. pc'[t] # "complete" /\ HasCompleted(job[t][1])'
    BY <1>1, <1>2, <1>3, <1>10 DEF HasCompleted
  <2>3. \A u \in Threads : Past(u)' => (pc'[u] = "complete" <=> ~ HasCompleted(job[u][1])')
    BY <2>1, <2>2, <1>4
  <2>4. QED
    BY <2>3, <1>2, <1>4 DEF PastInv
<1>22. StatusInv'
  <2>1. errors[c] <=> shape[c].bad
    <3>1. shape[c].blocks \in Nat \ {0}
      BY <1>5, ShapesAssumption DEF QueueInv
    <3>2. finished[c] # {}
      BY <3>1, <1>6
    <3>3. QED
      BY <3>2, <1>5 DEF StatusInv
  <2>2. status'[c] = FAILED <=> shape[c].bad
    BY <2>1, <1>1, <1>9 DEF FAILED, COMPLETE
  <2>3. \A d \in 1 .. last : HasCompleted(d)' =>
          /\ finished[d] = 1 .. shape[d].blocks
          /\ status'[d] = FAILED <=> shape[d].bad
    <3> SUFFICES ASSUME NEW d \in 1 .. last, HasCompleted(d)'
                 PROVE  /\ finished[d] = 1 .. shape[d].blocks
                        /\ status'[d] = FAILED <=> shape[d].bad
      OBVIOUS
    <3>1. CASE d = c
      BY <3>1, <2>2, <1>6
    <3>2. CASE d # c
      BY <3>2, <1>5, <1>8, <1>10 DEF StatusInv, CompletionIsExact
    <3>3. QED
      BY <3>1, <3>2
  <2>4. QED
    BY <2>3, <1>2 DEF StatusInv, CompletionIsExact
<1>23. FreedInv'
  BY <1>1, <1>2, <1>3, <1>4, OutFrame DEF FreedInv, SchedulerPC
<1>24. QED
  BY <1>12, <1>13, <1>14, <1>15, <1>16, <1>17, <1>18, <1>19, <1>20, <1>21, <1>22, <1>23

LEMMA CommandDoneInv ==
  ASSUME IInv, NEW t \in Threads, CommandDone(t)
  PROVE  IInv'
<1> USE DEF IInv
<1>1. PICK c, q : /\ c = job[t][1] /\ q = queue[c]
                  /\ pc[t] = "done" /\ lock[q] = None
                  /\ onFly' = [onFly EXCEPT ![q] = FALSE]
                  /\ que' = [que EXCEPT ![t] = q]
                  /\ caller' = [caller EXCEPT ![t] = "Done"]
                  /\ pc' = [pc EXCEPT ![t] = "sched"]
  BY DEF CommandDone
<1>2. UNCHANGED <<status, last, shape, queue, waits, commands, pending,
        lock, pushed, started, waitCount, errors, tq, finished, freed,
        job, mine, wset, seen>>
  BY DEF CommandDone, cmdVars, blockVars, hostVars
<1>3. /\ t \in Procs /\ Threads \subseteq Procs
      /\ pc'[t] = "sched" /\ que'[t] = q /\ caller'[t] = "Done"
      /\ \A x \in Procs : x # t => pc'[x] = pc[x] /\ que'[x] = que[x] /\ caller'[x] = caller[x]
      /\ \A h \in Hosts : h # t /\ h \in Procs
  BY <1>1, ConstantsAssumption DEF TypeOK, Procs
<1>4. /\ \A x \in Procs : Submitting(x)' <=> Submitting(x)
      /\ \A x \in Procs : Submitting(x) => pc'[x] = pc[x] /\ que'[x] = que[x]
      /\ \A u \in Threads : Active(u)' <=> Active(u)
      /\ \A u \in Threads : Reporting(u)' <=> Reporting(u) /\ u # t
      /\ \A u \in Threads : Past(u)' <=> Past(u)
      /\ Past(t) /\ Reporting(t)
  BY <1>1, <1>3 DEF Submitting, Active, Reporting, Past, SchedulerPC
<1>5. /\ c \in 1 .. last /\ q \in Queues
      /\ onFly'[q] = FALSE /\ \A x \in Queues : x # q => onFly'[x] = onFly[x]
  <2>1. c \in 1 .. last
    BY <1>1 DEF ProcInv
  <2>2. q \in Queues
    BY <2>1, <1>1 DEF QueueInv
  <2>3. QED
    BY <2>1, <2>2, <1>1 DEF TypeOK
<1>6. finished[c] = 1 .. shape[c].blocks /\ HasCompleted(c)
  BY <1>1, <1>4 DEF PastInv
<1>7. pushed[c] > 0
  <2>1. shape[c].blocks \in Nat \ {0} /\ pushed[c] \in Nat
    BY <1>5, BlockCounts
  <2>2. finished[c] \subseteq 1 .. pushed[c]
    BY <1>5, CmdsAreEvents DEF CountInv
  <2>3. 1 \in finished[c]
    BY <2>1, <1>6
  <2>4. 1 \in 1 .. pushed[c]
    BY <2>2, <2>3
  <2>5. QED
    BY <2>1, <2>4
<1>8. Out(c)
  BY <1>1, <1>5, <1>7, FreeLock
<1>9. \A d \in 1 .. last : Out(d) /\ queue[d] = q => d <= c
  BY <1>1, <1>4, <1>8 DEF FlightInv, InFlight
<1>10. \A x : Out(x)' <=> Out(x)
  BY <1>2, OutFrame
<1>11. /\ \A x : CanRun(x)' <=> CanRun(x)
       /\ \A x : HasCompleted(x)' <=> HasCompleted(x)
  BY <1>2, CanRunFrame
<1>12. TypeOK'
  <2>1. /\ pc' \in [Procs -> HostPC \cup WorkerPC]
        /\ \A h \in Hosts : pc'[h] \in HostPC
        /\ \A u \in Threads : pc'[u] \in WorkerPC
    BY <1>1, <1>3 DEF TypeOK, HostPC, WorkerPC, SchedulerPC
  <2>2. /\ onFly' \in [Queues -> BOOLEAN]
        /\ que' \in [Procs -> Queues \cup {None}]
        /\ caller' \in [Procs -> {"Enqueue", "Flush", "Finish", "Done", None}]
    BY <1>1, <1>5 DEF TypeOK
  <2>3. QED
    BY <2>1, <2>2, <1>2 DEF TypeOK
<1>13. ProcInv'
  <2>1. \A u \in Threads : pc'[u] # "idle" => job[u] \in (1 .. last) \X Nat
    BY <1>1, <1>3 DEF ProcInv
  <2>2. \A u \in Threads : (pc'[u] \in SchedulerPC \/ pc'[u] = "erase") =>
          caller'[u] = "Done" /\ que'[u] = queue[job[u][1]]
    BY <1>1, <1>3 DEF ProcInv
  <2>3. QED
    BY <2>1, <2>2, <1>2, <1>3 DEF ProcInv
<1>14. \A x \in Procs : Submitting(x) => que[x] # q /\ que[x] \in Queues
  BY <1>1, <1>5, FreeLock, SchedulerQueue DEF Submitting, SchedulerPC
<1>15. LockInv'
  BY <1>2, <1>4, <1>5, <1>11, <1>14 DEF LockInv
<1>16. QueueInv' /\ StatusInv' /\ CountInv'
  BY <1>2, QueueFrame, StatusFrame, CountFrame
<1>17. SubmitInv'
  <2>1. /\ \A x \in Procs : pc'[x] = "submit" => pc[x] = "submit" /\ que'[x] = que[x]
        /\ \A x \in Procs : pc'[x] \in {"mark", "commit"} =>
             pc[x] \in {"mark", "commit"} /\ que'[x] = que[x]
    BY <1>3
  <2>2. \A d \in 1 .. last : pushed[d] > 0 /\ ~ Out(d)' =>
          \E x \in Procs : /\ Submitting(x)'
                           /\ que'[x] = queue[d]
                           /\ d = Head(commands[que'[x]])
    BY <1>4, <1>10 DEF SubmitInv
  <2>3. QED
    BY <2>1, <2>2, <1>2, <1>10, <1>11 DEF SubmitInv
<1>18. FlyInv'
  <2>1. \A d \in 1 .. last : Out(d) /\ queue[d] = q => HasCompleted(d)
    <3> SUFFICES ASSUME NEW d \in 1 .. last, Out(d), queue[d] = q
                 PROVE  HasCompleted(d)
      OBVIOUS
    <3>1. d = c \/ d < c
      BY <1>5, <1>9
    <3>2. QED
      BY <3>1, <1>1, <1>5, <1>6, <1>8 DEF FlyInv
  <2>2. \A d \in 1 .. last : Out(d) /\ ~ onFly'[queue[d]] => HasCompleted(d)
    BY <2>1, <1>5 DEF FlyInv, QueueInv
  <2>3. QED
    BY <2>2, <1>2, <1>10, <1>11 DEF FlyInv
<1>19. \A d \in 1 .. last : InFlight(d) /\ d # c => InFlight(d)'
  <2> SUFFICES ASSUME NEW d \in 1 .. last, InFlight(d), d # c, Out(d)
               PROVE  /\ onFly'[queue[d]]
                      /\ \A e \in 1 .. last : Out(e) /\ queue[e] = queue[d] => e <= d
    BY <1>2, <1>10 DEF InFlight
  <2>1. \A e \in 1 .. last : Out(e) /\ queue[e] = queue[d] => e <= d
    BY DEF InFlight
  <2>2. queue[d] # q
    <3>1. SUFFICES ASSUME queue[d] = q PROVE FALSE
      OBVIOUS
    <3>2. c <= d /\ d <= c
      BY <3>1, <2>1, <1>1, <1>5, <1>8, <1>9
    <3>3. QED
      BY <3>2, <1>5
  <2>3. queue[d] \in Queues
    BY DEF QueueInv
  <2>4. QED
    BY <2>1, <2>2, <2>3, <1>5 DEF InFlight
<1>20. \A b : Unfinished1(b) => b[1] # c /\ b[1] \in 1 .. last
  <2> SUFFICES ASSUME NEW b, Unfinished1(b), b[1] = c PROVE FALSE
    BY DEF Unfinished1
  <2>1. b[2] \in 1 .. pushed[c] /\ b[2] \notin finished[c]
    BY DEF Unfinished1
  <2>2. pushed[c] <= shape[c].blocks /\ pushed[c] \in Nat /\ shape[c].blocks \in Nat
    BY <1>5, BlockCounts
  <2>3. b[2] \in 1 .. shape[c].blocks
    BY <2>1, <2>2
  <2>4. QED
    BY <2>1, <2>3, <1>6
<1>21. FlightInv'
  <2>1. \A u \in Threads : \A i \in 1 .. Len(tq[u]) : InFlight(tq[u][i][1])'
    <3> SUFFICES ASSUME NEW u \in Threads, NEW i \in 1 .. Len(tq[u])
                 PROVE  InFlight(tq[u][i][1])'
      OBVIOUS
    <3>1. PICK d : d = tq[u][i][1]
      OBVIOUS
    <3>2. d \in 1 .. last /\ d # c /\ InFlight(d)
      BY <3>1, <1>20 DEF FlightInv, BlockInv
    <3>3. InFlight(d)'
      BY <3>2, <1>19
    <3>4. QED
      BY <3>1, <3>3, <1>2 DEF InFlight
  <2>2. \A u \in Threads : Active(u)' \/ Reporting(u)' => InFlight(job[u][1])'
    <3> SUFFICES ASSUME NEW u \in Threads, Active(u)' \/ Reporting(u)'
                 PROVE  InFlight(job[u][1])'
      OBVIOUS
    <3>1. PICK d : d = job[u][1]
      OBVIOUS
    <3>2. InFlight(d)
      BY <3>1, <1>4 DEF FlightInv
    <3>3. d # c /\ d \in 1 .. last
      <4>1. CASE Active(u)
        BY <4>1, <3>1, <1>20 DEF BlockInv
      <4>2. CASE Reporting(u) /\ u # t
        BY <4>2, <3>1, <1>1, <1>4 DEF PastInv, ProcInv, Past, Reporting
      <4>3. QED
        BY <4>1, <4>2, <1>4
    <3>4. InFlight(d)'
      BY <3>2, <3>3, <1>19
    <3>5. QED
      BY <3>1, <3>4, <1>2 DEF InFlight
  <2>3. QED
    BY <2>1, <2>2, <1>2 DEF FlightInv
<1>22. BlockInv'
  BY <1>2, <1>4, Unfinished1Frame DEF BlockInv
<1>23. PastInv'
  <2>1. \A u \in Threads : Past(u)' => (pc'[u] = "complete" <=> ~ HasCompleted(job[u][1]))
    BY <1>1, <1>3, <1>4, <1>6 DEF PastInv
  <2>2. QED
    BY <2>1, <1>2, <1>4, <1>11 DEF PastInv
<1>24. FreedInv'
  <2>1. \A u \in Threads : (pc'[u] \in SchedulerPC \/ pc'[u] = "erase") => Out(job[u][1])
    BY <1>1, <1>3, <1>8 DEF FreedInv
  <2>2. QED
    BY <2>1, <1>2, <1>4, <1>10 DEF FreedInv
<1>25. QED
  BY <1>12, <1>13, <1>15, <1>16, <1>17, <1>18, <1>21, <1>22, <1>23, <1>24

LEMMA CommandEraseInv ==
  ASSUME IInv, NEW t \in Threads, CommandErase(t)
  PROVE  IInv'
<1> USE DEF IInv
<1>1. PICK c, q : /\ c = job[t][1] /\ q = que[t]
                  /\ pc[t] = "erase"
                  /\ pending' = [pending EXCEPT ![q] = @ \ {c}]
                  /\ freed' = freed \cup {c}
                  /\ pc' = [pc EXCEPT ![t] = "idle"]
                  /\ caller' = [caller EXCEPT ![t] = None]
                  /\ que' = [que EXCEPT ![t] = None]
                  /\ job' = [job EXCEPT ![t] = None]
  BY DEF CommandErase
<1>2. UNCHANGED <<status, last, shape, queue, waits, commands, onFly,
        lock, pushed, started, waitCount, errors, tq, finished, mine, wset, seen>>
  BY DEF CommandErase, cmdVars, blockVars, hostVars
<1>3. /\ t \in Procs /\ Threads \subseteq Procs
      /\ pc'[t] = "idle"
      /\ \A x \in Procs : x # t => pc'[x] = pc[x] /\ que'[x] = que[x] /\ caller'[x] = caller[x]
      /\ \A u \in Threads : u # t => job'[u] = job[u]
      /\ \A h \in Hosts : h # t /\ h \in Procs
  BY <1>1, ConstantsAssumption DEF TypeOK, Procs
<1>4. /\ \A x \in Procs : Submitting(x)' <=> Submitting(x)
      /\ \A x \in Procs : Submitting(x) => pc'[x] = pc[x] /\ que'[x] = que[x]
      /\ \A u \in Threads : Active(u)' <=> Active(u)
      /\ \A u \in Threads : Active(u) => u # t
      /\ \A u \in Threads : Reporting(u)' <=> Reporting(u)
      /\ \A u \in Threads : Reporting(u) => u # t
      /\ \A u \in Threads : Past(u)' <=> Past(u) /\ u # t
      /\ Past(t)
  BY <1>1, <1>3 DEF Submitting, Active, Reporting, Past, SchedulerPC
<1>5. c \in 1 .. last /\ c \in Cmds /\ q = queue[c] /\ q \in Queues
  <2>1. c \in 1 .. last /\ q = queue[c]
    BY <1>1 DEF ProcInv
  <2>2. QED
    BY <2>1, CmdsAreEvents DEF QueueInv
<1>6. Out(c) /\ finished[c] = 1 .. shape[c].blocks
  BY <1>1, <1>4 DEF FreedInv, PastInv
<1>7. /\ pending'[q] = pending[q] \ {c}
      /\ \A x \in Queues : x # q => pending'[x] = pending[x]
  BY <1>1, <1>5 DEF TypeOK
<1>8. TypeOK'
  <2>1. /\ pc' \in [Procs -> HostPC \cup WorkerPC]
        /\ \A h \in Hosts : pc'[h] \in HostPC
        /\ \A u \in Threads : pc'[u] \in WorkerPC
    BY <1>1, <1>3 DEF TypeOK, HostPC, WorkerPC
  <2>2. /\ que' \in [Procs -> Queues \cup {None}]
        /\ caller' \in [Procs -> {"Enqueue", "Flush", "Finish", "Done", None}]
        /\ job' \in [Threads -> (Cmds \X Nat) \cup {None}]
    BY <1>1 DEF TypeOK
  <2>3. pending' \in [Queues -> SUBSET Cmds] /\ freed' \in SUBSET Cmds
    BY <1>1, <1>5 DEF TypeOK
  <2>4. QED
    BY <2>1, <2>2, <2>3, <1>2 DEF TypeOK
<1>9. ProcInv'
  <2>1. \A u \in Threads : pc'[u] # "idle" => job'[u] \in (1 .. last) \X Nat
    BY <1>3 DEF ProcInv
  <2>2. \A u \in Threads : (pc'[u] \in SchedulerPC \/ pc'[u] = "erase") =>
          caller'[u] = "Done" /\ que'[u] = queue[job'[u][1]]
    BY <1>3 DEF ProcInv, SchedulerPC
  <2>3. QED
    BY <2>1, <2>2, <1>2, <1>3 DEF ProcInv
<1>10. LockInv'
  BY <1>2, <1>4, CanRunFrame DEF LockInv
<1>11. QueueInv' /\ StatusInv' /\ CountInv' /\ FlyInv'
  BY <1>2, QueueFrame, StatusFrame, CountFrame, FlyFrame
<1>12. SubmitInv'
  <2>1. /\ \A x \in Procs : pc'[x] = "submit" => pc[x] = "submit" /\ que'[x] = que[x]
        /\ \A x \in Procs : pc'[x] \in {"mark", "commit"} =>
             pc[x] \in {"mark", "commit"} /\ que'[x] = que[x]
    BY <1>3
  <2>2. \A d \in 1 .. last : pushed[d] > 0 /\ ~ Out(d)' =>
          \E x \in Procs : /\ Submitting(x)'
                           /\ que'[x] = queue[d]
                           /\ d = Head(commands[que'[x]])
    BY <1>2, <1>4, OutFrame DEF SubmitInv
  <2>3. QED
    BY <2>1, <2>2, <1>2, OutFrame, CanRunFrame DEF SubmitInv
<1>13. FlightInv'
  <2>1. \A u \in Threads : Active(u) \/ Reporting(u) => job'[u] = job[u]
    BY <1>3, <1>4
  <2>2. QED
    BY <2>1, <1>2, <1>4, InFlightFrame DEF FlightInv
<1>14. BlockInv'
  <2>1. \A u \in Threads : Active(u) => job'[u] = job[u]
    BY <1>3, <1>4
  <2>2. \A u \in Threads : Active(u)' => Unfinished1(job[u])'
    BY <2>1, <1>2, <1>4, Unfinished1Frame DEF BlockInv
  <2>3. QED
    BY <2>1, <2>2, <1>2, <1>4, Unfinished1Frame DEF BlockInv
<1>15. PastInv'
  <2>1. \A u \in Threads : Past(u)' => Past(u) /\ job'[u] = job[u] /\ pc'[u] = pc[u]
    BY <1>3, <1>4
  <2>2. QED
    BY <2>1, <1>2, CanRunFrame DEF PastInv
<1>16. FreedInv'
  <2>1. \A x : Out(x)' <=> Out(x)
    BY <1>2, OutFrame
  <2>2. \A x \in Queues : \A d \in pending'[x] : Out(d) /\ queue[d] = x /\ d \notin freed'
    <3> SUFFICES ASSUME NEW x \in Queues, NEW d \in pending'[x]
                 PROVE  Out(d) /\ queue[d] = x /\ d \notin freed'
      OBVIOUS
    <3>1. d \in pending[x] /\ (x = q => d # c)
      BY <1>7
    <3>2. Out(d) /\ queue[d] = x /\ d \notin freed
      BY <3>1 DEF FreedInv
    <3>3. d # c
      BY <3>1, <3>2, <1>5
    <3>4. QED
      BY <3>2, <3>3, <1>1
  <2>3. \A u \in Threads : pc'[u] \in SchedulerPC \/ pc'[u] = "erase" => Out(job'[u][1])
    BY <1>3 DEF FreedInv, SchedulerPC
  <2>4. \A u \in Threads : pc'[u] \in SchedulerPC \/ pc'[u] = "erase" => Out(job[u][1])'
    BY <2>1, <2>3, <1>3 DEF SchedulerPC
  <2>5. \A d \in freed' : /\ Out(d)
                          /\ finished[d] = 1 .. shape[d].blocks
                          /\ \A u \in Threads : Past(u)' => job'[u][1] # d
    <3> SUFFICES ASSUME NEW d \in freed'
                 PROVE  /\ Out(d)
                        /\ finished[d] = 1 .. shape[d].blocks
                        /\ \A u \in Threads : Past(u)' => job'[u][1] # d
      OBVIOUS
    <3>1. CASE d = c
      BY <3>1, <1>1, <1>3, <1>4, <1>6 DEF PastInv
    <3>2. CASE d \in freed
      BY <3>2, <1>3, <1>4 DEF FreedInv
    <3>3. QED
      BY <3>1, <3>2, <1>1
  <2>6. QED
    BY <2>1, <2>2, <2>4, <2>5, <1>2 DEF FreedInv
<1>17. QED
  BY <1>8, <1>9, <1>10, <1>11, <1>12, <1>13, <1>14, <1>15, <1>16

-----------------------------------------------------------------------------
LEMMA StutterInv ==
  ASSUME IInv, UNCHANGED vars
  PROVE  IInv'
<1> USE DEF IInv
<1>1. UNCHANGED <<status, last, shape, queue, waits, commands, pending, onFly,
        lock, pushed, started, waitCount, errors, tq, finished, freed, pc,
        caller, que, job, mine, wset, seen>>
  BY DEF vars, cmdVars, queueVars, blockVars, hostVars
<1>2. /\ \A x \in Procs : Submitting(x)' <=> Submitting(x)
      /\ \A t \in Threads : Active(t)' <=> Active(t)
      /\ \A t \in Threads : Reporting(t)' <=> Reporting(t)
      /\ \A t \in Threads : Past(t)' <=> Past(t)
  BY <1>1 DEF Submitting, Active, Reporting, Past
<1>3. TypeOK' /\ ProcInv'
  BY <1>1 DEF TypeOK, ProcInv
<1>4. LockInv'
  BY <1>1, <1>2, CanRunFrame DEF LockInv
<1>5. QueueInv' /\ FlyInv' /\ StatusInv' /\ CountInv'
  BY <1>1, QueueFrame, FlyFrame, StatusFrame, CountFrame
<1>6. SubmitInv'
  BY <1>1, <1>2, OutFrame, CanRunFrame DEF SubmitInv
<1>7. FlightInv' /\ BlockInv'
  BY <1>1, <1>2, InFlightFrame, Unfinished1Frame DEF FlightInv, BlockInv
<1>8. PastInv' /\ FreedInv'
  BY <1>1, <1>2, OutFrame, CanRunFrame DEF PastInv, FreedInv
<1>9. QED
  BY <1>3, <1>4, <1>5, <1>6, <1>7, <1>8

(* One case per action.                                                    *)
LEMMA NextInv ==
  ASSUME IInv, [Next]_vars
  PROVE  IInv'
<1>1. CASE \E p \in Procs : Scheduler(p)
  <2>1. PICK p \in Procs : Scheduler(p)
    BY <1>1
  <2>2. CASE RunSchedulerFalse(p) \/ RunSchedulerTrue(p)
    BY <2>2, RunSchedulerReturns
  <2>3. CASE RunSchedulerSubmit(p)
    BY <2>3, RunSchedulerSubmitInv
  <2>4. CASE \E t \in Threads : SubmitBlock(p, t)
    BY <2>4, SubmitBlockInv
  <2>5. CASE MarkSubmitted(p)
    BY <2>5, MarkSubmittedInv
  <2>6. CASE RunSchedulerCommit(p)
    BY <2>6, RunSchedulerCommitInv
  <2>7. QED
    BY <2>1, <2>2, <2>3, <2>4, <2>5, <2>6 DEF Scheduler
<1>2. CASE \E h \in Hosts : HostCall(h)
  <2>1. PICK h \in Hosts : HostCall(h)
    BY <1>2
  <2>2. CASE \E q \in Queues, s \in Shapes, W \in WaitLists : Enqueue(h, q, s, W)
    <3>1. WaitLists \subseteq SUBSET Events
      BY DEF WaitLists
    <3>2. QED
      BY <2>2, <3>1, EnqueueInv
  <2>3. CASE \E q \in Queues : Flush(h, q) \/ Finish(h, q)
    BY <2>3, FlushInv
  <2>4. CASE \E u \in UserEvents, s \in {COMPLETE, FAILED} : SetUserEventStatus(h, u, s)
    BY <2>4, SetUserEventStatusInv
  <2>5. QED
    BY <2>1, <2>2, <2>3, <2>4 DEF HostCall
<1>3. CASE \E h \in Hosts : HostStep(h)
  BY <1>3, EnqueueReturnInv, FinishCollectInv, ReturnToHostInv DEF HostStep
<1>4. CASE \E t \in Threads : Worker(t)
  BY <1>4, TakeInv, NotifyStartInv, MarkRunningInv, NotifyCompletionInv,
     MarkCompletedInv, CommandDoneInv, CommandEraseInv DEF Worker
<1>5. CASE UNCHANGED vars
  BY <1>5, StutterInv
<1>6. QED
  BY <1>1, <1>2, <1>3, <1>4, <1>5 DEF Next

LEMMA Invariance == Spec => []IInv
<1>1. Init => IInv
  BY InitInv
<1>2. IInv /\ [Next]_vars => IInv'
  BY NextInv
<1>3. QED
  BY <1>1, <1>2, PTL DEF Spec

-----------------------------------------------------------------------------
(* The state of the queues, the events, the workers and the hosts keeps    *)
(* its type, whatever the interleaving of hosts and workers: what          *)
(* CommandQueue, CPUThread and Event store is always well formed.          *)
THEOREM TypeCorrect == Spec => []TypeOK
<1>1. IInv => TypeOK
  BY DEF IInv
<1>2. QED
  BY <1>1, Invariance, PTL

LEMMA InOrderFromInv == IInv => InOrderExecution
<1> SUFFICES ASSUME IInv, NEW c \in 1 .. last, NEW d \in 1 .. last,
                    c < d, queue[c] = queue[d], pushed[d] > 0
             PROVE  HasCompleted(c)
  BY DEF InOrderExecution, Dispatched
<1> USE DEF IInv
<1> DEFINE q == queue[d]
<1>1. c \in Nat /\ d \in Nat /\ q \in Queues
  BY CmdsAreEvents DEF QueueInv
<1>2. CASE Out(d)
  <2>1. Out(c)
    <3> SUFFICES ASSUME ~ Out(c) PROVE FALSE
      OBVIOUS
    <3>1. PICK i \in 1 .. Len(commands[q]) : commands[q][i] = c
      BY DEF Out, InQueue
    <3>2. d < c
      BY <3>1, <1>1, <1>2 DEF QueueInv
    <3>3. QED
      BY <3>2, <1>1
  <2>2. QED
    BY <2>1, <1>2 DEF FlyInv
<1>3. CASE ~ Out(d)
  <2>1. PICK p \in Procs : Submitting(p) /\ que[p] = q /\ d = Head(commands[q])
    BY <1>3 DEF SubmitInv
  <2>2. commands[q] # <<>> /\ ~ onFly[q]
    BY <2>1 DEF LockInv
  <2>3. d = commands[q][1] /\ Len(commands[q]) \in Nat \ {0}
    BY <2>1, <2>2, <1>1, FrontCommand
  <2>4. Out(c)
    <3> SUFFICES ASSUME ~ Out(c) PROVE FALSE
      OBVIOUS
    <3>1. PICK i \in 1 .. Len(commands[q]) : commands[q][i] = c
      BY DEF Out, InQueue
    <3>2. i = 1 \/ 1 < i
      BY <2>3
    <3>3. 1 < i => d < c
      BY <3>1, <2>3, <1>1 DEF QueueInv
    <3>4. QED
      BY <3>1, <3>2, <3>3, <2>3, <1>1
  <2>5. QED
    BY <2>2, <2>4 DEF FlyInv
<1>4. QED
  BY <1>2, <1>3

(* InOrderQueue::RunScheduler: for any number of hosts, workers, queues,   *)
(* commands and blocks, no block of a command is handed to the device      *)
(* before every earlier command of its queue has completed.                *)
THEOREM InOrder == Spec => []InOrderExecution
  BY InOrderFromInv, Invariance, PTL

(* Command::CanRun: a command is only handed to the device after every     *)
(* event of its wait list has completed, also those that other queues or   *)
(* the application complete.                                               *)
THEOREM WaitLists_Respected == Spec => []WaitListsRespected
<1>1. IInv => WaitListsRespected
  BY DEF IInv, SubmitInv, WaitListsRespected, Dispatched, CanRun
<1>2. QED
  BY <1>1, Invariance, PTL

(* CPUMultiExecContext::finish: a command's event becomes final only after *)
(* all of its blocks have run, with an error exactly if one failed.        *)
THEOREM Completion_Is_Exact == Spec => []CompletionIsExact
<1>1. IInv => CompletionIsExact
  BY DEF IInv, StatusInv
<1>2. QED
  BY <1>1, Invariance, PTL

LEMMA NoUseAfterFreeFromInv == IInv => NoUseAfterFree
<1> SUFFICES ASSUME IInv, NEW c \in freed
             PROVE  /\ \A q \in Queues : c \notin Unfinished(q)
                    /\ \A t \in Threads : /\ ~ Holds(t, c)
                                          /\ \A i \in DOMAIN tq[t] : tq[t][i][1] # c
  BY DEF NoUseAfterFree
<1> USE DEF IInv
<1>1. Out(c) /\ finished[c] = 1 .. shape[c].blocks
  BY DEF FreedInv
<1>2. \A b : Unfinished1(b) => b[1] # c
  <2> SUFFICES ASSUME NEW b, Unfinished1(b), b[1] = c PROVE FALSE
    OBVIOUS
  <2>1. c \in 1 .. last /\ b[2] \in 1 .. pushed[c] /\ b[2] \notin finished[c]
    BY DEF Unfinished1
  <2>2. pushed[c] <= shape[c].blocks /\ pushed[c] \in Nat /\ shape[c].blocks \in Nat
    BY <2>1, BlockCounts
  <2>3. b[2] \in 1 .. shape[c].blocks
    BY <2>1, <2>2
  <2>4. QED
    BY <2>1, <2>3, <1>1
<1>3. \A q \in Queues : c \notin Unfinished(q)
  <2> SUFFICES ASSUME NEW q \in Queues, c \in Unfinished(q) PROVE FALSE
    OBVIOUS
  <2>1. c \notin pending[q]
    BY DEF FreedInv
  <2>2. commands[q] \in Seq(Cmds)
    BY DEF TypeOK
  <2>3. PICK i \in 1 .. Len(commands[q]) : commands[q][i] = c
    BY <2>1, <2>2 DEF Unfinished
  <2>4. queue[c] = q
    BY <2>3 DEF QueueInv
  <2>5. QED
    BY <2>3, <2>4, <1>1 DEF Out, InQueue
<1>4. \A t \in Threads : ~ Holds(t, c)
  <2> SUFFICES ASSUME NEW t \in Threads, pc[t] # "idle", job[t][1] = c PROVE FALSE
    BY DEF Holds
  <2>1. Active(t) \/ Past(t)
    BY DEF TypeOK, WorkerPC, Active, Past, Reporting
  <2>2. QED
    BY <2>1, <1>2 DEF BlockInv, FreedInv
<1>5. \A t \in Threads : \A i \in DOMAIN tq[t] : tq[t][i][1] # c
  <2> SUFFICES ASSUME NEW t \in Threads, NEW i \in DOMAIN tq[t]
               PROVE  tq[t][i][1] # c
    OBVIOUS
  <2>1. tq[t] \in Seq(Cmds \X Nat)
    BY DEF TypeOK
  <2>2. i \in 1 .. Len(tq[t])
    BY <2>1
  <2>3. QED
    BY <2>2, <1>2 DEF BlockInv
<1>6. QED
  BY <1>3, <1>4, <1>5

(* CommandQueue::CommandDone: when a command is freed, no queue, worker    *)
(* list or worker refers to it.                                            *)
THEOREM No_Use_After_Free == Spec => []NoUseAfterFree
  BY NoUseAfterFreeFromInv, Invariance, PTL

(* Advance: what StatusAdvances says of one step.                          *)
Advance == \A e \in Events : \/ status'[e] = status[e]
                             \/ status'[e] < status[e] /\ ~ HasCompleted(e)

LEMMA SignalAdvances ==
  ASSUME TypeOK, NEW e \in Events, NEW s \in FAILED .. SUBMITTED, status' = Signal(e, s),
         s > COMPLETE \/ ~ HasCompleted(e)
  PROVE  Advance
<1>1. /\ \A x \in Events : x # e => status'[x] = status[x]
      /\ status'[e] = IF status[e] > s THEN s ELSE status[e]
  BY SignalFacts
<1>2. status[e] \in Int /\ s \in Int
  <2>1. status \in [Events -> FAILED .. NoEvent]
    BY DEF TypeOK
  <2>2. status[e] \in FAILED .. NoEvent
    BY <2>1
  <2>3. QED
    BY <2>2 DEF FAILED, NoEvent, SUBMITTED
<1>3. status[e] > s => s < status[e] /\ ~ HasCompleted(e)
  BY <1>2 DEF HasCompleted, COMPLETE
<1>4. QED
  BY <1>1, <1>3 DEF Advance

LEMMA NextAdvances ==
  ASSUME IInv, [Next]_vars
  PROVE  Advance
<1>0. status' = status => Advance
  BY DEF Advance
<1> USE DEF cmdVars, queueVars, blockVars, hostVars
<1>1. CASE \E p \in Procs : Scheduler(p)
  <2>1. PICK p \in Procs : Scheduler(p)
    BY <1>1
  <2>2. CASE MarkSubmitted(p)
    <3>1. pc[p] = "mark" /\ status' = Signal(Head(commands[que[p]]), SUBMITTED)
      BY <2>2 DEF MarkSubmitted
    <3>2. que[p] \in Queues /\ commands[que[p]] # <<>>
      BY <3>1, SchedulerQueue DEF SchedulerPC, Submitting, IInv, LockInv
    <3>3. Head(commands[que[p]]) \in Events
      BY <3>2, FrontCommand, CmdsAreEvents
    <3>4. SUBMITTED \in FAILED .. SUBMITTED /\ SUBMITTED > COMPLETE
      BY DEF SUBMITTED, FAILED, COMPLETE
    <3>5. QED
      BY <3>1, <3>3, <3>4, SignalAdvances DEF IInv
  <2>3. CASE ~ MarkSubmitted(p)
    <3>1. status' = status
      BY <2>1, <2>3 DEF Scheduler, RunSchedulerFalse, RunSchedulerTrue,
         RunSchedulerSubmit, SubmitBlock, RunSchedulerCommit
    <3>2. QED
      BY <3>1, <1>0
  <2>4. QED
    BY <2>2, <2>3
<1>2. CASE \E h \in Hosts : HostCall(h)
  <2>1. PICK h \in Hosts : HostCall(h)
    BY <1>2
  <2>2. CASE \E q \in Queues, s \in Shapes, W \in WaitLists : Enqueue(h, q, s, W)
    <3>1. last < MaxCmds /\ status' = [status EXCEPT ![last + 1] = QUEUED]
      BY <2>2 DEF Enqueue
    <3>2. last + 1 \in Cmds /\ last + 1 > last
      BY <3>1, ConstantsAssumption, CmdsAreEvents DEF Cmds
    <3>3. status[last + 1] = NoEvent
      BY <3>2 DEF IInv, QueueInv
    <3>4. status \in [Events -> FAILED .. NoEvent] /\ last + 1 \in Events
      BY <3>2, CmdsAreEvents DEF IInv, TypeOK
    <3>5. /\ \A e \in Events : e # last + 1 => status'[e] = status[e]
          /\ status'[last + 1] = QUEUED
      BY <3>1, <3>4
    <3>6. QUEUED < NoEvent /\ ~ HasCompleted(last + 1)
      BY <3>3 DEF HasCompleted, QUEUED, NoEvent, COMPLETE
    <3>7. QED
      BY <3>3, <3>5, <3>6 DEF Advance
  <2>3. CASE \E u \in UserEvents, s \in {COMPLETE, FAILED} : SetUserEventStatus(h, u, s)
    <3>1. PICK u \in UserEvents, s \in {COMPLETE, FAILED} :
            status[u] = SUBMITTED /\ status' = Signal(u, s)
      BY <2>3 DEF SetUserEventStatus
    <3>2. u \in Events /\ s \in FAILED .. SUBMITTED /\ ~ HasCompleted(u)
      BY <3>1 DEF Events, FAILED, COMPLETE, SUBMITTED, HasCompleted
    <3>3. QED
      BY <3>1, <3>2, SignalAdvances DEF IInv
  <2>4. CASE \E q \in Queues : Flush(h, q) \/ Finish(h, q)
    BY <2>4, <1>0 DEF Flush, Finish
  <2>5. QED
    BY <2>1, <2>2, <2>3, <2>4 DEF HostCall
<1>3. CASE \E h \in Hosts : HostStep(h)
  BY <1>3, <1>0 DEF HostStep, EnqueueReturn, FinishCollect, ReturnToHost
<1>4. CASE \E t \in Threads : Worker(t)
  <2>1. PICK t \in Threads : Worker(t)
    BY <1>4
  <2>2. CASE MarkRunning(t)
    <3>1. pc[t] = "running" /\ status' = Signal(job[t][1], RUNNING)
      BY <2>2 DEF MarkRunning
    <3>2. job[t][1] \in Events
      BY <3>1, CmdsAreEvents DEF IInv, ProcInv
    <3>3. RUNNING \in FAILED .. SUBMITTED /\ RUNNING > COMPLETE
      BY DEF RUNNING, SUBMITTED, FAILED, COMPLETE
    <3>4. QED
      BY <3>1, <3>2, <3>3, SignalAdvances DEF IInv
  <2>3. CASE MarkCompleted(t)
    <3>1. PICK s \in {FAILED, COMPLETE} : pc[t] = "complete" /\ status' = Signal(job[t][1], s)
      BY <2>3 DEF MarkCompleted
    <3>2. job[t][1] \in Events /\ s \in FAILED .. SUBMITTED
      BY <3>1, CmdsAreEvents DEF IInv, ProcInv, FAILED, COMPLETE, SUBMITTED
    <3>3. ~ HasCompleted(job[t][1])
      BY <3>1 DEF IInv, PastInv, Past, Reporting
    <3>4. QED
      BY <3>1, <3>2, <3>3, SignalAdvances DEF IInv
  <2>4. CASE ~ MarkRunning(t) /\ ~ MarkCompleted(t)
    <3>1. status' = status
      BY <2>1, <2>4 DEF Worker, Take, NotifyStart, NotifyCompletion, CommandDone, CommandErase
    <3>2. QED
      BY <3>1, <1>0
  <2>5. QED
    BY <2>2, <2>3, <2>4
<1>5. CASE UNCHANGED vars
  BY <1>5, <1>0 DEF vars
<1>6. QED
  BY <1>1, <1>2, <1>3, <1>4, <1>5 DEF Next

(* Event::Signal: whatever the order of the late MarkSubmitted of a host   *)
(* and the MarkRunning and MarkCompleted of workers, a status only         *)
(* advances and a final one never changes.                                 *)
THEOREM Status_Advances == Spec => StatusAdvances
<1>1. IInv /\ [Next]_vars => [Advance]_status
  BY NextAdvances
<1>2. QED
  BY <1>1, Invariance, PTL DEF Spec, StatusAdvances, Advance

-----------------------------------------------------------------------------
(* The invariant of the calls *)

(* A host waits for the commands that Finish is about...                   *)
AwaitsAll(h) ==
  \A c \in 1 .. last : (queue[c] = que[h] /\ c <= seen[h]) =>
    HasCompleted(c) \/ c \in wset[h]

(* ... or for the command of its own blocking Enqueue.                     *)
AwaitsOwn(h) ==
  shape[mine[h]].blocking => HasCompleted(mine[h]) \/ mine[h] \in wset[h]

WaitInv(h) ==
  /\ pc[h] = "wait" /\ caller[h] = "Finish" => AwaitsAll(h)
  /\ pc[h] = "wait" /\ caller[h] = "Enqueue" => AwaitsOwn(h)
  /\ pc[h] = "collect" => caller[h] = "Finish"

(* A command that has left Commands is complete or in PendingCommands: the *)
(* snapshot of Finish misses nothing.  What was freed is complete.         *)
HostInv ==
  /\ \A c \in 1 .. last : Out(c) => HasCompleted(c) \/ c \in pending[queue[c]]
  /\ \A c \in freed : HasCompleted(c)
  /\ \A h \in Hosts : seen[h] <= last
  /\ \A h \in Hosts : WaitInv(h)

-----------------------------------------------------------------------------
(* What a step must respect of the state that the calls look at.           *)

Kept ==
  /\ last <= last'
  /\ \A c \in 1 .. last : queue'[c] = queue[c] /\ shape'[c] = shape[c]
  /\ \A c \in 1 .. last' : Out(c)' =>
       c \in 1 .. last /\ (Out(c) \/ c \in pending'[queue[c]])
  /\ \A c \in 1 .. last : c \in pending[queue[c]] =>
       HasCompleted(c) \/ c \in pending'[queue[c]]
  /\ \A c \in freed' : c \in freed \/ HasCompleted(c)
  /\ \A h \in Hosts : seen'[h] <= last

SameHost(h) ==
  /\ pc'[h] = pc[h] /\ caller'[h] = caller[h] /\ que'[h] = que[h]
  /\ mine'[h] = mine[h] /\ wset'[h] = wset[h] /\ seen'[h] = seen[h]

(* A completed event stays completed.                                      *)
LEMMA CompletedStays ==
  ASSUME IInv, Advance
  PROVE  \A e \in Events : HasCompleted(e) => HasCompleted(e)'
BY DEF Advance, HasCompleted

(* A step that respects this state, and changes the hosts with care, keeps *)
(* the invariant.                                                          *)
LEMMA HostFrame ==
  ASSUME IInv, IInv', HostInv, Advance, Kept,
         \A h \in Hosts : SameHost(h) \/ WaitInv(h)'
  PROVE  HostInv'
<1>1. /\ last \in Nat /\ last' \in Nat /\ 1 .. last \subseteq Events
      /\ freed \subseteq Events /\ freed \subseteq 1 .. last
      /\ \A c \in 1 .. last : c \in 1 .. last'
  <2>1. last \in Nat /\ last' \in Nat
    BY ConstantsAssumption DEF IInv, TypeOK
  <2>2. 1 .. last \subseteq Events
    BY CmdsAreEvents
  <2>3. freed \subseteq 1 .. last
    BY DEF IInv, FreedInv, Out
  <2>4. QED
    BY <2>1, <2>2, <2>3 DEF Kept
<1>2. \A e \in Events : HasCompleted(e) => HasCompleted(e)'
  BY CompletedStays
<1>3. \A c \in 1 .. last' : Out(c)' => HasCompleted(c)' \/ c \in pending'[queue'[c]]
  <2> SUFFICES ASSUME NEW c \in 1 .. last', Out(c)'
               PROVE  HasCompleted(c)' \/ c \in pending'[queue'[c]]
    OBVIOUS
  <2>1. c \in 1 .. last /\ (Out(c) \/ c \in pending'[queue[c]]) /\ queue'[c] = queue[c]
    BY DEF Kept
  <2>2. CASE Out(c)
    <3>1. HasCompleted(c) \/ c \in pending[queue[c]]
      BY <2>1, <2>2 DEF HostInv
    <3>2. HasCompleted(c) \/ c \in pending'[queue[c]]
      BY <2>1, <3>1 DEF Kept
    <3>3. QED
      BY <2>1, <3>2, <1>1, <1>2
  <2>3. QED
    BY <2>1, <2>2
<1>4. \A c \in freed' : HasCompleted(c)'
  <2>1. \A c \in freed' : HasCompleted(c) /\ c \in Events
    <3>1. freed' \subseteq Events
      <4>1. freed' \in SUBSET Cmds
        BY DEF IInv, TypeOK
      <4>2. QED
        BY <4>1 DEF Events
    <3>2. QED
      BY <3>1 DEF Kept, HostInv
  <2>2. QED
    BY <2>1, <1>2
<1>5. \A h \in Hosts : seen'[h] <= last'
  <2>1. \A h \in Hosts : seen'[h] \in Int
    BY ConstantsAssumption DEF IInv, TypeOK
  <2>2. QED
    BY <2>1, <1>1 DEF Kept
<1>6. \A h \in Hosts : WaitInv(h)'
  <2> SUFFICES ASSUME NEW h \in Hosts, SameHost(h) PROVE WaitInv(h)'
    OBVIOUS
  <2>1. WaitInv(h)
    BY DEF HostInv
  <2>2. ASSUME pc'[h] = "wait", caller'[h] = "Finish" PROVE AwaitsAll(h)'
    <3>1. AwaitsAll(h)
      BY <2>1, <2>2 DEF WaitInv, SameHost
    <3> SUFFICES ASSUME NEW c \in 1 .. last', queue'[c] = que'[h], c <= seen'[h]
                 PROVE  HasCompleted(c)' \/ c \in wset'[h]
      BY DEF AwaitsAll
    <3>2. c \in 1 .. last
      <4>1. seen[h] <= last /\ seen[h] \in Int /\ c \in Int /\ c >= 1 /\ c <= seen[h]
        BY <1>1, ConstantsAssumption DEF HostInv, IInv, TypeOK, SameHost
      <4>2. QED
        BY <4>1, <1>1
    <3>3. queue[c] = que[h] /\ c <= seen[h]
      BY <3>2 DEF Kept, SameHost
    <3>4. HasCompleted(c) \/ c \in wset[h]
      BY <3>1, <3>2, <3>3 DEF AwaitsAll
    <3>5. QED
      BY <3>2, <3>4, <1>1, <1>2 DEF SameHost
  <2>3. ASSUME pc'[h] = "wait", caller'[h] = "Enqueue" PROVE AwaitsOwn(h)'
    <3>1. AwaitsOwn(h)
      BY <2>1, <2>3 DEF WaitInv, SameHost
    <3>2. mine[h] \in 1 .. last /\ mine'[h] = mine[h] /\ wset'[h] = wset[h]
      BY <2>3 DEF IInv, ProcInv, SameHost
    <3>3. shape'[mine[h]] = shape[mine[h]]
      BY <3>2 DEF Kept
    <3>4. HasCompleted(mine[h]) => HasCompleted(mine[h])'
      BY <3>2, <1>1, <1>2 DEF HasCompleted
    <3>5. QED
      BY <3>1, <3>2, <3>3, <3>4 DEF AwaitsOwn, HasCompleted
  <2>4. QED
    BY <2>1, <2>2, <2>3 DEF WaitInv, SameHost
<1>7. QED
  BY <1>3, <1>4, <1>5, <1>6 DEF HostInv

(* Most steps leave this state alone.                                      *)
LEMMA KeptFrame ==
  ASSUME IInv, HostInv, UNCHANGED <<last, queue, shape, commands, pending, freed, seen>>
  PROVE  Kept
<1>1. last \in Nat
  BY ConstantsAssumption DEF IInv, TypeOK
<1>2. \A c \in 1 .. last : Out(c)' <=> Out(c)
  BY OutFrame
<1>3. QED
  BY <1>1, <1>2 DEF Kept, HostInv

(* A step of one thread, which leaves the hosts' data alone, moves only    *)
(* that thread; a RunScheduler that returns sends a host to a wait only    *)
(* when Flush called it, and to the copy of the events when Finish did.    *)
LEMMA OneThread ==
  ASSUME IInv, NEW p \in Procs, NEW x,
         pc' = [pc EXCEPT ![p] = x],
         p \in Hosts => \/ x \notin {"wait", "collect"}
                        \/ \E r \in BOOLEAN : x = Continue(caller[p], r),
         UNCHANGED <<mine, wset, seen>>,
         \A h \in Hosts : h # p => caller'[h] = caller[h] /\ que'[h] = que[h],
         p \in Hosts /\ x \in {"wait", "collect"} => caller'[p] = caller[p],
         p \in Hosts => pc[p] # "idle"
  PROVE  \A h \in Hosts : SameHost(h) \/ WaitInv(h)'
<1> SUFFICES ASSUME NEW h \in Hosts PROVE SameHost(h) \/ WaitInv(h)'
  OBVIOUS
<1>1. pc \in [Procs -> HostPC \cup WorkerPC] /\ h \in Procs
  BY DEF IInv, TypeOK, Procs
<1>2. CASE h # p
  BY <1>1, <1>2 DEF SameHost
<1>3. CASE h = p /\ x \notin {"wait", "collect"}
  BY <1>1, <1>3 DEF WaitInv
<1>4. CASE h = p /\ x \in {"wait", "collect"}
  <2>1. PICK r \in BOOLEAN : x = Continue(caller[h], r)
    BY <1>4
  <2>2. caller[h] \in {"Enqueue", "Flush", "Finish"} /\ caller'[h] = caller[h] /\ pc'[h] = x
    BY <1>1, <1>4 DEF IInv, ProcInv
  <2>3. /\ x = "wait" => caller[h] = "Flush"
        /\ x = "collect" => caller[h] = "Finish"
    BY <2>1, <2>2 DEF Continue
  <2>4. QED
    BY <2>2, <2>3 DEF WaitInv
<1>5. QED
  BY <1>2, <1>3, <1>4

-----------------------------------------------------------------------------
(* Each action keeps the invariant.                                        *)

(* RunSchedulerCommit moves the front command from Commands to             *)
(* PendingCommands.                                                        *)
LEMMA RunSchedulerCommitKept ==
  ASSUME IInv, HostInv, NEW p \in Procs, RunSchedulerCommit(p)
  PROVE  Kept
<1> DEFINE q == que[p]
<1> DEFINE c == Head(commands[q])
<1>1. /\ pc[p] = "commit"
      /\ commands' = [commands EXCEPT ![q] = Tail(@)]
      /\ pending' = [pending EXCEPT ![q] = @ \cup {c}]
      /\ UNCHANGED <<last, queue, shape, freed, seen>>
  BY DEF RunSchedulerCommit, cmdVars, hostVars
<1>2. q \in Queues /\ commands[q] # <<>>
  BY <1>1, SchedulerQueue DEF SchedulerPC, Submitting, IInv, LockInv
<1>3. c \in 1 .. last /\ queue[c] = q
  BY <1>2, FrontCommand
<1>4. \A d : Out(d)' <=> Out(d) \/ d = c
  BY <1>1, <1>2, PopFront
<1>5. /\ pending'[q] = pending[q] \cup {c}
      /\ \A x \in Queues : pending[x] \subseteq pending'[x]
  BY <1>1, <1>2 DEF IInv, TypeOK
<1>6. last \in Nat /\ \A d \in 1 .. last : queue[d] \in Queues
  BY ConstantsAssumption DEF IInv, TypeOK, QueueInv
<1>7. QED
  BY <1>1, <1>3, <1>4, <1>5, <1>6 DEF Kept, HostInv

LEMMA SchedulerHost ==
  ASSUME IInv, IInv', HostInv, Advance, NEW p \in Procs, Scheduler(p)
  PROVE  HostInv'
<1> USE DEF cmdVars, queueVars, blockVars, hostVars
<1>1. UNCHANGED <<mine, wset, seen, caller, que>> /\ pc[p] \in SchedulerPC
  BY DEF Scheduler, RunSchedulerFalse, RunSchedulerTrue, RunSchedulerSubmit,
         SubmitBlock, MarkSubmitted, RunSchedulerCommit, SchedulerPC
<1>2. pc[p] # "idle"
  BY <1>1 DEF SchedulerPC
<1>3. \E x : /\ pc' = [pc EXCEPT ![p] = x]
             /\ \/ x \notin {"wait", "collect"}
                \/ \E r \in BOOLEAN : x = Continue(caller[p], r)
  <2>1. CASE RunSchedulerFalse(p) \/ RunSchedulerTrue(p)
    BY <2>1 DEF RunSchedulerFalse, RunSchedulerTrue
  <2>2. CASE RunSchedulerSubmit(p) \/ MarkSubmitted(p)
    BY <2>2 DEF RunSchedulerSubmit, MarkSubmitted
  <2>3. CASE RunSchedulerCommit(p)
    BY <2>3 DEF RunSchedulerCommit
  <2>4. CASE \E t \in Threads : SubmitBlock(p, t)
    <3>1. PICK t \in Threads : SubmitBlock(p, t)
      BY <2>4
    <3>2. PICK x : pc' = [pc EXCEPT ![p] = x] /\ x \in {"mark", "submit"}
      BY <3>1 DEF SubmitBlock
    <3>3. QED
      BY <3>2
  <2>5. QED
    BY <2>1, <2>2, <2>3, <2>4 DEF Scheduler
<1>4. \A h \in Hosts : SameHost(h) \/ WaitInv(h)'
  BY <1>1, <1>2, <1>3, OneThread
<1>5. Kept
  <2>1. CASE RunSchedulerCommit(p)
    BY <2>1, RunSchedulerCommitKept
  <2>2. CASE ~ RunSchedulerCommit(p)
    <3>1. UNCHANGED <<last, queue, shape, commands, pending, freed, seen>>
      BY <2>2 DEF Scheduler, RunSchedulerFalse, RunSchedulerTrue,
         RunSchedulerSubmit, SubmitBlock, MarkSubmitted
    <3>2. QED
      BY <3>1, KeptFrame
  <2>3. QED
    BY <2>1, <2>2
<1>6. QED
  BY <1>4, <1>5, HostFrame

(* CommandErase takes a completed command out of PendingCommands.          *)
LEMMA CommandEraseKept ==
  ASSUME IInv, HostInv, NEW t \in Threads, CommandErase(t)
  PROVE  Kept
<1> DEFINE c == job[t][1]
<1> DEFINE q == que[t]
<1>1. /\ pc[t] = "erase"
      /\ pending' = [pending EXCEPT ![q] = @ \ {c}]
      /\ freed' = freed \cup {c}
      /\ UNCHANGED <<last, queue, shape, commands, seen>>
  BY DEF CommandErase, cmdVars, hostVars
<1>2. HasCompleted(c)
  BY <1>1 DEF IInv, PastInv, Past, Reporting
<1>3. last \in Nat /\ \A d \in 1 .. last : queue[d] \in Queues
  BY ConstantsAssumption DEF IInv, TypeOK, QueueInv
<1>4. \A x \in Queues : \A d \in pending[x] : d = c \/ d \in pending'[x]
  BY <1>1 DEF IInv, TypeOK
<1>5. \A d : Out(d)' <=> Out(d)
  BY <1>1, OutFrame
<1>6. QED
  BY <1>1, <1>2, <1>3, <1>4, <1>5 DEF Kept, HostInv

LEMMA WorkerHost ==
  ASSUME IInv, IInv', HostInv, Advance, NEW t \in Threads, Worker(t)
  PROVE  HostInv'
<1> USE DEF cmdVars, queueVars, blockVars, hostVars
<1>1. \A h \in Hosts : h \in Procs /\ h # t
  BY ConstantsAssumption DEF Procs
<1>2. /\ pc \in [Procs -> HostPC \cup WorkerPC]
      /\ caller \in [Procs -> {"Enqueue", "Flush", "Finish", "Done", None}]
      /\ que \in [Procs -> Queues \cup {None}]
  BY DEF IInv, TypeOK
<1>3. /\ UNCHANGED <<mine, wset, seen>>
      /\ \E x : pc' = [pc EXCEPT ![t] = x]
      /\ caller' = caller \/ \E x : caller' = [caller EXCEPT ![t] = x]
      /\ que' = que \/ \E x : que' = [que EXCEPT ![t] = x]
  <2>1. CASE Take(t) \/ NotifyStart(t) \/ MarkRunning(t)
    BY <2>1 DEF Take, NotifyStart, MarkRunning
  <2>2. CASE NotifyCompletion(t) \/ MarkCompleted(t)
    BY <2>2 DEF NotifyCompletion, MarkCompleted
  <2>3. CASE CommandDone(t)
    BY <2>3 DEF CommandDone
  <2>4. CASE CommandErase(t)
    BY <2>4 DEF CommandErase
  <2>5. QED
    BY <2>1, <2>2, <2>3, <2>4 DEF Worker
<1>4. \A h \in Hosts : SameHost(h)
  <2>1. \A h \in Hosts : pc'[h] = pc[h]
    BY <1>1, <1>2, <1>3
  <2>2. \A h \in Hosts : caller'[h] = caller[h]
    BY <1>1, <1>2, <1>3
  <2>3. \A h \in Hosts : que'[h] = que[h]
    BY <1>1, <1>2, <1>3
  <2>4. QED
    BY <2>1, <2>2, <2>3, <1>3 DEF SameHost
<1>5. Kept
  <2>1. CASE CommandErase(t)
    BY <2>1, CommandEraseKept
  <2>2. CASE ~ CommandErase(t)
    <3>1. UNCHANGED <<last, queue, shape, commands, pending, freed, seen>>
      BY <2>2 DEF Worker, Take, NotifyStart, MarkRunning, NotifyCompletion,
         MarkCompleted, CommandDone
    <3>2. QED
      BY <3>1, KeptFrame
  <2>3. QED
    BY <2>1, <2>2
<1>6. QED
  BY <1>4, <1>5, HostFrame

(* Enqueue appends to Commands: nothing leaves it.                         *)
LEMMA EnqueueKept ==
  ASSUME IInv, HostInv, NEW h \in Hosts, NEW q \in Queues, NEW s \in Shapes,
         NEW W \in SUBSET Events, Enqueue(h, q, s, W)
  PROVE  Kept
<1>1. PICK c :
      /\ c = last + 1 /\ last < MaxCmds /\ last' = c
      /\ shape' = [shape EXCEPT ![c] = s]
      /\ queue' = [queue EXCEPT ![c] = q]
      /\ commands' = [commands EXCEPT ![q] = Append(@, c)]
      /\ UNCHANGED <<pending, freed, seen>>
  BY DEF Enqueue
<1>2. last \in Nat /\ c \in Cmds /\ 1 .. last \subseteq Cmds /\ c \notin 1 .. last
  BY <1>1, ConstantsAssumption DEF IInv, TypeOK, Cmds
<1>3. /\ queue'[c] = q
      /\ \A d \in 1 .. last : queue'[d] = queue[d] /\ shape'[d] = shape[d]
      /\ \A d \in 1 .. last : queue[d] \in Queues
  BY <1>1, <1>2 DEF IInv, TypeOK, QueueInv
<1>4. /\ commands[q] \in Seq(Cmds) /\ Len(commands[q]) \in Nat
      /\ Len(commands'[q]) = Len(commands[q]) + 1
      /\ \A i \in 1 .. Len(commands[q]) : commands'[q][i] = commands[q][i]
      /\ commands'[q][Len(commands[q]) + 1] = c
      /\ \A x \in Queues : x # q => commands'[x] = commands[x]
  BY <1>1, <1>2 DEF IInv, TypeOK
<1>5. \A x \in Queues : \A i \in 1 .. Len(commands[x]) :
        i \in 1 .. Len(commands'[x]) /\ commands'[x][i] = commands[x][i]
  BY <1>4
<1>6. ~ Out(c)'
  <2>1. Len(commands[q]) + 1 \in 1 .. Len(commands'[q])
    BY <1>4
  <2>2. InQueue(c, q)'
    BY <2>1, <1>4 DEF InQueue
  <2>3. QED
    BY <2>2, <1>3 DEF Out
<1>7. \A d \in 1 .. last : Out(d)' => Out(d)
  BY <1>3, <1>5 DEF Out, InQueue
<1>8. \A d \in 1 .. last' : d \in 1 .. last \/ d = c
  BY <1>1, <1>2
<1>9. \A d \in 1 .. last' : Out(d)' => d \in 1 .. last /\ Out(d)
  BY <1>6, <1>7, <1>8
<1>10. last <= last'
  BY <1>1, <1>2
<1>11. QED
  BY <1>1, <1>3, <1>9, <1>10 DEF Kept, HostInv

LEMMA HostCallHost ==
  ASSUME IInv, IInv', HostInv, Advance, NEW h \in Hosts, HostCall(h)
  PROVE  HostInv'
<1> USE DEF cmdVars, queueVars, blockVars, hostVars
<1>1. \A x \in Hosts : x \in Procs
  BY DEF Procs
<1>2. /\ pc \in [Procs -> HostPC \cup WorkerPC]
      /\ caller \in [Procs -> {"Enqueue", "Flush", "Finish", "Done", None}]
      /\ que \in [Procs -> Queues \cup {None}]
      /\ mine \in [Hosts -> Cmds \cup {None}]
      /\ seen \in [Hosts -> 0 .. MaxCmds]
  BY DEF IInv, TypeOK
<1>3. last \in Nat
  BY ConstantsAssumption DEF IInv, TypeOK
<1>4. CASE \E q \in Queues, s \in Shapes, W \in WaitLists : Enqueue(h, q, s, W)
  <2>1. PICK q \in Queues, s \in Shapes, W \in WaitLists : Enqueue(h, q, s, W)
    BY <1>4
  <2>2. W \in SUBSET Events
    BY DEF WaitLists
  <2>3. Kept
    BY <2>1, <2>2, EnqueueKept
  <2>4. /\ \A x \in Hosts : x # h => SameHost(x)
        /\ pc'[h] = "sched"
    BY <2>1, <1>1, <1>2 DEF Enqueue, SameHost
  <2>5. WaitInv(h)'
    BY <2>4 DEF WaitInv
  <2>6. QED
    BY <2>3, <2>4, <2>5, HostFrame
<1>5. CASE \E q \in Queues : Flush(h, q) \/ Finish(h, q)
  <2>1. PICK q \in Queues : Flush(h, q) \/ Finish(h, q)
    BY <1>5
  <2>2. /\ UNCHANGED <<last, queue, shape, commands, pending, freed>>
        /\ \A x \in Hosts : seen'[x] = seen[x] \/ seen'[x] = last
    BY <2>1, <1>2 DEF Flush, Finish
  <2>3. Kept
    <3>1. \A d : Out(d)' <=> Out(d)
      BY <2>2, OutFrame
    <3>2. \A x \in Hosts : seen'[x] <= last
      BY <2>2, <1>3 DEF HostInv
    <3>3. QED
      BY <2>2, <3>1, <3>2, <1>3 DEF Kept
  <2>4. /\ \A x \in Hosts : x # h => SameHost(x)
        /\ pc'[h] = "sched"
    BY <2>1, <1>1, <1>2 DEF Flush, Finish, SameHost
  <2>5. WaitInv(h)'
    BY <2>4 DEF WaitInv
  <2>6. QED
    BY <2>3, <2>4, <2>5, HostFrame
<1>6. CASE \E u \in UserEvents, s \in {COMPLETE, FAILED} : SetUserEventStatus(h, u, s)
  <2>1. UNCHANGED <<last, queue, shape, commands, pending, freed, seen,
                    pc, caller, que, mine, wset>>
    BY <1>6 DEF SetUserEventStatus
  <2>2. \A x \in Hosts : SameHost(x)
    BY <2>1 DEF SameHost
  <2>3. QED
    BY <2>1, <2>2, KeptFrame, HostFrame
<1>7. QED
  BY <1>4, <1>5, <1>6 DEF HostCall

(* The end of Enqueue: if the command was freed it is complete, whatever   *)
(* IsBlocking returned.                                                    *)
LEMMA EnqueueReturnHost ==
  ASSUME IInv, IInv', HostInv, Advance, NEW h \in Hosts, EnqueueReturn(h)
  PROVE  HostInv'
<1>1. PICK b \in BOOLEAN :
        /\ mine[h] \notin freed => b = shape[mine[h]].blocking
        /\ wset' = [wset EXCEPT ![h] = IF b THEN {mine[h]} ELSE {}]
  BY DEF EnqueueReturn
<1>2. /\ pc[h] = "enqueued" /\ pc' = [pc EXCEPT ![h] = "wait"]
      /\ UNCHANGED <<last, queue, shape, commands, pending, freed, status,
                     seen, caller, que, mine>>
  BY DEF EnqueueReturn, cmdVars, queueVars
<1>3. /\ wset'[h] = IF b THEN {mine[h]} ELSE {}
      /\ pc'[h] = "wait"
      /\ \A x \in Hosts : x # h => SameHost(x)
  BY <1>1, <1>2 DEF IInv, TypeOK, Procs, SameHost
<1>4. caller[h] = "Enqueue"
  BY <1>2 DEF IInv, ProcInv
<1>5. AwaitsOwn(h)'
  <2>1. CASE mine[h] \in freed
    <3>1. HasCompleted(mine[h])
      BY <2>1 DEF HostInv
    <3>2. QED
      BY <3>1, <1>2 DEF AwaitsOwn, HasCompleted
  <2>2. CASE mine[h] \notin freed
    <3>1. shape[mine[h]].blocking => mine[h] \in wset'[h]
      BY <2>2, <1>1, <1>3
    <3>2. QED
      BY <3>1, <1>2 DEF AwaitsOwn
  <2>3. QED
    BY <2>1, <2>2
<1>6. WaitInv(h)'
  BY <1>2, <1>3, <1>4, <1>5 DEF WaitInv
<1>7. QED
  BY <1>2, <1>3, <1>6, KeptFrame, HostFrame

(* Finish copies the events of everything that has not completed.          *)
LEMMA FinishCollectHost ==
  ASSUME IInv, IInv', HostInv, Advance, NEW h \in Hosts, FinishCollect(h)
  PROVE  HostInv'
<1>1. /\ pc[h] = "collect" /\ pc' = [pc EXCEPT ![h] = "wait"]
      /\ wset' = [wset EXCEPT ![h] = Unfinished(que[h])]
      /\ UNCHANGED <<last, queue, shape, commands, pending, freed, status,
                     seen, caller, que, mine>>
  BY DEF FinishCollect, cmdVars, queueVars
<1>2. /\ wset'[h] = Unfinished(que[h])
      /\ pc'[h] = "wait"
      /\ \A x \in Hosts : x # h => SameHost(x)
  BY <1>1 DEF IInv, TypeOK, Procs, SameHost
<1>3. caller[h] = "Finish"
  BY <1>1 DEF HostInv, WaitInv
<1>4. que[h] \in Queues
  BY <1>1 DEF IInv, ProcInv
<1>5. \A c \in 1 .. last : queue[c] = que[h] => HasCompleted(c) \/ c \in Unfinished(que[h])
  <2> SUFFICES ASSUME NEW c \in 1 .. last, queue[c] = que[h]
               PROVE  HasCompleted(c) \/ c \in Unfinished(que[h])
    OBVIOUS
  <2>1. CASE InQueue(c, que[h])
    <3>1. DOMAIN commands[que[h]] = 1 .. Len(commands[que[h]])
      BY <1>4 DEF IInv, TypeOK
    <3>2. QED
      BY <2>1, <3>1 DEF InQueue, Unfinished
  <2>2. CASE ~ InQueue(c, que[h])
    <3>1. Out(c)
      BY <2>2 DEF Out
    <3>2. QED
      BY <3>1 DEF HostInv, Unfinished
  <2>3. QED
    BY <2>1, <2>2
<1>6. AwaitsAll(h)'
  BY <1>1, <1>2, <1>5 DEF AwaitsAll, HasCompleted
<1>7. WaitInv(h)'
  BY <1>1, <1>2, <1>3, <1>6 DEF WaitInv
<1>8. QED
  BY <1>1, <1>2, <1>7, KeptFrame, HostFrame

LEMMA ReturnToHostHost ==
  ASSUME IInv, IInv', HostInv, Advance, NEW h \in Hosts, ReturnToHost(h)
  PROVE  HostInv'
<1>1. /\ pc[h] = "wait" /\ pc' = [pc EXCEPT ![h] = "idle"]
      /\ caller' = [caller EXCEPT ![h] = None]
      /\ que' = [que EXCEPT ![h] = None]
      /\ mine' = [mine EXCEPT ![h] = None]
      /\ wset' = [wset EXCEPT ![h] = {}]
      /\ seen' = [seen EXCEPT ![h] = 0]
      /\ UNCHANGED <<last, queue, shape, commands, pending, freed>>
  BY DEF ReturnToHost, cmdVars, queueVars
<1>2. /\ pc'[h] = "idle"
      /\ \A x \in Hosts : x # h => SameHost(x)
      /\ \A x \in Hosts : seen'[x] = seen[x] \/ seen'[x] = 0
  BY <1>1 DEF IInv, TypeOK, Procs, SameHost
<1>3. last \in Nat
  BY ConstantsAssumption DEF IInv, TypeOK
<1>4. Kept
  <2>1. \A d : Out(d)' <=> Out(d)
    BY <1>1, OutFrame
  <2>2. \A x \in Hosts : seen'[x] <= last
    BY <1>2, <1>3 DEF HostInv
  <2>3. QED
    BY <1>1, <1>3, <2>1, <2>2 DEF Kept
<1>5. WaitInv(h)'
  BY <1>2 DEF WaitInv
<1>6. QED
  BY <1>2, <1>4, <1>5, HostFrame

LEMMA NextHost ==
  ASSUME IInv, IInv', HostInv, [Next]_vars
  PROVE  HostInv'
<1>0. Advance
  BY NextAdvances
<1>1. CASE \E p \in Procs : Scheduler(p)
  BY <1>0, <1>1, SchedulerHost
<1>2. CASE \E h \in Hosts : HostCall(h)
  BY <1>0, <1>2, HostCallHost
<1>3. CASE \E h \in Hosts : HostStep(h)
  BY <1>0, <1>3, EnqueueReturnHost, FinishCollectHost, ReturnToHostHost DEF HostStep
<1>4. CASE \E t \in Threads : Worker(t)
  BY <1>0, <1>4, WorkerHost
<1>5. CASE UNCHANGED vars
  <2>1. UNCHANGED <<last, queue, shape, commands, pending, freed, seen,
                    pc, caller, que, mine, wset>>
    BY <1>5 DEF vars, cmdVars, queueVars, hostVars
  <2>2. \A h \in Hosts : SameHost(h)
    BY <2>1 DEF SameHost
  <2>3. QED
    BY <1>0, <2>1, <2>2, KeptFrame, HostFrame
<1>6. QED
  BY <1>1, <1>2, <1>3, <1>4, <1>5 DEF Next

LEMMA HostInvariance == Spec => [](IInv /\ HostInv)
<1>1. Init => HostInv
  <2> SUFFICES ASSUME Init PROVE HostInv
    OBVIOUS
  <2>1. last = 0 /\ freed = {} /\ \A h \in Hosts : seen[h] = 0 /\ pc[h] = "idle"
    BY DEF Init, Procs
  <2>2. \A h \in Hosts : WaitInv(h)
    BY <2>1 DEF WaitInv
  <2>3. QED
    BY <2>1, <2>2 DEF HostInv
<1>2. IInv /\ IInv' /\ HostInv /\ [Next]_vars => HostInv'
  BY NextHost
<1>3. QED
  BY <1>1, <1>2, Invariance, PTL DEF Spec

-----------------------------------------------------------------------------
(* CommandQueue::Finish: although workers move commands between Commands,  *)
(* PendingCommands and the freed ones while Finish flushes and copies, it  *)
(* returns only when everything enqueued before the call has completed.    *)
THEOREM Finish_Waits_For_All == Spec => FinishWaitsForAll
<1> DEFINE A == \A h \in Hosts :
                  (ReturnToHost(h) /\ caller[h] = "Finish")
                    => \A c \in Enqueued(que[h]) : c <= seen[h] => HasCompleted(c)
<1>1. IInv /\ HostInv => A
  <2> SUFFICES ASSUME HostInv, NEW h \in Hosts, ReturnToHost(h), caller[h] = "Finish",
                      NEW c \in Enqueued(que[h]), c <= seen[h]
               PROVE  HasCompleted(c)
    OBVIOUS
  <2>1. pc[h] = "wait" /\ \A e \in wset[h] : HasCompleted(e)
    BY DEF ReturnToHost
  <2>2. AwaitsAll(h)
    BY <2>1 DEF HostInv, WaitInv
  <2>3. QED
    BY <2>1, <2>2 DEF AwaitsAll, Enqueued
<1>2. QED
  BY <1>1, HostInvariance, PTL DEF FinishWaitsForAll

(* CommandQueue::Enqueue: a blocking call returns only when its command    *)
(* has completed, even when IsBlocking reads a command that a worker has   *)
(* freed already.                                                          *)
THEOREM Blocking_Calls_Wait == Spec => BlockingCallsWait
<1> DEFINE A == \A h \in Hosts :
                  (ReturnToHost(h) /\ caller[h] = "Enqueue" /\ shape[mine[h]].blocking)
                    => HasCompleted(mine[h])
<1>1. IInv /\ HostInv => A
  <2> SUFFICES ASSUME HostInv, NEW h \in Hosts, ReturnToHost(h), caller[h] = "Enqueue",
                      shape[mine[h]].blocking
               PROVE  HasCompleted(mine[h])
    OBVIOUS
  <2>1. pc[h] = "wait" /\ \A e \in wset[h] : HasCompleted(e)
    BY DEF ReturnToHost
  <2>2. AwaitsOwn(h)
    BY <2>1 DEF HostInv, WaitInv
  <2>3. QED
    BY <2>1, <2>2 DEF AwaitsOwn
<1>2. QED
  BY <1>1, HostInvariance, PTL DEF BlockingCallsWait
-----------------------------------------------------------------------------
(* The refinement *)

Sent == {c \in 1 .. last : Dispatched(c)}
Done == {e \in Events : HasCompleted(e)}

(* A step of CommandOrder or none, on the mapped variables.                *)
OrderStep == Order!Next \/ UNCHANGED Order!vars

LEMMA InitRefines == Init => Order!Init
<1> SUFFICES ASSUME Init PROVE Order!Init
  OBVIOUS
<1>1. last = 0 /\ queue = [c \in Order!Cmds |-> None] /\ waits = [c \in Order!Cmds |-> {}]
  BY DEF Init, Cmds, Order!Cmds
<1>2. Sent = {}
  BY <1>1 DEF Sent
<1>3. \A e \in Events : ~ HasCompleted(e)
  BY DEF Init, HasCompleted, SUBMITTED, NoEvent, COMPLETE
<1>4. Done = {}
  BY <1>3 DEF Done
<1>5. QED
  BY <1>1, <1>2, <1>4 DEF Order!Init, Sent, Done

(* Steps that CommandOrder does not see.                                   *)
LEMMA Unseen ==
  ASSUME UNCHANGED <<last, queue, waits, pushed>>,
         \A e \in Events : HasCompleted(e)' <=> HasCompleted(e)
  PROVE  OrderStep
<1>1. Sent' = Sent /\ Done' = Done
  BY DEF Sent, Done, Dispatched
<1>2. QED
  BY <1>1 DEF OrderStep, Order!vars, Sent, Done

LEMMA SameStatus ==
  ASSUME UNCHANGED <<last, queue, waits, pushed, status>>
  PROVE  OrderStep
  BY Unseen DEF HasCompleted

LEMMA EnqueueRefines ==
  ASSUME IInv, NEW h \in Hosts, NEW q \in Queues, NEW s \in Shapes,
         NEW W \in WaitLists, Enqueue(h, q, s, W)
  PROVE  OrderStep
<1> USE DEF IInv
<1>1. /\ last < MaxCmds /\ last' = last + 1
      /\ queue' = [queue EXCEPT ![last + 1] = q]
      /\ waits' = [waits EXCEPT ![last + 1] = W]
      /\ status' = [status EXCEPT ![last + 1] = QUEUED]
      /\ pushed' = pushed
  BY DEF Enqueue
<1>2. /\ last \in Nat /\ last + 1 \in Cmds /\ last + 1 > last
      /\ last + 1 \in Events /\ Cmds \subseteq Nat
  BY <1>1, CmdsAreEvents, ConstantsAssumption DEF Cmds
<1>3. pushed[last + 1] = 0 /\ status[last + 1] = NoEvent
  BY <1>2 DEF SubmitInv, QueueInv
<1>4. W \in SUBSET Events /\ \A e \in W : status[e] # NoEvent
  BY DEF WaitLists
<1>5. W \subseteq (1 .. last) \cup UserEvents
  <2> SUFFICES ASSUME NEW e \in W, e \in Cmds PROVE e \in 1 .. last
    BY <1>4 DEF Events
  <2>1. ~ (e > last)
    BY <1>4 DEF QueueInv
  <2>2. QED
    BY <2>1, <1>2 DEF Cmds
<1>6. Sent' = Sent
  BY <1>1, <1>2, <1>3 DEF Sent, Dispatched
<1>7. \A e \in Events : HasCompleted(e)' <=> HasCompleted(e)
  BY <1>1, <1>2, <1>3 DEF TypeOK, HasCompleted, QUEUED, NoEvent, COMPLETE
<1>8. Done' = Done
  BY <1>7 DEF Done
<1>9. Order!Enqueue(q, W)
  BY <1>1, <1>5, <1>6, <1>8 DEF Order!Enqueue, Sent, Done
<1>10. W \in SUBSET Order!Events
  BY <1>4 DEF Order!Events, Order!Cmds, Events, Cmds
<1>11. QED
  BY <1>9, <1>10 DEF OrderStep, Order!Next

LEMMA SubmitBlockRefines ==
  ASSUME IInv, IInv', NEW p \in Procs, NEW t \in Threads, SubmitBlock(p, t)
  PROVE  OrderStep
<1> USE DEF IInv
<1>1. PICK c : /\ c = Head(commands[que[p]]) /\ pc[p] = "submit"
               /\ pushed' = [pushed EXCEPT ![c] = pushed[c] + 1]
  BY DEF SubmitBlock
<1>2. UNCHANGED <<status, last, queue, waits>>
  BY DEF SubmitBlock, cmdVars
<1>3. que[p] \in Queues /\ commands[que[p]] # <<>>
  BY <1>1, SchedulerQueue DEF SchedulerPC, Submitting, LockInv
<1>4. c \in 1 .. last /\ c \in Cmds /\ pushed[c] \in Nat
  BY <1>1, <1>3, FrontCommand
<1>5. /\ pushed'[c] = pushed[c] + 1
      /\ \A d \in Cmds : d # c => pushed'[d] = pushed[d]
  BY <1>1, <1>4 DEF TypeOK
<1>6. 1 .. last \subseteq Cmds /\ Cmds \subseteq Nat /\ last \in Nat
  BY CmdsAreEvents
<1>7. Done' = Done
  BY <1>2 DEF Done, HasCompleted
<1>8. CASE pushed[c] > 0
  <2>1. Sent' = Sent
    BY <1>2, <1>4, <1>5, <1>6, <1>8 DEF Sent, Dispatched
  <2>2. QED
    BY <2>1, <1>2, <1>7 DEF OrderStep, Order!vars, Sent, Done
<1>9. CASE pushed[c] = 0
  <2>1. c \notin Sent /\ Sent' = Sent \cup {c}
    BY <1>2, <1>4, <1>5, <1>6, <1>9 DEF Sent, Dispatched
  <2>2. Dispatched(c)'
    BY <1>5, <1>9 DEF Dispatched
  <2>3. \A d \in 1 .. c - 1 : queue[d] = queue[c] => d \in Done
    <3> SUFFICES ASSUME NEW d \in 1 .. c - 1, queue[d] = queue[c]
                 PROVE  HasCompleted(d)
      BY <1>4, <1>6, CmdsAreEvents DEF Done
    <3>1. d \in 1 .. last /\ d < c
      BY <1>4, <1>6
    <3>2. InOrderExecution'
      BY InOrderFromInv, PTL
    <3>3. QED
      BY <3>1, <3>2, <2>2, <1>2, <1>4 DEF InOrderExecution, HasCompleted
  <2>4. waits[c] \subseteq Done
    <3>1. pushed'[c] > 0
      BY <1>5, <1>9
    <3>2. \A e \in waits[c] : HasCompleted(e)
      BY <3>1, <1>2, <1>4 DEF SubmitInv, CanRun, HasCompleted
    <3>3. QED
      BY <3>2, <1>4, CmdsAreEvents DEF Done
  <2>5. Order!Dispatch(c)
    BY <2>1, <2>3, <2>4, <1>2, <1>7 DEF Order!Dispatch, Sent, Done
  <2>6. QED
    BY <2>5, <1>4 DEF OrderStep, Order!Next
<1>10. QED
  BY <1>4, <1>8, <1>9

(* A status that is not final is not seen.                                 *)
LEMMA LightSignalUnseen ==
  ASSUME IInv, NEW c \in 1 .. last, NEW s \in {SUBMITTED, RUNNING},
         status' = Signal(c, s), UNCHANGED <<last, queue, waits, pushed>>
  PROVE  OrderStep
<1>1. s \in FAILED .. SUBMITTED /\ s > COMPLETE /\ c \in Events
  BY CmdsAreEvents DEF SUBMITTED, RUNNING, FAILED, COMPLETE
<1>2. /\ \A x \in Events : HasCompleted(x) => status'[x] <= COMPLETE
      /\ \A x \in Events : status'[x] <= COMPLETE => HasCompleted(x)
  BY <1>1, SignalFacts DEF IInv
<1>3. QED
  BY <1>2, Unseen DEF HasCompleted

(* A final status, signalled to an event that had none, is a completion.   *)
LEMMA FinalSignal ==
  ASSUME IInv, NEW e \in Events, NEW s \in {COMPLETE, FAILED}, ~ HasCompleted(e),
         status' = Signal(e, s), UNCHANGED <<last, queue, waits, pushed>>
  PROVE  Sent' = Sent /\ e \notin Done /\ Done' = Done \cup {e}
<1>1. s \in FAILED .. SUBMITTED /\ s <= COMPLETE
  BY DEF SUBMITTED, FAILED, COMPLETE
<1>2. /\ status'[e] = IF status[e] > s THEN s ELSE status[e]
      /\ \A x \in Events : x # e => status'[x] = status[x]
  BY <1>1, SignalFacts DEF IInv
<1>3. status[e] > s
  <2>1. status[e] \in FAILED .. NoEvent /\ ~ (status[e] <= COMPLETE)
    BY DEF IInv, TypeOK, HasCompleted
  <2>2. QED
    BY <2>1, <1>1 DEF FAILED, COMPLETE, NoEvent, SUBMITTED
<1>4. status'[e] <= COMPLETE
  BY <1>1, <1>2, <1>3
<1>5. Sent' = Sent
  BY DEF Sent, Dispatched
<1>6. QED
  BY <1>2, <1>4, <1>5 DEF Done, HasCompleted

LEMMA MarkCompletedRefines ==
  ASSUME IInv, NEW t \in Threads, MarkCompleted(t)
  PROVE  OrderStep
<1> USE DEF IInv
<1>1. PICK c, s : /\ c = job[t][1] /\ s \in {COMPLETE, FAILED}
                  /\ pc[t] = "complete" /\ status' = Signal(c, s)
  BY DEF MarkCompleted
<1>2. UNCHANGED <<last, queue, waits, pushed>>
  BY DEF MarkCompleted, cmdVars, blockVars
<1>3. c \in 1 .. last /\ c \in Cmds /\ c \in Events
  BY <1>1, CmdsAreEvents DEF ProcInv
<1>4. ~ HasCompleted(c) /\ finished[c] = 1 .. shape[c].blocks
  BY <1>1 DEF PastInv, Past, Reporting
<1>5. c \in Sent
  <2>1. shape[c].blocks \in Nat \ {0} /\ pushed[c] \in Nat
    BY <1>3, BlockCounts
  <2>2. 1 \in finished[c] /\ finished[c] \subseteq 1 .. pushed[c]
    BY <2>1, <1>3, <1>4 DEF CountInv
  <2>3. pushed[c] > 0
    BY <2>1, <2>2
  <2>4. QED
    BY <2>3, <1>3 DEF Sent, Dispatched
<1>6. Sent' = Sent /\ c \notin Done /\ Done' = Done \cup {c}
  BY <1>1, <1>2, <1>3, <1>4, FinalSignal
<1>7. Order!Complete(c)
  BY <1>2, <1>5, <1>6 DEF Order!Complete, Sent, Done
<1>8. QED
  BY <1>3, <1>7 DEF OrderStep, Order!Next

LEMMA SetUserEventStatusRefines ==
  ASSUME IInv, NEW h \in Hosts, NEW u \in UserEvents, NEW s \in {COMPLETE, FAILED},
         SetUserEventStatus(h, u, s)
  PROVE  OrderStep
<1>1. status[u] = SUBMITTED /\ status' = Signal(u, s)
  BY DEF SetUserEventStatus
<1>2. UNCHANGED <<last, queue, waits, pushed>>
  BY DEF SetUserEventStatus, cmdVars, blockVars
<1>3. u \in Events /\ ~ HasCompleted(u)
  BY <1>1 DEF Events, HasCompleted, SUBMITTED, COMPLETE
<1>4. Sent' = Sent /\ u \notin Done /\ Done' = Done \cup {u}
  BY <1>1, <1>2, <1>3, FinalSignal
<1>5. Order!Trigger(u)
  BY <1>2, <1>4 DEF Order!Trigger, Sent, Done
<1>6. QED
  BY <1>5 DEF OrderStep, Order!Next

LEMMA NextRefines ==
  ASSUME IInv, IInv', [Next]_vars
  PROVE  OrderStep
<1> USE DEF cmdVars, queueVars, blockVars, hostVars
<1>1. CASE \E p \in Procs : Scheduler(p)
  <2>1. PICK p \in Procs : Scheduler(p)
    BY <1>1
  <2>2. CASE \E t \in Threads : SubmitBlock(p, t)
    BY <2>2, SubmitBlockRefines
  <2>3. CASE MarkSubmitted(p)
    <3>1. /\ pc[p] = "mark" /\ status' = Signal(Head(commands[que[p]]), SUBMITTED)
          /\ UNCHANGED <<last, queue, waits, pushed>>
      BY <2>3 DEF MarkSubmitted
    <3>2. que[p] \in Queues /\ commands[que[p]] # <<>>
      BY <3>1, SchedulerQueue DEF SchedulerPC, Submitting, IInv, LockInv
    <3>3. Head(commands[que[p]]) \in 1 .. last
      BY <3>2, FrontCommand
    <3>4. QED
      BY <3>1, <3>3, LightSignalUnseen
  <2>4. CASE RunSchedulerFalse(p) \/ RunSchedulerTrue(p) \/ RunSchedulerSubmit(p)
               \/ RunSchedulerCommit(p)
    BY <2>4, SameStatus DEF RunSchedulerFalse, RunSchedulerTrue, RunSchedulerSubmit,
       RunSchedulerCommit
  <2>5. QED
    BY <2>1, <2>2, <2>3, <2>4 DEF Scheduler
<1>2. CASE \E h \in Hosts : HostCall(h)
  <2>1. PICK h \in Hosts : HostCall(h)
    BY <1>2
  <2>2. CASE \E q \in Queues, s \in Shapes, W \in WaitLists : Enqueue(h, q, s, W)
    BY <2>2, EnqueueRefines
  <2>3. CASE \E u \in UserEvents, s \in {COMPLETE, FAILED} : SetUserEventStatus(h, u, s)
    BY <2>3, SetUserEventStatusRefines
  <2>4. CASE \E q \in Queues : Flush(h, q) \/ Finish(h, q)
    BY <2>4, SameStatus DEF Flush, Finish
  <2>5. QED
    BY <2>1, <2>2, <2>3, <2>4 DEF HostCall
<1>3. CASE \E h \in Hosts : HostStep(h)
  BY <1>3, SameStatus DEF HostStep, EnqueueReturn, FinishCollect, ReturnToHost
<1>4. CASE \E t \in Threads : Worker(t)
  <2>1. PICK t \in Threads : Worker(t)
    BY <1>4
  <2>2. CASE MarkRunning(t)
    <3>1. /\ pc[t] = "running" /\ status' = Signal(job[t][1], RUNNING)
          /\ UNCHANGED <<last, queue, waits, pushed>>
      BY <2>2 DEF MarkRunning
    <3>2. job[t][1] \in 1 .. last
      BY <3>1 DEF IInv, ProcInv
    <3>3. QED
      BY <3>1, <3>2, LightSignalUnseen
  <2>3. CASE MarkCompleted(t)
    BY <2>3, MarkCompletedRefines
  <2>4. CASE Take(t) \/ NotifyStart(t) \/ NotifyCompletion(t) \/ CommandDone(t)
               \/ CommandErase(t)
    BY <2>4, SameStatus DEF Take, NotifyStart, NotifyCompletion, CommandDone, CommandErase
  <2>5. QED
    BY <2>1, <2>2, <2>3, <2>4 DEF Worker
<1>5. CASE UNCHANGED vars
  BY <1>5, SameStatus DEF vars
<1>6. QED
  BY <1>1, <1>2, <1>3, <1>4, <1>5 DEF Next

(* InOrderQueue::RunScheduler, CPUDevice::Submit, MarkCompleted and        *)
(* CommandDone together implement the order that an application is         *)
(* promised, for any number of queues, hosts, workers and commands.        *)
THEOREM Implements_Command_Order == Spec => ImplementsCommandOrder
<1>1. Init => Order!Init
  BY InitRefines
<1>2. IInv /\ IInv' /\ [Next]_vars => [Order!Next]_(Order!vars)
  BY NextRefines DEF OrderStep
<1>3. QED
  BY <1>1, <1>2, Invariance, PTL DEF Spec, ImplementsCommandOrder, Order!Spec
=============================================================================
