--------------------------- MODULE AsyncCopyProofs --------------------------
(***************************************************************************)
(* Asynchronous copies never use a deleted job, and a wait that has gone   *)
(* past a copy found it made, for any number of threads, groups and        *)
(* copies, whether or not the pool is destroyed meanwhile.                 *)
(***************************************************************************)
EXTENDS AsyncCopy, SequenceTheorems, TLAPS

(* A job in the list of the pool is there once and was not completed.      *)
ListInv == \A i \in 1 .. Len(jobs) :
  /\ jobs[i] <= issued
  /\ jobs[i] \notin completed
  /\ \A k \in 1 .. Len(jobs) : jobs[k] = jobs[i] => k = i

(* The job a worker uses is not in the list, is used by no other worker,   *)
(* and was not completed.                                                  *)
WorkerInv == \A w \in Workers : InUse(w) # None =>
  /\ InUse(w) <= issued
  /\ InUse(w) \notin completed
  /\ \A i \in 1 .. Len(jobs) : jobs[i] # InUse(w)
  /\ \A v \in Workers : InUse(v) = InUse(w) => v = w
  /\ wpc[w] = "complete" => InUse(w) \in ran

(* What was completed was carried out; what was deleted was completed.     *)
DoneInv ==
  /\ completed \subseteq ran
  /\ deleted \subseteq completed
  /\ \A j \in completed : j <= issued

(* A group is woken by the completion of the job it waits for.             *)
GroupInv == \A g \in Groups :
  /\ Len(copies[g]) <= issued
  /\ gpc[g] # "idle" => idx[g] \in 1 .. Len(copies[g])
  /\ gpc[g] = "woken" => copies[g][idx[g]] \in completed

Inv == TypeOK /\ ListInv /\ WorkerInv /\ DoneInv /\ GroupInv

-----------------------------------------------------------------------------
LEMMA Constants ==
  /\ NumThreads \in Nat /\ NumThreads > 0 /\ MaxJobs \in Nat
  /\ None \notin Jobs /\ 1 \in Workers
BY PoolAssumption DEF Workers

LEMMA InitInv == Init => Inv
<1> SUFFICES ASSUME Init PROVE Inv
  OBVIOUS
<1> USE Constants
<1>1. TypeOK
  <2>1. end \in [Workers -> BOOLEAN] /\ crashed \in BOOLEAN
    BY Zenon DEF Init
  <2>2. /\ jobs \in Seq(Jobs) /\ issued \in 0 .. MaxJobs /\ cur \in Workers
        /\ idx \in [Groups -> 0 .. MaxJobs] /\ copies \in [Groups -> Seq(Jobs)]
    BY DEF Init
  <2>3. /\ wpc \in [Workers -> {"check", "waiting", "run", "complete", "forget", "exited"}]
        /\ wjob \in [Workers -> Jobs \cup {None}]
        /\ gpc \in [Groups -> {"idle", "loop", "blocked", "woken"}]
        /\ dpc \in {"alive", "quit", "join", "done"}
        /\ completed \subseteq Jobs /\ deleted \subseteq Jobs /\ ran \subseteq Jobs
    BY DEF Init
  <2> QED
    BY <2>1, <2>2, <2>3 DEF TypeOK
<1>2. ListInv /\ WorkerInv /\ DoneInv /\ GroupInv
  BY DEF Init, ListInv, WorkerInv, DoneInv, GroupInv, InUse
<1> QED
  BY <1>1, <1>2 DEF Inv

(* Monitor::Signal wakes at most one waiting worker.                       *)
LEMMA SignalledWorkers ==
  ASSUME TypeOK, wpc' \in Signalled(wpc)
  PROVE  /\ wpc' \in [Workers -> {"check", "waiting", "run", "complete", "forget", "exited"}]
         /\ \A w \in Workers : wpc'[w] = wpc[w] \/ (wpc[w] = "waiting" /\ wpc'[w] = "check")
<1>1. CASE wpc' = wpc
  BY <1>1 DEF TypeOK
<1>2. CASE \E w \in Workers : wpc[w] = "waiting" /\ wpc' = [wpc EXCEPT ![w] = "check"]
  BY <1>2 DEF TypeOK
<1> QED
  BY <1>1, <1>2 DEF Signalled

-----------------------------------------------------------------------------
LEMMA InUseIsJob ==
  ASSUME TypeOK, NEW w \in Workers, InUse(w) # None
  PROVE  InUse(w) \in Jobs
BY DEF TypeOK, InUse

(* A new job is none of those that exist.                                  *)
LEMMA AsyncWorkGroupCopyInv ==
  ASSUME Inv, NEW g \in Groups, AsyncWorkGroupCopy(g)
  PROVE  Inv'
<1> USE Constants DEF Inv
<1> DEFINE j == issued + 1
           n == Len(jobs)
<1>0. /\ issued < MaxJobs /\ issued' = j /\ gpc[g] = "idle"
      /\ jobs' = Append(jobs, j) /\ wpc' \in Signalled(wpc)
      /\ copies' = [copies EXCEPT ![g] = Append(@, j)]
      /\ UNCHANGED <<wjob, end, completed, deleted, gpc, idx, dpc, cur, crashed, ran>>
  BY DEF AsyncWorkGroupCopy, EnqueueJob, dtorVars
<1>1. j \in Jobs /\ issued \in Nat /\ n \in Nat /\ jobs \in Seq(Jobs)
      /\ copies[g] \in Seq(Jobs) /\ Len(copies[g]) \in Nat
  BY <1>0 DEF TypeOK, Jobs
<1>2. /\ Len(jobs') = n + 1 /\ jobs'[n + 1] = j /\ jobs' \in Seq(Jobs)
      /\ \A i \in 1 .. n : jobs'[i] = jobs[i]
  BY <1>0, <1>1
<1>3. /\ copies' \in [Groups -> Seq(Jobs)]
      /\ Len(copies'[g]) = Len(copies[g]) + 1
      /\ \A h \in Groups : h # g => copies'[h] = copies[h]
  BY <1>0, <1>1 DEF TypeOK
<1>4. \A w \in Workers :
        /\ wpc'[w] = "complete" => wpc[w] = "complete"
        /\ InUse(w)' = InUse(w)
  BY <1>0, SignalledWorkers DEF InUse
<1>5. TypeOK'
  <2>1. wpc' \in [Workers -> {"check", "waiting", "run", "complete", "forget", "exited"}]
    BY <1>0, SignalledWorkers
  <2>2. issued' \in 0 .. MaxJobs
    BY <1>0, <1>1
  <2> QED
    BY <2>1, <2>2, <1>0, <1>2, <1>3 DEF TypeOK
<1> HIDE DEF n, j
<1>6. \A i \in 1 .. Len(jobs') :
        \/ i = n + 1 /\ jobs'[i] = j
        \/ i \in 1 .. n /\ jobs'[i] = jobs[i] /\ jobs[i] \in Jobs /\ jobs[i] <= issued
  BY <1>1, <1>2 DEF ListInv, n
<1>7. j > issued /\ j \in Int
  BY <1>1 DEF j
<1>8. ListInv'
  <2> SUFFICES ASSUME NEW i \in 1 .. Len(jobs')
               PROVE  /\ jobs'[i] <= issued' /\ jobs'[i] \notin completed
                      /\ \A k \in 1 .. Len(jobs') : jobs'[k] = jobs'[i] => k = i
    BY <1>0 DEF ListInv
  <2>1. CASE i = n + 1 /\ jobs'[i] = j
    <3>1. j \notin completed
      BY <1>7, <1>1 DEF DoneInv
    <3>2. \A k \in 1 .. Len(jobs') : jobs'[k] = j => k = n + 1
      <4> SUFFICES ASSUME NEW k \in 1 .. Len(jobs'), jobs'[k] = j, k # n + 1
                   PROVE  FALSE
        OBVIOUS
      <4>1. jobs[k] \in Jobs /\ jobs[k] <= issued /\ jobs[k] = j
        BY <1>6
      <4> QED
        BY <4>1, <1>7, <1>1 DEF Jobs
    <3> QED
      BY <2>1, <3>1, <3>2, <1>0, <1>7
  <2>2. CASE i \in 1 .. n /\ jobs'[i] = jobs[i]
    <3>1. /\ jobs[i] <= issued /\ jobs[i] \notin completed /\ jobs[i] \in Jobs
          /\ \A k \in 1 .. n : jobs[k] = jobs[i] => k = i
      BY <2>2, <1>1, <1>6, <1>2 DEF ListInv, n
    <3>2. jobs[i] # j
      BY <3>1, <1>7, <1>1 DEF Jobs
    <3>3. jobs'[i] <= issued' /\ jobs'[i] \notin completed
      BY <2>2, <3>1, <1>0, <1>1, <1>7 DEF Jobs
    <3>4. ASSUME NEW k \in 1 .. Len(jobs'), jobs'[k] = jobs'[i] PROVE k = i
      <4>1. k \in 1 .. n /\ jobs'[k] = jobs[k]
        BY <2>2, <3>2, <3>4, <1>6
      <4> QED
        BY <2>2, <3>1, <3>4, <4>1
    <3> QED
      BY <3>3, <3>4
  <2> QED
    BY <2>1, <2>2, <1>6
<1>9. WorkerInv'
  <2> SUFFICES ASSUME NEW w \in Workers, InUse(w) # None
               PROVE  /\ InUse(w) <= issued' /\ InUse(w) \notin completed
                      /\ \A i \in 1 .. Len(jobs') : jobs'[i] # InUse(w)
                      /\ \A v \in Workers : InUse(v) = InUse(w) => v = w
                      /\ wpc'[w] = "complete" => InUse(w) \in ran
    BY <1>0, <1>4 DEF WorkerInv
  <2>1. /\ InUse(w) <= issued /\ InUse(w) \notin completed
        /\ \A i \in 1 .. n : jobs[i] # InUse(w)
        /\ \A v \in Workers : InUse(v) = InUse(w) => v = w
        /\ wpc[w] = "complete" => InUse(w) \in ran
    BY DEF WorkerInv, n
  <2>2. InUse(w) \in Jobs
    BY InUseIsJob
  <2>3. InUse(w) # j /\ InUse(w) <= issued'
    BY <2>1, <2>2, <1>0, <1>1, <1>7 DEF Jobs
  <2> QED
    BY <2>1, <2>3, <1>4, <1>6
<1>10. DoneInv'
  <2>1. \A i \in completed : i \in Int
    BY DEF TypeOK, Jobs
  <2> QED
    BY <2>1, <1>0, <1>1, <1>7 DEF DoneInv
<1>11. GroupInv'
  <2> SUFFICES ASSUME NEW h \in Groups
               PROVE  /\ Len(copies'[h]) <= issued'
                      /\ gpc[h] # "idle" => idx[h] \in 1 .. Len(copies'[h])
                      /\ gpc[h] = "woken" => copies'[h][idx[h]] \in completed
    BY <1>0 DEF GroupInv
  <2>1. Len(copies[h]) \in Nat
    BY DEF TypeOK
  <2>2. CASE h = g
    BY <2>2, <1>0, <1>1, <1>3 DEF GroupInv, j
  <2>3. CASE h # g
    BY <2>1, <2>3, <1>0, <1>1, <1>3, <1>7 DEF GroupInv, j
  <2> QED
    BY <2>2, <2>3
<1> QED
  BY <1>5, <1>8, <1>9, <1>10, <1>11

(* The list is as it was, and workers use no other jobs than before.       *)
LEMMA PoolFrame ==
  ASSUME ListInv, WorkerInv, UNCHANGED <<jobs, issued, completed, ran>>,
         \A w \in Workers : /\ InUse(w)' \in {InUse(w), None}
                            /\ wpc'[w] = "complete" => wpc[w] = "complete"
  PROVE  ListInv' /\ WorkerInv'
<1>1. ListInv'
  BY DEF ListInv
<1>2. WorkerInv'
  <2> SUFFICES ASSUME NEW w \in Workers, InUse(w)' # None
               PROVE  /\ InUse(w)' <= issued /\ InUse(w)' \notin completed
                      /\ \A i \in 1 .. Len(jobs) : jobs[i] # InUse(w)'
                      /\ \A v \in Workers : InUse(v)' = InUse(w)' => v = w
                      /\ wpc'[w] = "complete" => InUse(w)' \in ran
    BY DEF WorkerInv
  <2>1. InUse(w)' = InUse(w)
    OBVIOUS
  <2>2. /\ InUse(w) <= issued /\ InUse(w) \notin completed
        /\ \A i \in 1 .. Len(jobs) : jobs[i] # InUse(w)
        /\ \A v \in Workers : InUse(v) = InUse(w) => v = w
        /\ wpc[w] = "complete" => InUse(w) \in ran
    BY <2>1 DEF WorkerInv
  <2> QED
    BY <2>1, <2>2
<1> QED
  BY <1>1, <1>2

(* Nothing that InUse depends on changes.                                  *)
LEMMA SameInUse ==
  ASSUME UNCHANGED <<wpc, wjob>>
  PROVE  \A w \in Workers : InUse(w)' \in {InUse(w), None}
BY DEF InUse

LEMMA WaitGroupEventsInv ==
  ASSUME Inv, NEW g \in Groups, WaitGroupEvents(g)
  PROVE  Inv'
<1> USE Constants DEF Inv
<1>0. /\ UNCHANGED <<jobs, issued, wpc, wjob, end, completed, deleted, copies,
                     dpc, cur, crashed, ran>>
      /\ gpc' = [gpc EXCEPT ![g] = "loop"] /\ idx' = [idx EXCEPT ![g] = 1]
      /\ copies[g] # <<>>
  BY DEF WaitGroupEvents, poolVars, dtorVars
<1>1. copies[g] \in Seq(Jobs) /\ Len(copies[g]) \in Nat /\ Len(copies[g]) > 0
  BY <1>0 DEF TypeOK
<1>2. 1 \in 0 .. MaxJobs
  BY <1>1 DEF GroupInv, TypeOK
<1>3. TypeOK'
  BY <1>0, <1>2 DEF TypeOK
<1>4. ListInv' /\ WorkerInv' /\ DoneInv'
  BY <1>0, PoolFrame, SameInUse DEF DoneInv
<1>5. GroupInv'
  BY <1>0, <1>1 DEF GroupInv, TypeOK
<1> QED
  BY <1>3, <1>4, <1>5

LEMMA WaitBlockInv ==
  ASSUME Inv, NEW g \in Groups, WaitBlock(g)
  PROVE  Inv'
<1> USE Constants DEF Inv
<1>0. /\ UNCHANGED <<jobs, issued, wpc, wjob, end, completed, deleted, copies, idx,
                     dpc, cur, crashed, ran>>
      /\ gpc' = [gpc EXCEPT ![g] = "blocked"] /\ gpc[g] = "loop"
  BY DEF WaitBlock, poolVars, dtorVars
<1>1. TypeOK'
  BY <1>0 DEF TypeOK
<1>2. ListInv' /\ WorkerInv' /\ DoneInv'
  BY <1>0, PoolFrame, SameInUse DEF DoneInv
<1>3. GroupInv'
  BY <1>0 DEF GroupInv, TypeOK
<1> QED
  BY <1>1, <1>2, <1>3

(* Whether it waited or not, the group deletes a job that was completed.   *)
LEMMA WaitNextInv ==
  ASSUME Inv, NEW g \in Groups, WaitNext(g)
  PROVE  Inv'
<1> USE Constants DEF Inv
<1> DEFINE j == copies[g][idx[g]]
           over == idx[g] = Len(copies[g])
<1>0. /\ UNCHANGED <<jobs, issued, wpc, wjob, end, completed, dpc, cur, crashed, ran>>
      /\ deleted' = deleted \cup {j}
      /\ gpc' = [gpc EXCEPT ![g] = IF over THEN "idle" ELSE "loop"]
      /\ copies' = [copies EXCEPT ![g] = IF over THEN <<>> ELSE @]
      /\ idx' = [idx EXCEPT ![g] = IF over THEN 0 ELSE @ + 1]
      /\ gpc[g] # "idle"
  BY DEF WaitNext, poolVars, dtorVars
<1>1. j \in completed
  BY DEF WaitNext, MustWait, GroupInv
<1>2. copies[g] \in Seq(Jobs) /\ Len(copies[g]) \in Nat /\ Len(copies[g]) <= MaxJobs
      /\ idx[g] \in 1 .. Len(copies[g]) /\ <<>> \in Seq(Jobs) /\ Len(<<>>) = 0
  BY <1>0 DEF TypeOK, GroupInv
<1>3. TypeOK'
  <2>1. idx' \in [Groups -> 0 .. MaxJobs]
    BY <1>0, <1>2 DEF TypeOK
  <2>2. copies' \in [Groups -> Seq(Jobs)]
    BY <1>0, <1>2 DEF TypeOK
  <2>3. deleted' \subseteq Jobs
    BY <1>0, <1>1 DEF TypeOK
  <2>4. gpc' \in [Groups -> {"idle", "loop", "blocked", "woken"}]
    BY <1>0 DEF TypeOK
  <2> QED
    BY <2>1, <2>2, <2>3, <2>4, <1>0 DEF TypeOK
<1>4. ListInv' /\ WorkerInv'
  BY <1>0, PoolFrame, SameInUse
<1>5. DoneInv'
  BY <1>0, <1>1 DEF DoneInv
<1>6. GroupInv'
  <2> SUFFICES ASSUME NEW h \in Groups
               PROVE  /\ Len(copies'[h]) <= issued
                      /\ gpc'[h] # "idle" => idx'[h] \in 1 .. Len(copies'[h])
                      /\ gpc'[h] = "woken" => copies'[h][idx'[h]] \in completed
    BY <1>0 DEF GroupInv
  <2>1. CASE h = g
    <3>1. issued \in Nat
      BY DEF TypeOK
    <3>2. CASE over
      BY <3>1, <3>2, <2>1, <1>0, <1>2 DEF TypeOK
    <3>3. CASE ~ over
      <4>1. gpc'[g] = "loop" /\ idx'[g] = idx[g] + 1 /\ copies'[g] = copies[g]
        BY <3>3, <1>0 DEF TypeOK
      <4>2. Len(copies[g]) <= issued
        BY DEF GroupInv
      <4> QED
        BY <3>3, <4>1, <4>2, <2>1, <1>2
    <3> QED
      BY <3>2, <3>3
  <2>2. CASE h # g
    <3>1. gpc'[h] = gpc[h] /\ idx'[h] = idx[h] /\ copies'[h] = copies[h]
      BY <2>2, <1>0 DEF TypeOK
    <3> QED
      BY <3>1 DEF GroupInv
  <2> QED
    BY <2>1, <2>2
<1> QED
  BY <1>3, <1>4, <1>5, <1>6

-----------------------------------------------------------------------------
(* The threads of the pool.                                                *)
LEMMA WorkerPcInv ==
  ASSUME Inv, NEW w \in Workers, WorkerWait(w) \/ WorkerExit(w)
  PROVE  Inv'
<1> USE DEF Inv
<1>0. UNCHANGED <<jobs, issued, wjob, end, completed, deleted, gpc, copies, idx,
                  dpc, cur, crashed, ran>>
  BY DEF WorkerWait, WorkerExit, groupVars, dtorVars
<1>1. /\ wpc' \in [Workers -> {"check", "waiting", "run", "complete", "forget", "exited"}]
      /\ \A v \in Workers : /\ wpc'[v] = "complete" => wpc[v] = "complete"
                            /\ InUse(v)' \in {InUse(v), None}
  BY <1>0 DEF WorkerWait, WorkerExit, TypeOK, InUse
<1>2. TypeOK'
  BY <1>0, <1>1 DEF TypeOK
<1>3. ListInv' /\ WorkerInv' /\ DoneInv' /\ GroupInv'
  BY <1>0, <1>1, PoolFrame DEF DoneInv, GroupInv
<1> QED
  BY <1>2, <1>3

(* A job moves from the list to a worker.                                  *)
LEMMA WorkerTakeInv ==
  ASSUME Inv, NEW w \in Workers, WorkerTake(w)
  PROVE  Inv'
<1> USE Constants DEF Inv
<1> DEFINE n == Len(jobs)
           j == jobs[1]
<1>0. /\ UNCHANGED <<issued, end, completed, deleted, gpc, copies, idx,
                     dpc, cur, crashed, ran>>
      /\ wjob' = [wjob EXCEPT ![w] = j] /\ jobs' = Tail(jobs)
      /\ wpc' = [wpc EXCEPT ![w] = "run"]
      /\ jobs # <<>> /\ jobs \in Seq(Jobs)
  BY DEF WorkerTake, groupVars, dtorVars, TypeOK
<1>1. /\ n \in Nat /\ n > 0 /\ 1 \in 1 .. n /\ j \in Jobs
      /\ jobs' \in Seq(Jobs) /\ Len(jobs') = n - 1
      /\ \A i \in 1 .. (n - 1) : jobs'[i] = jobs[i + 1]
  BY <1>0
<1>2. TypeOK'
  <2>1. wjob' \in [Workers -> Jobs \cup {None}]
    BY <1>0, <1>1 DEF TypeOK
  <2>2. wpc' \in [Workers -> {"check", "waiting", "run", "complete", "forget", "exited"}]
    BY <1>0 DEF TypeOK
  <2> QED
    BY <2>1, <2>2, <1>0, <1>1 DEF TypeOK
<1>3. \A i \in 1 .. Len(jobs') :
         i \in Nat /\ i + 1 \in 1 .. n /\ i + 1 # 1 /\ jobs'[i] = jobs[i + 1]
  BY <1>1
<1>4. /\ j <= issued /\ j \notin completed
      /\ \A k \in 1 .. n : jobs[k] = j => k = 1
  BY <1>1 DEF ListInv
<1>5. \A v \in Workers : InUse(v) # j
  BY <1>1 DEF WorkerInv
<1>6. /\ \A v \in Workers : v # w => InUse(v)' = InUse(v) /\ wpc'[v] = wpc[v]
      /\ InUse(w)' = j /\ wpc'[w] = "run"
  BY <1>0 DEF TypeOK, InUse
<1> HIDE DEF n, j
<1>7. ListInv'
  <2> SUFFICES ASSUME NEW i \in 1 .. Len(jobs')
               PROVE  /\ jobs'[i] <= issued /\ jobs'[i] \notin completed
                      /\ \A k \in 1 .. Len(jobs') : jobs'[k] = jobs'[i] => k = i
    BY <1>0 DEF ListInv
  <2>1. /\ jobs[i + 1] <= issued /\ jobs[i + 1] \notin completed
        /\ \A k \in 1 .. n : jobs[k] = jobs[i + 1] => k = i + 1
    BY <1>3 DEF ListInv, n
  <2> QED
    BY <2>1, <1>3
<1>8. WorkerInv'
  <2> SUFFICES ASSUME NEW v \in Workers, InUse(v)' # None
               PROVE  /\ InUse(v)' <= issued /\ InUse(v)' \notin completed
                      /\ \A i \in 1 .. Len(jobs') : jobs'[i] # InUse(v)'
                      /\ \A u \in Workers : InUse(u)' = InUse(v)' => u = v
                      /\ wpc'[v] = "complete" => InUse(v)' \in ran
    BY <1>0 DEF WorkerInv
  <2>1. CASE v = w
    BY <2>1, <1>3, <1>4, <1>5, <1>6
  <2>2. CASE v # w
    <3>1. /\ InUse(v) <= issued /\ InUse(v) \notin completed
          /\ \A i \in 1 .. n : jobs[i] # InUse(v)
          /\ \A u \in Workers : InUse(u) = InUse(v) => u = v
          /\ wpc[v] = "complete" => InUse(v) \in ran
      BY <2>2, <1>6 DEF WorkerInv, n
    <3> QED
      BY <2>2, <3>1, <1>3, <1>5, <1>6
  <2> QED
    BY <2>1, <2>2
<1>9. DoneInv' /\ GroupInv'
  BY <1>0 DEF DoneInv, GroupInv
<1> QED
  BY <1>2, <1>7, <1>8, <1>9

LEMMA RunJobInv ==
  ASSUME Inv, NEW w \in Workers, RunJob(w)
  PROVE  Inv'
<1> USE DEF Inv
<1>0. /\ UNCHANGED <<jobs, issued, wjob, end, completed, deleted, gpc, copies, idx,
                     dpc, cur, crashed>>
      /\ ran' = ran \cup {wjob[w]} /\ wjob[w] \in Jobs
      /\ wpc' = [wpc EXCEPT ![w] = "complete"]
  BY DEF RunJob, groupVars, dtorVars, TypeOK
<1>1. TypeOK'
  BY <1>0 DEF TypeOK
<1>2. ListInv' /\ DoneInv' /\ GroupInv'
  BY <1>0 DEF ListInv, DoneInv, GroupInv
<1>3. /\ \A v \in Workers : InUse(v)' = InUse(v)
      /\ \A v \in Workers : v # w => wpc'[v] = wpc[v]
      /\ InUse(w) = wjob[w]
  BY <1>0 DEF RunJob, InUse, TypeOK
<1>4. WorkerInv'
  BY <1>0, <1>3 DEF WorkerInv
<1> QED
  BY <1>1, <1>2, <1>4

(* Job::SetCompleted is the last use of a job by its worker.               *)
LEMMA CompleteJobInv ==
  ASSUME Inv, NEW w \in Workers, CompleteJob(w)
  PROVE  Inv'
<1> USE Constants DEF Inv
<1> DEFINE j == wjob[w]
<1>0. /\ UNCHANGED <<jobs, issued, wjob, end, deleted, copies, idx, dpc, cur, crashed, ran>>
      /\ j # None /\ wpc[w] = "complete"
      /\ completed' = completed \cup {j}
      /\ gpc' = [g \in Groups |-> IF g \in WokenBy(j) THEN "woken" ELSE gpc[g]]
      /\ wpc' = [wpc EXCEPT ![w] = "forget"]
  BY DEF CompleteJob, dtorVars
<1>1. /\ j \in Jobs /\ j \in ran /\ j <= issued
      /\ \A i \in 1 .. Len(jobs) : jobs[i] # j
      /\ \A v \in Workers : v # w => InUse(v) # j
  <2>1. InUse(w) = j
    BY <1>0 DEF InUse
  <2> QED
    BY <1>0, <2>1 DEF WorkerInv, TypeOK
<1>2. /\ \A v \in Workers : v # w => InUse(v)' = InUse(v) /\ wpc'[v] = wpc[v]
      /\ InUse(w)' = None
  BY <1>0 DEF TypeOK, InUse
<1>3. TypeOK'
  <2>1. wpc' \in [Workers -> {"check", "waiting", "run", "complete", "forget", "exited"}]
    BY <1>0 DEF TypeOK
  <2>2. gpc' \in [Groups -> {"idle", "loop", "blocked", "woken"}]
    BY <1>0 DEF TypeOK
  <2>3. completed' \subseteq Jobs
    BY <1>0, <1>1 DEF TypeOK
  <2> QED
    BY <2>1, <2>2, <2>3, <1>0 DEF TypeOK
<1>4. ListInv'
  BY <1>0, <1>1 DEF ListInv
<1>5. WorkerInv'
  BY <1>0, <1>1, <1>2 DEF WorkerInv
<1>6. DoneInv'
  BY <1>0, <1>1 DEF DoneInv
<1>7. GroupInv'
  BY <1>0 DEF GroupInv, WokenBy
<1> QED
  BY <1>3, <1>4, <1>5, <1>6, <1>7

(* The pointer that is dropped is not used any more.                       *)
LEMMA ForgetJobInv ==
  ASSUME Inv, NEW w \in Workers, ForgetJob(w)
  PROVE  Inv'
<1> USE Constants DEF Inv
<1>0. /\ UNCHANGED <<jobs, issued, end, completed, deleted, gpc, copies, idx,
                     dpc, cur, crashed, ran>>
      /\ wjob' = [wjob EXCEPT ![w] = None]
      /\ wpc' = [wpc EXCEPT ![w] = "check"]
  BY DEF ForgetJob, groupVars, dtorVars
<1>1. TypeOK'
  BY <1>0 DEF TypeOK
<1>2. \A v \in Workers : /\ InUse(v)' \in {InUse(v), None}
                         /\ wpc'[v] = "complete" => wpc[v] = "complete"
  BY <1>0 DEF InUse, TypeOK
<1>3. ListInv' /\ WorkerInv'
  BY <1>0, <1>2, PoolFrame
<1>4. DoneInv' /\ GroupInv'
  BY <1>0 DEF DoneInv, GroupInv
<1> QED
  BY <1>1, <1>3, <1>4

-----------------------------------------------------------------------------
(* The destructor: Quit resets the job of a worker, which only makes it    *)
(* fewer.                                                                  *)
LEMMA QuitInv ==
  ASSUME Inv, Quit
  PROVE  Inv'
<1> USE Constants DEF Inv
<1>0. /\ UNCHANGED <<jobs, issued, completed, deleted, gpc, copies, idx, cur, crashed, ran>>
      /\ end' = [end EXCEPT ![cur] = TRUE]
      /\ wjob' = [wjob EXCEPT ![cur] = None]
      /\ wpc' \in Signalled(wpc) /\ dpc' = "join"
  BY DEF Quit, groupVars
<1>1. /\ wpc' \in [Workers -> {"check", "waiting", "run", "complete", "forget", "exited"}]
      /\ \A w \in Workers : wpc'[w] = "complete" => wpc[w] = "complete"
  BY <1>0, SignalledWorkers
<1>2. TypeOK'
  <2>1. wjob' \in [Workers -> Jobs \cup {None}]
    BY <1>0 DEF TypeOK
  <2>2. end' \in [Workers -> BOOLEAN]
    BY <1>0 DEF TypeOK
  <2> QED
    BY <2>1, <2>2, <1>0, <1>1 DEF TypeOK
<1>3. \A w \in Workers : InUse(w)' \in {InUse(w), None}
  <2>1. \A w \in Workers : wjob'[w] \in {wjob[w], None}
    BY <1>0 DEF TypeOK
  <2>2. \A w \in Workers : wpc'[w] = wpc[w] \/ wpc'[w] = "check"
    BY <1>0, SignalledWorkers
  <2> QED
    BY <2>1, <2>2 DEF InUse
<1>4. ListInv' /\ WorkerInv'
  BY <1>0, <1>1, <1>3, PoolFrame
<1>5. DoneInv' /\ GroupInv'
  BY <1>0 DEF DoneInv, GroupInv
<1> QED
  BY <1>2, <1>4, <1>5

LEMMA DestructorInv ==
  ASSUME Inv, ShutDown \/ Join
  PROVE  Inv'
<1> USE Constants DEF Inv
<1>0. UNCHANGED <<jobs, issued, wpc, wjob, end, completed, deleted, gpc, copies, idx,
                  crashed, ran>>
  BY DEF ShutDown, Join, groupVars, poolVars
<1>1. dpc' \in {"alive", "quit", "join", "done"} /\ cur' \in Workers
  BY DEF ShutDown, Join, TypeOK, Workers
<1>2. TypeOK'
  BY <1>0, <1>1 DEF TypeOK
<1>3. ListInv' /\ WorkerInv' /\ DoneInv' /\ GroupInv'
  BY <1>0, PoolFrame, SameInUse DEF DoneInv, GroupInv
<1> QED
  BY <1>2, <1>3

(* A crash, or no step at all.                                             *)
LEMMA IdleInv ==
  ASSUME Inv, (\E w \in Workers : NullJob(w)) \/ UNCHANGED vars
  PROVE  Inv'
<1> USE DEF Inv
<1>0. /\ UNCHANGED <<jobs, issued, wpc, wjob, end, completed, deleted, gpc, copies, idx,
                     dpc, cur, ran>>
  BY DEF NullJob, groupVars, poolVars, dtorVars, vars
<1>1. crashed' \in BOOLEAN
  <2>1. CASE \E w \in Workers : NullJob(w)
    BY <2>1, Zenon DEF NullJob
  <2>2. CASE UNCHANGED vars
    BY <2>2 DEF vars, TypeOK
  <2> QED
    BY <2>1, <2>2
<1>2. TypeOK'
  BY <1>0, <1>1 DEF TypeOK
<1>3. ListInv' /\ WorkerInv' /\ DoneInv' /\ GroupInv'
  BY <1>0, PoolFrame, SameInUse DEF DoneInv, GroupInv
<1> QED
  BY <1>2, <1>3

-----------------------------------------------------------------------------
LEMMA NextInv == Inv /\ [Next]_vars => Inv'
<1> SUFFICES ASSUME Inv, [Next]_vars PROVE Inv'
  OBVIOUS
<1>1. ASSUME NEW w \in Workers, Worker(w) PROVE Inv'
  BY <1>1, WorkerPcInv, WorkerTakeInv, RunJobInv, CompleteJobInv, ForgetJobInv, IdleInv DEF Worker
<1>2. ASSUME NEW g \in Groups,
             AsyncWorkGroupCopy(g) \/ WaitGroupEvents(g) \/ GroupStep(g)
      PROVE  Inv'
  BY <1>2, AsyncWorkGroupCopyInv, WaitGroupEventsInv, WaitBlockInv, WaitNextInv
     DEF GroupStep
<1>3. CASE ShutDown \/ Quit \/ Join
  BY <1>3, QuitInv, DestructorInv
<1>4. CASE UNCHANGED vars
  BY <1>4, IdleInv
<1> QED
  BY <1>1, <1>2, <1>3, <1>4 DEF Next

LEMMA Invariance == Spec => []Inv
BY InitInv, NextInv, PTL DEF Spec

(* WaitGroupEvents deletes no job that the list of the pool refers to or   *)
(* that a worker is going to use.                                          *)
THEOREM No_Use_After_Free == Spec => []NoUseAfterFree
<1>1. Inv => NoUseAfterFree
  <2> SUFFICES ASSUME Inv PROVE NoUseAfterFree
    OBVIOUS
  <2>1. \A i \in DOMAIN jobs : jobs[i] \notin deleted
    <3>1. DOMAIN jobs = 1 .. Len(jobs)
      BY DEF Inv, TypeOK
    <3> QED
      BY <3>1 DEF Inv, ListInv, DoneInv
  <2>2. \A w \in Workers : InUse(w) \notin deleted
    BY Constants DEF Inv, TypeOK, WorkerInv, DoneInv
  <2> QED
    BY <2>1, <2>2 DEF NoUseAfterFree
<1> QED
  BY <1>1, Invariance, PTL

(* When WaitGroupEvents has gone past a copy, AsyncCopyThread has made it. *)
THEOREM Waited_Copies_Are_Made == Spec => []WaitedCopiesAreMade
<1>1. Inv => WaitedCopiesAreMade
  BY DEF Inv, DoneInv, WaitedCopiesAreMade
<1> QED
  BY <1>1, Invariance, PTL
=============================================================================
