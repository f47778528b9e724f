------------------------ MODULE WorkerTearDownProofs ------------------------
(***************************************************************************)
(* The workers of a device under tear-down, for any number of workers,     *)
(* blocks and submissions: no worker leaves a command behind, and only a   *)
(* submission all of whose blocks were executed completes the kernel.      *)
(***************************************************************************)
EXTENDS WorkerTearDown, FiniteSetTheorems, SequenceTheorems, TLAPS

\* The stop command is in the list of a worker, and it is the last one.
StopIsLast(s) == s # <<>> /\ \A i \in 1..Len(s) : s[i] = Stop <=> i = Len(s)

\* What the mode of a worker says about its list.  Nothing follows the stop
\* command: Submit refuses commands from the moment it is in the list.
ModeInv == \A w \in Workers :
    /\ mode[w] = "operational" => \A i \in 1..Len(commands[w]) : commands[w][i] # Stop
    /\ mode[w] = "teardown" => \/ StopIsLast(commands[w])
                               \/ wpc[w] = "execute" /\ cur[w] = Stop
    /\ mode[w] = "stopped" => commands[w] = <<>>
    /\ wpc[w] = "exited" => mode[w] = "stopped"
    /\ wpc[w] = "execute" /\ cur[w] = Stop =>
           mode[w] = "teardown" /\ commands[w] = <<>>

\* The destructor has not touched the workers behind the one it is at.
DtorInv ==
    /\ stopped => stopping \in Workers
    /\ \A w \in Workers :
           w > stopping \/ (w = stopping /\ ~stopped) => mode[w] = "operational"

\* Only what was accepted waits for execution, and it does so once.
ListInv == \A w \in Workers : \A i \in 1..Len(commands[w]) :
    commands[w][i] # Stop =>
        /\ commands[w][i] \in accepted \ executed
        /\ \A v \in Workers : \A j \in 1..Len(commands[v]) :
               commands[v][j] = commands[w][i] => v = w /\ j = i

CurInv == \A w \in Workers : wpc[w] = "execute" /\ cur[w] # Stop =>
    /\ cur[w] \in accepted \ executed
    /\ \A v \in Workers : \A j \in 1..Len(commands[v]) : commands[v][j] # cur[w]
    /\ \A v \in Workers : wpc[v] = "execute" /\ cur[v] = cur[w] => v = w

\* What was executed was accepted, and the next block of the submission under
\* way was not accepted yet.
AcceptInv ==
    /\ executed \subseteq accepted
    /\ block # 0 => try # 0
    /\ \A k \in Tries, b \in 1..Blocks : <<k, b>> \in accepted =>
           k <= try /\ (k = try /\ block # 0 => b < block)

\* The counter of a context is the number of blocks that were not executed.
Unexecuted(k) == {b \in 1..Blocks : <<k, b>> \notin executed}

CountInv == \A k \in Tries :
    left[k] = Cardinality(Unexecuted(k)) /\ (k \in done => Unexecuted(k) = {})

Inv == TypeOK /\ ModeInv /\ DtorInv /\ ListInv /\ CurInv /\ AcceptInv /\ CountInv

---------------------------------------------------------------------------
\* The workers, the blocks and the stop command.
LEMMA Constants ==
    /\ NumWorkers \in Nat /\ NumWorkers > 0
    /\ Blocks \in Nat /\ Blocks > 0
    /\ MaxTries \in Nat /\ MaxTries > 0
    /\ Stop \notin BlockCommands
    /\ \A c \in WorkerCommands : c # Stop => c \in BlockCommands
BY TearDownAssumption DEF Stop, BlockCommands, WorkerCommands, Tries

LEMMA EmptyList ==
    \A s \in Seq(WorkerCommands) : s = <<>> <=> Len(s) = 0
BY EmptySeq, Zenon

LEMMA UnexecutedFinite ==
    ASSUME NEW k
    PROVE  IsFiniteSet(Unexecuted(k)) /\ Cardinality(Unexecuted(k)) \in 0..Blocks
<1>1. Blocks \in Nat
    BY TearDownAssumption
<1>2. IsFiniteSet(1..Blocks) /\ Cardinality(1..Blocks) = Blocks
    BY <1>1, FS_Interval
<1>3. Unexecuted(k) \subseteq 1..Blocks
    BY DEF Unexecuted
<1>4. IsFiniteSet(Unexecuted(k)) /\ Cardinality(Unexecuted(k)) <= Cardinality(1..Blocks)
    BY <1>2, <1>3, FS_Subset
<1>5. Cardinality(Unexecuted(k)) \in Nat
    BY <1>4, FS_CardinalityType
<1> QED
    BY <1>1, <1>2, <1>4, <1>5

LEMMA InitInv == Init => Inv
<1> SUFFICES ASSUME Init PROVE Inv
    OBVIOUS
<1> USE Constants
<1>0. /\ Stop \in WorkerCommands /\ <<>> \in Seq(WorkerCommands)
      /\ Blocks \in 0..Blocks /\ 0 \in 0..Blocks /\ 0 \in 0..MaxTries
      /\ 1 \in 1..(NumWorkers + 1)
    BY DEF WorkerCommands
<1>1. TypeOK
    BY <1>0 DEF Init, TypeOK
<1>2. ModeInv
    BY DEF Init, ModeInv
<1>3. DtorInv
    BY DEF Init, DtorInv
<1>4. ListInv /\ CurInv /\ AcceptInv
    BY DEF Init, ListInv, CurInv, AcceptInv
<1>5. CountInv
    <2>1. \A k \in Tries : Unexecuted(k) = 1..Blocks
        BY DEF Init, Unexecuted
    <2>2. Cardinality(1..Blocks) = Blocks
        BY FS_Interval
    <2> QED
        BY <2>1, <2>2 DEF Init, CountInv
<1> QED
    BY <1>1, <1>2, <1>3, <1>4, <1>5 DEF Inv

---------------------------------------------------------------------------
\* The executed blocks and the counters stay as they are.
LEMMA CountFrame ==
    ASSUME CountInv, UNCHANGED <<executed, left, done>>
    PROVE  CountInv'
BY DEF CountInv, Unexecuted

LEMMA StartSubmissionInv ==
    ASSUME Inv, StartSubmission
    PROVE  Inv'
<1> USE Constants DEF Inv
<1>1. TypeOK'
    BY DEF StartSubmission, TypeOK, dtorVars
<1>2. ModeInv' /\ DtorInv'
    BY DEF StartSubmission, ModeInv, DtorInv, dtorVars
<1>3. ListInv' /\ CurInv'
    BY DEF StartSubmission, ListInv, CurInv
<1>4. AcceptInv'
    BY DEF StartSubmission, AcceptInv, TypeOK, Tries
<1>5. CountInv'
    BY CountFrame DEF StartSubmission
<1> QED
    BY <1>1, <1>2, <1>3, <1>4, <1>5

\* A command at the end of a list.
LEMMA PushList ==
    ASSUME TypeOK, NEW w \in Workers, NEW c \in WorkerCommands, Push(w, c)
    PROVE  /\ \A v \in Workers : v # w => commands'[v] = commands[v] /\ wpc'[v] = wpc[v]
           /\ Len(commands[w]) \in Nat
           /\ Len(commands'[w]) = Len(commands[w]) + 1
           /\ \A i \in 1..Len(commands[w]) : commands'[w][i] = commands[w][i]
           /\ commands'[w][Len(commands[w]) + 1] = c
           /\ commands'[w] # <<>>
           /\ wpc'[w] = IF wpc[w] = "waiting" THEN "monitor" ELSE wpc[w]
           /\ commands' \in [Workers -> Seq(WorkerCommands)]
<1>1. commands[w] \in Seq(WorkerCommands)
    BY DEF TypeOK
<1>2. commands'[w] = Append(commands[w], c)
    BY DEF Push, TypeOK
<1>3. /\ Len(commands[w]) \in Nat
      /\ Len(commands'[w]) = Len(commands[w]) + 1
      /\ \A i \in 1..Len(commands[w]) : commands'[w][i] = commands[w][i]
      /\ commands'[w][Len(commands[w]) + 1] = c
      /\ commands'[w] \in Seq(WorkerCommands)
    BY <1>1, <1>2
<1>4. commands'[w] # <<>>
    BY <1>3
<1> QED
    BY <1>3, <1>4 DEF Push, TypeOK

\* The lists when a block is accepted that nobody accepted before.
LEMMA PushBlockInv ==
    ASSUME Inv, NEW w \in Workers, NEW c \in BlockCommands, c \notin accepted,
           Push(w, c), ~Refuses(w), accepted' = accepted \cup {c},
           UNCHANGED <<mode, cur, executed, dtorVars>>
    PROVE  ModeInv' /\ DtorInv' /\ ListInv' /\ CurInv'
<1> USE Constants DEF Inv
<1>0. c \in WorkerCommands /\ c # Stop
    BY DEF WorkerCommands
<1> DEFINE n == Len(commands[w]) + 1
<1>1. /\ \A v \in Workers : v # w => commands'[v] = commands[v] /\ wpc'[v] = wpc[v]
      /\ n \in Nat /\ n - 1 \in Nat /\ Len(commands[w]) = n - 1
      /\ Len(commands'[w]) = n
      /\ \A i \in 1..(n - 1) : commands'[w][i] = commands[w][i]
      /\ commands'[w][n] = c
      /\ wpc'[w] = IF wpc[w] = "waiting" THEN "monitor" ELSE wpc[w]
    BY <1>0, PushList
<1>2. mode[w] = "operational"
    BY DEF Refuses, TypeOK
<1> HIDE DEF n
<1>3. ModeInv'
    <2> SUFFICES ASSUME NEW v \in Workers
                 PROVE  (/\ mode[v] = "operational" =>
                              \A i \in 1..Len(commands[v]) : commands[v][i] # Stop
                         /\ mode[v] = "teardown" => \/ StopIsLast(commands[v])
                                                    \/ wpc[v] = "execute" /\ cur[v] = Stop
                         /\ mode[v] = "stopped" => commands[v] = <<>>
                         /\ wpc[v] = "exited" => mode[v] = "stopped"
                         /\ wpc[v] = "execute" /\ cur[v] = Stop =>
                                mode[v] = "teardown" /\ commands[v] = <<>>)'
        BY DEF ModeInv
    <2>1. CASE v = w
        <3>1. \A i \in 1..n : commands'[w][i] # Stop
            <4> TAKE i \in 1..n
            <4>1. CASE i = n
                BY <4>1, <1>0, <1>1
            <4>2. CASE i # n
                <5>1. i \in 1..(n - 1) /\ i \in 1..Len(commands[w])
                    BY <4>2, <1>1
                <5> QED
                    BY <5>1, <1>1, <1>2 DEF ModeInv
            <4> QED
                BY <4>1, <4>2
        <3> QED
            BY <2>1, <3>1, <1>1, <1>2 DEF ModeInv
    <2>2. CASE v # w
        BY <2>2, <1>1 DEF ModeInv
    <2> QED
        BY <2>1, <2>2
<1>4. DtorInv'
    BY DEF DtorInv, dtorVars
\* A command in a list is the new one or it was there, at the same place.
<1>5. \A v \in Workers, i \in Nat : i \in 1..Len(commands'[v]) =>
          \/ v = w /\ i = n /\ commands'[v][i] = c
          \/ i \in 1..Len(commands[v]) /\ commands'[v][i] = commands[v][i]
    <2> TAKE v \in Workers, i \in Nat
    <2>1. CASE v = w
        BY <2>1, <1>1
    <2>2. CASE v # w
        BY <2>2, <1>1
    <2> QED
        BY <2>1, <2>2
<1>6. \A v \in Workers : \A i \in 1..Len(commands[v]) : commands[v][i] # c
    BY <1>0 DEF ListInv
<1>7. ListInv'
    <2> SUFFICES ASSUME NEW v \in Workers, NEW i \in 1..Len(commands'[v]),
                        commands'[v][i] # Stop
                 PROVE  /\ commands'[v][i] \in accepted' \ executed'
                        /\ \A u \in Workers : \A j \in 1..Len(commands'[u]) :
                               commands'[u][j] = commands'[v][i] => u = v /\ j = i
        BY DEF ListInv
    <2>0. \A u \in Workers : \A j \in 1..Len(commands'[u]) : j \in Nat
        OBVIOUS
    <2>1. CASE v = w /\ i = n /\ commands'[v][i] = c
        <3>1. c \in accepted' \ executed'
            BY DEF AcceptInv
        <3>2. ASSUME NEW u \in Workers, NEW j \in 1..Len(commands'[u]), commands'[u][j] = c
              PROVE  u = w /\ j = n
            BY <3>2, <2>0, <1>5, <1>6
        <3> QED
            BY <2>1, <3>1, <3>2
    <2>2. CASE i \in 1..Len(commands[v]) /\ commands'[v][i] = commands[v][i]
        <3>1. /\ commands[v][i] \in accepted \ executed
              /\ \A u \in Workers : \A j \in 1..Len(commands[u]) :
                     commands[u][j] = commands[v][i] => u = v /\ j = i
            BY <2>2 DEF ListInv
        <3> QED
            BY <2>2, <3>1, <2>0, <1>5
    <2> QED
        BY <2>0, <2>1, <2>2, <1>5
<1>8. \A v \in Workers : wpc'[v] = "execute" <=> wpc[v] = "execute"
    BY <1>1
<1>9. CurInv'
    <2> SUFFICES ASSUME NEW v \in Workers, wpc[v] = "execute", cur[v] # Stop
                 PROVE  /\ cur[v] \in accepted' \ executed
                        /\ \A u \in Workers : \A j \in 1..Len(commands'[u]) :
                               commands'[u][j] # cur[v]
                        /\ \A u \in Workers : wpc[u] = "execute" /\ cur[u] = cur[v] => u = v
        BY <1>8 DEF CurInv
    <2>1. /\ cur[v] \in accepted \ executed
          /\ \A u \in Workers : \A j \in 1..Len(commands[u]) : commands[u][j] # cur[v]
          /\ \A u \in Workers : wpc[u] = "execute" /\ cur[u] = cur[v] => u = v
        BY DEF CurInv
    <2>2. \A u \in Workers : \A j \in 1..Len(commands'[u]) : j \in Nat
        OBVIOUS
    <2> QED
        BY <2>1, <2>2, <1>5
<1> QED
    BY <1>3, <1>4, <1>7, <1>9

LEMMA SubmitBlockInv ==
    ASSUME Inv, NEW w \in Workers, SubmitBlock(w)
    PROVE  Inv'
<1> USE Constants DEF Inv
<1>0. UNCHANGED <<mode, cur, try, left, executed, done, stopping, stopped>>
    BY DEF SubmitBlock, dtorVars
<1>1. CountInv'
    BY <1>0, CountFrame
<1>2. CASE UNCHANGED <<commands, wpc, accepted>> /\ block' = 0
    <2>1. TypeOK'
        BY <1>0, <1>2 DEF TypeOK
    <2>2. ModeInv' /\ DtorInv' /\ ListInv' /\ CurInv' /\ AcceptInv'
        BY <1>0, <1>2 DEF ModeInv, DtorInv, ListInv, CurInv, AcceptInv
    <2> QED
        BY <2>1, <2>2, <1>1
<1>3. CASE /\ ~Refuses(w)
           /\ Push(w, <<try, block>>)
           /\ accepted' = accepted \cup {<<try, block>>}
           /\ block' = IF block = Blocks THEN 0 ELSE block + 1
    <2> DEFINE c == <<try, block>>
    <2>0. block \in 1..Blocks
        BY DEF SubmitBlock, TypeOK
    <2>1. try \in Tries
        BY <2>0 DEF AcceptInv, TypeOK, Tries
    <2>2. c \in BlockCommands /\ c \in WorkerCommands /\ c \notin accepted
        BY <2>0, <2>1 DEF AcceptInv, BlockCommands, WorkerCommands, TypeOK, Tries
    <2>3. ModeInv' /\ DtorInv' /\ ListInv' /\ CurInv'
        BY <2>2, <1>0, <1>3, PushBlockInv DEF dtorVars
    <2>4. AcceptInv'
        BY <2>0, <2>1, <1>0, <1>3 DEF AcceptInv, Tries
    <2>5. commands' \in [Workers -> Seq(WorkerCommands)]
        BY <2>2, <1>3, PushList
    <2>6. wpc' \in [Workers -> {"loop", "monitor", "waiting", "execute", "exited"}]
        BY <1>3 DEF TypeOK, Push
    <2>7. accepted' \subseteq BlockCommands
        BY <2>2, <1>3 DEF TypeOK
    <2>8. block' \in 0..Blocks
        BY <2>0, <1>3
    <2>9. TypeOK'
        BY <2>5, <2>6, <2>7, <2>8, <1>0 DEF TypeOK
    <2> QED
        BY <2>3, <2>4, <2>9, <1>1
<1> QED
    BY <1>2, <1>3 DEF SubmitBlock

---------------------------------------------------------------------------
\* A worker that tests its mode or waits: only where it is changes, and it
\* does not come to execute anything by that.
LEMMA WorkerPcInv ==
    ASSUME Inv, NEW w \in Workers, TestMode(w) \/ WaitForCommands(w)
    PROVE  Inv'
<1> USE DEF Inv
<1>0. UNCHANGED <<mode, commands, cur, left, executed, done, try, block, accepted,
                  stopping, stopped>>
    BY DEF TestMode, WaitForCommands, hostVars, dtorVars
<1>1. /\ \A v \in Workers : wpc'[v] = "execute" <=> wpc[v] = "execute"
      /\ \A v \in Workers : wpc'[v] = "exited" => wpc[v] = "exited" \/ mode[v] = "stopped"
      /\ wpc' \in [Workers -> {"loop", "monitor", "waiting", "execute", "exited"}]
    BY DEF TestMode, WaitForCommands, TypeOK, Leaves
<1>2. TypeOK'
    BY <1>0, <1>1 DEF TypeOK
<1>3. ModeInv' /\ DtorInv'
    BY <1>0, <1>1 DEF ModeInv, DtorInv
<1>4. ListInv' /\ CurInv' /\ AcceptInv'
    BY <1>0, <1>1 DEF ListInv, CurInv, AcceptInv
<1>5. CountInv'
    BY <1>0, CountFrame
<1> QED
    BY <1>2, <1>3, <1>4, <1>5

LEMMA TakeCommandInv ==
    ASSUME Inv, NEW w \in Workers, TakeCommand(w)
    PROVE  Inv'
<1> USE DEF Inv
<1> DEFINE c == commands[w][1]
           n == Len(commands[w])
<1>0. UNCHANGED <<mode, left, executed, done, try, block, accepted, stopping, stopped>>
    BY DEF TakeCommand, hostVars, dtorVars
<1>1. commands[w] \in Seq(WorkerCommands) /\ commands[w] # <<>> /\ wpc[w] = "monitor"
    BY DEF TakeCommand, TypeOK
<1>2. n \in Nat /\ n > 0 /\ c \in WorkerCommands
    BY <1>1
<1>3. /\ commands'[w] = Tail(commands[w])
      /\ \A v \in Workers : v # w =>
             commands'[v] = commands[v] /\ wpc'[v] = wpc[v] /\ cur'[v] = cur[v]
      /\ cur'[w] = c /\ wpc'[w] = "execute"
    BY <1>1 DEF TakeCommand, TypeOK
<1>4. /\ Tail(commands[w]) \in Seq(WorkerCommands)
      /\ Len(Tail(commands[w])) = n - 1
      /\ \A i \in 1..(n - 1) : Tail(commands[w])[i] = commands[w][i + 1]
    BY <1>1
<1>5. TypeOK'
    <2>1. commands' \in [Workers -> Seq(WorkerCommands)]
        BY <1>4 DEF TakeCommand, TypeOK
    <2>2. cur' \in [Workers -> WorkerCommands]
        BY <1>1, <1>2 DEF TakeCommand, TypeOK
    <2>3. wpc' \in [Workers -> {"loop", "monitor", "waiting", "execute", "exited"}]
        BY DEF TakeCommand, TypeOK
    <2> QED
        BY <2>1, <2>2, <2>3, <1>0 DEF TypeOK
<1>6. ModeInv'
    <2> SUFFICES ASSUME NEW v \in Workers
                 PROVE  (/\ mode[v] = "operational" =>
                              \A i \in 1..Len(commands[v]) : commands[v][i] # Stop
                         /\ mode[v] = "teardown" => \/ StopIsLast(commands[v])
                                                    \/ wpc[v] = "execute" /\ cur[v] = Stop
                         /\ mode[v] = "stopped" => commands[v] = <<>>
                         /\ wpc[v] = "exited" => mode[v] = "stopped"
                         /\ wpc[v] = "execute" /\ cur[v] = Stop =>
                                mode[v] = "teardown" /\ commands[v] = <<>>)'
        BY DEF ModeInv
    <2>1. CASE v # w
        BY <2>1, <1>0, <1>3 DEF ModeInv
    <2>2. CASE v = w
        <3>1. mode[w] # "stopped"
            BY <1>1 DEF ModeInv
        <3>2. CASE mode[w] = "operational"
            <4>1. \A i \in 1..n : commands[w][i] # Stop
                BY <3>2 DEF ModeInv
            <4>2. c # Stop /\ \A i \in 1..(n - 1) : Tail(commands[w])[i] # Stop
                BY <4>1, <1>2, <1>4
            <4> QED
                BY <2>2, <3>2, <4>2, <1>0, <1>3, <1>4
        <3>3. CASE mode[w] = "teardown"
            <4>1. \A i \in 1..n : commands[w][i] = Stop <=> i = n
                BY <3>3, <1>1 DEF ModeInv, StopIsLast
            <4>2. CASE n = 1
                <5>1. c = Stop
                    BY <4>1, <4>2
                <5>2. Tail(commands[w]) = <<>>
                    <6>1. Len(Tail(commands[w])) = 0
                        BY <4>2, <1>4
                    <6> QED
                        BY <6>1, <1>4, EmptyList, Zenon
                <5> QED
                    BY <2>2, <3>3, <5>1, <5>2, <1>0, <1>3
            <4>3. CASE n # 1
                <5>0. 1 \in 1..n
                    BY <1>2
                <5>1. c # Stop
                    BY <5>0, <4>1, <4>3
                <5>2. \A i \in 1..(n - 1) : Tail(commands[w])[i] = Stop <=> i = n - 1
                    BY <4>1, <1>2, <1>4
                <5>3. Tail(commands[w]) # <<>>
                    <6>1. Len(Tail(commands[w])) # 0
                        BY <4>3, <1>2, <1>4
                    <6> QED
                        BY <6>1, <1>4, EmptyList, Zenon
                <5>4. StopIsLast(Tail(commands[w]))
                    BY <5>2, <5>3, <1>4 DEF StopIsLast
                <5> QED
                    BY <2>2, <3>3, <5>1, <5>4, <1>0, <1>3
            <4> QED
                BY <4>2, <4>3
        <3> QED
            BY <3>1, <3>2, <3>3 DEF TypeOK
    <2> QED
        BY <2>1, <2>2
<1>7. DtorInv'
    BY <1>0 DEF DtorInv
\* The command at position i of a list was there before, at i or i + 1.
<1>8. \A v \in Workers : \A i \in 1..Len(commands'[v]) :
          \/ v # w /\ i \in 1..Len(commands[v]) /\ commands'[v][i] = commands[v][i]
          \/ v = w /\ i \in Nat /\ i + 1 \in 1..n /\ commands'[w][i] = commands[w][i + 1]
    <2> TAKE v \in Workers
    <2> TAKE i \in 1..Len(commands'[v])
    <2>1. CASE v = w
        BY <2>1, <1>2, <1>3, <1>4
    <2>2. CASE v # w
        BY <2>2, <1>3
    <2> QED
        BY <2>1, <2>2
<1>9. ListInv'
    <2> SUFFICES ASSUME NEW v \in Workers, NEW i \in 1..Len(commands'[v]),
                        commands'[v][i] # Stop
                 PROVE  /\ commands'[v][i] \in accepted \ executed
                        /\ \A u \in Workers : \A j \in 1..Len(commands'[u]) :
                               commands'[u][j] = commands'[v][i] => u = v /\ j = i
        BY <1>0 DEF ListInv
    <2>1. CASE v # w /\ i \in 1..Len(commands[v]) /\ commands'[v][i] = commands[v][i]
        <3>1. /\ commands[v][i] \in accepted \ executed
              /\ \A u \in Workers : \A j \in 1..Len(commands[u]) :
                     commands[u][j] = commands[v][i] => u = v /\ j = i
            BY <2>1 DEF ListInv
        <3> QED
            BY <2>1, <3>1, <1>8
    <2>2. CASE v = w /\ i \in Nat /\ i + 1 \in 1..n /\ commands'[w][i] = commands[w][i + 1]
        <3>1. /\ commands[w][i + 1] \in accepted \ executed
              /\ \A u \in Workers : \A j \in 1..Len(commands[u]) :
                     commands[u][j] = commands[w][i + 1] => u = w /\ j = i + 1
            BY <2>2 DEF ListInv
        <3>2. ASSUME NEW u \in Workers, NEW j \in 1..Len(commands'[u]),
                     commands'[u][j] = commands'[v][i]
              PROVE  u = v /\ j = i
            <4>1. CASE u # w /\ j \in 1..Len(commands[u]) /\ commands'[u][j] = commands[u][j]
                BY <4>1, <3>1, <3>2, <2>2
            <4>2. CASE u = w /\ j \in Nat /\ j + 1 \in 1..n
                       /\ commands'[w][j] = commands[w][j + 1]
                BY <4>2, <3>1, <3>2, <2>2
            <4> QED
                BY <4>1, <4>2, <1>8
        <3> QED
            BY <2>2, <3>1, <3>2
    <2> QED
        BY <2>1, <2>2, <1>8
<1>10. CurInv'
    <2> SUFFICES ASSUME NEW v \in Workers, wpc'[v] = "execute", cur'[v] # Stop
                 PROVE  /\ cur'[v] \in accepted \ executed
                        /\ \A u \in Workers : \A j \in 1..Len(commands'[u]) :
                               commands'[u][j] # cur'[v]
                        /\ \A u \in Workers : wpc'[u] = "execute" /\ cur'[u] = cur'[v] => u = v
        BY <1>0 DEF CurInv
    <2>1. CASE v = w
        <3>1. /\ c \in accepted \ executed
              /\ \A u \in Workers : \A j \in 1..Len(commands[u]) :
                     commands[u][j] = c => u = w /\ j = 1
            BY <2>1, <1>2, <1>3 DEF ListInv
        <3>2. \A u \in Workers : \A j \in 1..Len(commands'[u]) : commands'[u][j] # c
            BY <3>1, <1>8
        <3>3. \A u \in Workers : u # w /\ wpc[u] = "execute" => cur[u] # c
            BY <2>1, <1>2, <1>3 DEF CurInv
        <3> QED
            BY <2>1, <3>1, <3>2, <3>3, <1>3
    <2>2. CASE v # w
        <3>1. /\ cur[v] \in accepted \ executed
              /\ \A u \in Workers : \A j \in 1..Len(commands[u]) : commands[u][j] # cur[v]
              /\ \A u \in Workers : wpc[u] = "execute" /\ cur[u] = cur[v] => u = v
            BY <2>2, <1>3 DEF CurInv
        <3>2. \A u \in Workers : \A j \in 1..Len(commands'[u]) : commands'[u][j] # cur[v]
            BY <3>1, <1>8
        <3>3. c # cur[v]
            BY <3>1, <1>2
        <3> QED
            BY <2>2, <3>1, <3>2, <3>3, <1>3
    <2> QED
        BY <2>1, <2>2
<1>11. AcceptInv'
    BY <1>0 DEF AcceptInv
<1>12. CountInv'
    BY <1>0, CountFrame
<1> QED
    BY <1>5, <1>6, <1>7, <1>9, <1>10, <1>11, <1>12

LEMMA ExecuteStopInv ==
    ASSUME Inv, NEW w \in Workers, ExecuteStop(w)
    PROVE  Inv'
<1> USE DEF Inv
<1>0. UNCHANGED <<commands, cur, left, executed, done, try, block, accepted,
                  stopping, stopped>>
    BY DEF ExecuteStop, hostVars, dtorVars
<1>1. /\ wpc[w] = "execute" /\ cur[w] = Stop
      /\ mode' = [mode EXCEPT ![w] = "stopped"]
      /\ wpc' = [wpc EXCEPT ![w] = "loop"]
    BY DEF ExecuteStop
<1>2. mode[w] = "teardown" /\ commands[w] = <<>>
    BY <1>1 DEF ModeInv
<1>3. TypeOK'
    BY <1>0, <1>1 DEF TypeOK
<1>4. \A v \in Workers : v # w => mode'[v] = mode[v] /\ wpc'[v] = wpc[v]
    BY <1>1 DEF TypeOK
<1>5. mode'[w] = "stopped" /\ wpc'[w] = "loop"
    BY <1>1 DEF TypeOK
<1>6. ModeInv'
    <2> SUFFICES ASSUME NEW v \in Workers
                 PROVE  (/\ mode[v] = "operational" =>
                              \A i \in 1..Len(commands[v]) : commands[v][i] # Stop
                         /\ mode[v] = "teardown" => \/ StopIsLast(commands[v])
                                                    \/ wpc[v] = "execute" /\ cur[v] = Stop
                         /\ mode[v] = "stopped" => commands[v] = <<>>
                         /\ wpc[v] = "exited" => mode[v] = "stopped"
                         /\ wpc[v] = "execute" /\ cur[v] = Stop =>
                                mode[v] = "teardown" /\ commands[v] = <<>>)'
        BY DEF ModeInv
    <2>1. CASE v = w
        BY <2>1, <1>0, <1>2, <1>5
    <2>2. CASE v # w
        BY <2>2, <1>0, <1>4 DEF ModeInv
    <2> QED
        BY <2>1, <2>2
<1>7. DtorInv'
    BY <1>0, <1>2, <1>4 DEF DtorInv
<1>8. ListInv' /\ AcceptInv'
    BY <1>0 DEF ListInv, AcceptInv
<1>9. CurInv'
    BY <1>0, <1>4, <1>5 DEF CurInv
<1>10. CountInv'
    BY <1>0, CountFrame
<1> QED
    BY <1>3, <1>6, <1>7, <1>8, <1>9, <1>10

\* The counter goes down by one for a block that was not executed before, so
\* that it is 1 only when this block is the last one.
LEMMA ExecuteBlockInv ==
    ASSUME Inv, NEW w \in Workers, ExecuteBlock(w)
    PROVE  Inv'
<1> USE Constants DEF Inv
<1>0. UNCHANGED <<mode, commands, cur, try, block, accepted, stopping, stopped>>
    BY DEF ExecuteBlock, hostVars, dtorVars
<1>1. /\ wpc[w] = "execute" /\ cur[w] # Stop
      /\ executed' = executed \cup {cur[w]}
      /\ left' = [left EXCEPT ![cur[w][1]] = @ - 1]
      /\ done' = IF left[cur[w][1]] = 1 THEN done \cup {cur[w][1]} ELSE done
      /\ wpc' = [wpc EXCEPT ![w] = "loop"]
    BY DEF ExecuteBlock, IsLast
<1>2. cur[w] \in BlockCommands /\ cur[w] \in accepted \ executed
    BY <1>1 DEF TypeOK, CurInv
<1>3. PICK k \in Tries, b \in 1..Blocks : cur[w] = <<k, b>>
    BY <1>2 DEF BlockCommands
<1>4. \A v \in Workers : v # w => wpc'[v] = wpc[v]
    BY <1>1 DEF TypeOK
<1>5. wpc'[w] = "loop"
    BY <1>1 DEF TypeOK
<1>6. ModeInv'
    BY <1>0, <1>1, <1>4, <1>5 DEF ModeInv
<1>7. DtorInv'
    BY <1>0 DEF DtorInv
<1>8. ListInv'
    BY <1>0, <1>1 DEF ListInv, CurInv
<1>9. CurInv'
    BY <1>0, <1>1, <1>4, <1>5 DEF CurInv
<1>10. AcceptInv'
    BY <1>0, <1>1, <1>2 DEF AcceptInv
<1>11. \A l \in Tries : l # k =>
          Unexecuted(l)' = Unexecuted(l) /\ left'[l] = left[l] /\ (l \in done' <=> l \in done)
    <2> TAKE l \in Tries
    <2> HAVE l # k
    <2>1. Unexecuted(l)' = Unexecuted(l)
        BY <1>1, <1>3 DEF Unexecuted
    <2> QED
        BY <2>1, <1>1, <1>3 DEF TypeOK
<1>12. /\ b \in Unexecuted(k) /\ Unexecuted(k)' = Unexecuted(k) \ {b}
       /\ left[k] = Cardinality(Unexecuted(k))
       /\ left'[k] = left[k] - 1
    <2>1. b \in Unexecuted(k) /\ Unexecuted(k)' = Unexecuted(k) \ {b}
        BY <1>1, <1>2, <1>3 DEF Unexecuted
    <2> QED
        BY <2>1, <1>1, <1>3 DEF CountInv, TypeOK
<1>13. /\ IsFiniteSet(Unexecuted(k)) /\ IsFiniteSet(Unexecuted(k)')
       /\ Cardinality(Unexecuted(k)') = Cardinality(Unexecuted(k)) - 1
       /\ Cardinality(Unexecuted(k)) \in 0..Blocks
    BY <1>12, UnexecutedFinite, FS_RemoveElement
<1>14. CountInv'
    <2> SUFFICES ASSUME NEW l \in Tries
                 PROVE  (left[l] = Cardinality(Unexecuted(l))
                         /\ (l \in done => Unexecuted(l) = {}))'
        BY DEF CountInv
    <2>1. CASE l = k
        <3>1. left'[k] = Cardinality(Unexecuted(k)')
            BY <1>12, <1>13
        <3>2. ASSUME k \in done' PROVE Unexecuted(k)' = {}
            <4>1. k \notin done
                BY <1>12 DEF CountInv
            <4>2. left[k] = 1
                BY <3>2, <4>1, <1>1, <1>3
            <4>3. Cardinality(Unexecuted(k)') = 0
                BY <4>2, <1>12, <1>13
            <4> QED
                BY <4>3, <1>13, FS_EmptySet
        <3> QED
            BY <2>1, <3>1, <3>2
    <2>2. CASE l # k
        BY <2>2, <1>11 DEF CountInv
    <2> QED
        BY <2>1, <2>2
<1>15. TypeOK'
    <2>1. left' \in [Tries -> 0..Blocks]
        <3>1. left[k] - 1 \in 0..Blocks
            BY <1>12, <1>13, UnexecutedFinite, FS_CardinalityType
        <3> QED
            BY <3>1, <1>1, <1>3 DEF TypeOK
    <2>2. executed' \subseteq BlockCommands /\ done' \subseteq Tries
        <3>1. cur[w][1] \in Tries
            BY <1>3
        <3>2. executed \subseteq BlockCommands /\ done \subseteq Tries
            BY DEF TypeOK
        <3> QED
            BY <3>1, <3>2, <1>1, <1>2, Zenon
    <2>3. wpc' \in [Workers -> {"loop", "monitor", "waiting", "execute", "exited"}]
        BY <1>1 DEF TypeOK
    <2> QED
        BY <2>1, <2>2, <2>3, <1>0 DEF TypeOK
<1> QED
    BY <1>6, <1>7, <1>8, <1>9, <1>10, <1>14, <1>15

---------------------------------------------------------------------------
(* The destructor.                                                         *)

\* The stop command goes to a worker that is operational, hence without one.
LEMMA StopDeviceInv ==
    ASSUME Inv, StopDevice
    PROVE  Inv'
<1> USE Constants DEF Inv
<1> DEFINE w == stopping
           n == Len(commands[w]) + 1
<1>0. UNCHANGED <<cur, left, executed, done, try, block, accepted, stopping>>
    BY DEF StopDevice, hostVars
<1>1. /\ w \in Workers /\ Stop \in WorkerCommands /\ Push(w, Stop)
      /\ stopped' = TRUE /\ ~stopped
      /\ mode' = [mode EXCEPT ![w] = "teardown"]
    BY DEF StopDevice, Workers, TypeOK, WorkerCommands
<1>2. /\ \A v \in Workers : v # w => commands'[v] = commands[v] /\ wpc'[v] = wpc[v]
      /\ n \in Nat /\ n - 1 \in Nat /\ Len(commands[w]) = n - 1
      /\ Len(commands'[w]) = n
      /\ \A i \in 1..(n - 1) : commands'[w][i] = commands[w][i]
      /\ commands'[w][n] = Stop
      /\ commands'[w] # <<>>
      /\ wpc'[w] = IF wpc[w] = "waiting" THEN "monitor" ELSE wpc[w]
      /\ commands' \in [Workers -> Seq(WorkerCommands)]
    BY <1>1, PushList
<1>3. mode[w] = "operational" /\ mode'[w] = "teardown"
      /\ \A v \in Workers : v # w => mode'[v] = mode[v]
    BY <1>1 DEF DtorInv, TypeOK
<1>4. \A v \in Workers : wpc'[v] = "execute" <=> wpc[v] = "execute"
    BY <1>2
<1>5. TypeOK'
    <2>1. wpc' \in [Workers -> {"loop", "monitor", "waiting", "execute", "exited"}]
        BY <1>1 DEF TypeOK, Push
    <2>2. mode' \in [Workers -> {"operational", "teardown", "stopped"}]
        BY <1>1 DEF TypeOK
    <2>3. stopped' \in BOOLEAN
        BY <1>1
    <2> QED
        BY <2>1, <2>2, <2>3, <1>0, <1>2 DEF TypeOK
<1> HIDE DEF n
<1>6. ModeInv'
    <2> SUFFICES ASSUME NEW v \in Workers
                 PROVE  (/\ mode[v] = "operational" =>
                              \A i \in 1..Len(commands[v]) : commands[v][i] # Stop
                         /\ mode[v] = "teardown" => \/ StopIsLast(commands[v])
                                                    \/ wpc[v] = "execute" /\ cur[v] = Stop
                         /\ mode[v] = "stopped" => commands[v] = <<>>
                         /\ wpc[v] = "exited" => mode[v] = "stopped"
                         /\ wpc[v] = "execute" /\ cur[v] = Stop =>
                                mode[v] = "teardown" /\ commands[v] = <<>>)'
        BY DEF ModeInv
    <2>1. CASE v = w
        <3>1. \A i \in 1..(n - 1) : commands[w][i] # Stop
            BY <1>1, <1>2, <1>3 DEF ModeInv
        <3>2. \A i \in 1..n : commands'[w][i] = Stop <=> i = n
            BY <3>1, <1>2
        <3>3. StopIsLast(commands[w])'
            BY <3>2, <1>0, <1>2 DEF StopIsLast
        <3>4. wpc'[w] # "exited" /\ ~(wpc'[w] = "execute" /\ cur[w] = Stop)
            BY <1>1, <1>2, <1>3 DEF ModeInv
        <3> QED
            BY <2>1, <3>3, <3>4, <1>0, <1>3
    <2>2. CASE v # w
        BY <2>2, <1>0, <1>2, <1>3 DEF ModeInv
    <2> QED
        BY <2>1, <2>2
<1>7. DtorInv'
    <2> SUFFICES ASSUME NEW v \in Workers, v > stopping
                 PROVE  mode'[v] = "operational"
        BY <1>0, <1>1 DEF DtorInv
    <2>1. v # w /\ mode[v] = "operational"
        BY <1>1 DEF DtorInv, Workers
    <2> QED
        BY <2>1, <1>3
<1>8. \A v \in Workers : \A i \in 1..Len(commands'[v]) :
          \/ commands'[v][i] = Stop
          \/ i \in 1..Len(commands[v]) /\ commands'[v][i] = commands[v][i]
    <2> TAKE v \in Workers
    <2> TAKE i \in 1..Len(commands'[v])
    <2>1. CASE v = w
        BY <2>1, <1>2
    <2>2. CASE v # w
        BY <2>2, <1>2
    <2> QED
        BY <2>1, <2>2
<1>9. ListInv'
    <2> SUFFICES ASSUME NEW v \in Workers, NEW i \in 1..Len(commands'[v]),
                        commands'[v][i] # Stop
                 PROVE  /\ commands'[v][i] \in accepted \ executed
                        /\ \A u \in Workers : \A j \in 1..Len(commands'[u]) :
                               commands'[u][j] = commands'[v][i] => u = v /\ j = i
        BY <1>0 DEF ListInv
    <2>1. i \in 1..Len(commands[v]) /\ commands'[v][i] = commands[v][i]
        BY <1>8
    <2>2. /\ commands[v][i] \in accepted \ executed
          /\ \A u \in Workers : \A j \in 1..Len(commands[u]) :
                 commands[u][j] = commands[v][i] => u = v /\ j = i
        BY <2>1 DEF ListInv
    <2> QED
        BY <2>1, <2>2, <1>8
<1>10. CurInv'
    BY <1>0, <1>4, <1>8 DEF CurInv
<1>11. AcceptInv'
    BY <1>0 DEF AcceptInv
<1>12. CountInv'
    BY <1>0, CountFrame
<1> QED
    BY <1>5, <1>6, <1>7, <1>9, <1>10, <1>11, <1>12

LEMMA JoinInv ==
    ASSUME Inv, Join
    PROVE  Inv'
<1> USE Constants DEF Inv
<1>0. UNCHANGED <<mode, commands, wpc, cur, left, executed, done, try, block, accepted>>
    BY DEF Join, hostVars
<1>1. stopping \in Workers /\ stopping' = stopping + 1 /\ stopped' = FALSE
    BY DEF Join, DtorInv
<1>2. TypeOK'
    <2>1. stopping' \in 1..(NumWorkers + 1)
        BY <1>1 DEF Workers
    <2>2. stopped' \in BOOLEAN
        BY <1>1, Zenon
    <2> QED
        BY <2>1, <2>2, <1>0 DEF TypeOK
<1>3. DtorInv'
    BY <1>0, <1>1 DEF DtorInv, Workers
<1>4. ModeInv' /\ ListInv' /\ CurInv' /\ AcceptInv'
    BY <1>0 DEF ModeInv, ListInv, CurInv, AcceptInv
<1>5. CountInv'
    BY <1>0, CountFrame
<1> QED
    BY <1>2, <1>3, <1>4, <1>5

LEMMA NextInv == Inv /\ [Next]_vars => Inv'
<1> SUFFICES ASSUME Inv, [Next]_vars PROVE Inv'
    OBVIOUS
<1>1. CASE StartSubmission
    BY <1>1, StartSubmissionInv
<1>2. ASSUME NEW w \in Workers, SubmitBlock(w) PROVE Inv'
    BY <1>2, SubmitBlockInv
<1>3. ASSUME NEW w \in Workers, WorkerStep(w) PROVE Inv'
    BY <1>3, WorkerPcInv, TakeCommandInv, ExecuteStopInv, ExecuteBlockInv DEF WorkerStep
<1>4. CASE StopDevice
    BY <1>4, StopDeviceInv
<1>5. CASE Join
    BY <1>5, JoinInv
<1>6. CASE UNCHANGED vars
    <2>1. UNCHANGED <<executed, left, done>>
        BY <1>6 DEF vars
    <2>2. CountInv'
        BY <2>1, CountFrame DEF Inv
    <2>3. TypeOK'
        BY <1>6 DEF Inv, TypeOK, vars, hostVars, dtorVars
    <2>4. ModeInv' /\ DtorInv' /\ ListInv' /\ CurInv' /\ AcceptInv'
        BY <1>6 DEF Inv, ModeInv, DtorInv, ListInv, CurInv, AcceptInv, vars, hostVars,
                    dtorVars
    <2> QED
        BY <2>2, <2>3, <2>4 DEF Inv
<1> QED
    BY <1>1, <1>2, <1>3, <1>4, <1>5, <1>6 DEF Next

LEMMA Invariance == Spec => []Inv
BY InitInv, NextInv, PTL DEF Spec

\* The modes, lists, counters and the position of the destructor keep their
\* types; in particular WaitCount of a context never goes below 0.
THEOREM Type_Correct == Spec => []TypeOK
<1>1. Inv => TypeOK
    BY DEF Inv
<1> QED
    BY <1>1, Invariance, PTL

\* A worker that has left CPUThread::Run has executed everything it accepted,
\* although Run tests the mode without the Monitor.
THEOREM Nothing_Left_Behind == Spec => []NothingLeftBehind
<1>1. Inv => NothingLeftBehind
    BY DEF Inv, ModeInv, NothingLeftBehind
<1> QED
    BY <1>1, Invariance, PTL

\* A kernel completes only by a submission every block of which was executed,
\* however many submissions the tear-down of a worker has cut short.
THEOREM Only_Whole_Submissions_Complete == Spec => []OnlyWholeSubmissionsComplete
<1>1. Inv => OnlyWholeSubmissionsComplete
    BY DEF Inv, TypeOK, CountInv, Unexecuted, OnlyWholeSubmissionsComplete
<1> QED
    BY <1>1, Invariance, PTL
=============================================================================
