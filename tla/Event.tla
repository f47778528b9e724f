------------------------------- MODULE Event --------------------------------
(***************************************************************************)
(* Events of OpenCRun: Event, InternalEvent, UserEvent and the API calls   *)
(* that wait for them, watch them and set them.                            *)
(*                                                                         *)
(* Every operation of an event runs inside its Monitor (a recursive mutex  *)
(* with a condition variable).  Signal is two steps, because Status is     *)
(* volatile and set before the callbacks run; the Monitor is held between  *)
(* them.  InOrderQueue shows who signals the event of a command: the       *)
(* thread that submits it (MarkSubmitted) and the workers that run it      *)
(* (MarkRunning, then MarkCompleted), with nothing to order the two.       *)
(***************************************************************************)
EXTENDS Integers, Sequences, FiniteSets

CONSTANTS
  Internal,    (* events of commands                                        *)
  User,        (* user events                                               *)
  Hosts,       (* application threads                                       *)
  Callbacks,   (* callback functions, each to be registered at most once    *)
  WaitArgs,    (* event lists that the application passes to clWaitForEvents *)
  None

Events == Internal \cup User

QUEUED == 3
SUBMITTED == 2
RUNNING == 1
COMPLETE == 0
FAILED == -1

(* The statuses that clSetEventCallback accepts.                           *)
CallbackTypes == {SUBMITTED, RUNNING, COMPLETE}

ASSUME EventsAssumption ==
  /\ Internal \cap User = {}
  /\ WaitArgs \subseteq Seq(Events) \ {<<>>}
  /\ None \notin Hosts
  /\ None \notin Events \X CallbackTypes
  /\ None \notin [by : Hosts \cup {None}, s : FAILED .. SUBMITTED]

VARIABLES
  status,      (* Event::Status                                             *)
  mon,         (* the Signal inside the Monitor: [by, s], or None           *)
  submitted,   (* events for which MarkSubmitted was called                 *)
  phase,       (* how far the workers are: 0, 1 (running), 2 (completed)    *)
  reg,         (* callback: the <<event, type>> it was registered for       *)
  stored,      (* the callbacks kept in Event::Callbacks                    *)
  calls,       (* history: how often each callback was called               *)
  pc,          (* hosts: "idle", "setting", "check" or "blocked"            *)
  list,        (* hosts: the argument of clWaitForEvents                    *)
  idx,         (* hosts: the position in it                                 *)
  result       (* history: what the last clWaitForEvents found, "ok", "err" *)

eventVars == <<status, mon, submitted, phase>>
callVars  == <<reg, stored, calls>>
hostVars  == <<pc, list, idx, result>>
vars == <<eventVars, callVars, hostVars>>

HasCompleted(e) == status[e] <= COMPLETE

-----------------------------------------------------------------------------
(* Event::Signal *)

(* The first half: enter the Monitor, update Status unless it is delayed.  *)
SignalEnter(e, p, s) ==
  /\ mon[e] = None
  /\ mon' = [mon EXCEPT ![e] = [by |-> p, s |-> s]]
  /\ status' = [status EXCEPT ![e] = IF @ > s THEN s ELSE @]

(* Mutant: callbacks of every status that was passed are called as well.   *)
NotifiedPast(e, s) == {c \in stored : reg[c][1] = e /\ reg[c][2] >= s}

(* Mutant: the comparison of the statuses is the wrong way round.          *)
NotifiedReversed(e, s) == {c \in stored : reg[c][1] = e /\ reg[c][2] <= s}

(* Mutant: a delayed status is dropped with its callbacks.                 *)
NotifiedInTime(e, s) == {c \in stored : s = status[e] /\ reg[c] = <<e, s>>}

(* Callbacks[Status]: those of exactly the status signalled, delayed or    *)
(* not; they are not removed.                                              *)
Notified(e, s) == {c \in stored : reg[c] = <<e, s>>}

(* Mutant: errors do not wake the waiters.                                 *)
WakesWhenComplete(s) == s = COMPLETE

(* The statuses that Signal broadcasts.                                    *)
Wakes(s) == s = COMPLETE \/ s < 0

(* The second half: call the callbacks, wake the waiters, leave.           *)
SignalNotify(e) ==
  /\ mon[e] # None
  /\ calls' = [c \in Callbacks |->
                 IF c \in Notified(e, mon[e].s) THEN calls[c] + 1 ELSE calls[c]]
  /\ pc' = [h \in Hosts |->
              CASE pc[h] = "blocked" /\ list[h][idx[h]] = e /\ Wakes(mon[e].s) -> "check"
                [] pc[h] = "setting" /\ mon[e].by = h -> "idle"
                [] OTHER -> pc[h]]
  /\ mon' = [mon EXCEPT ![e] = None]
  /\ UNCHANGED <<status, submitted, phase, reg, stored, list, idx, result>>

(* InternalEvent::MarkSubmitted, by the thread that submits the command.   *)
MarkSubmitted(e) ==
  /\ e \notin submitted
  /\ SignalEnter(e, None, SUBMITTED)
  /\ submitted' = submitted \cup {e}
  /\ UNCHANGED <<phase, callVars, hostVars>>

(* InternalEvent::MarkRunning, by the worker that starts the command.      *)
MarkRunning(e) ==
  /\ phase[e] = 0
  /\ SignalEnter(e, None, RUNNING)
  /\ phase' = [phase EXCEPT ![e] = 1]
  /\ UNCHANGED <<submitted, callVars, hostVars>>

(* Mutant: the completion may be reported again.                           *)
MarkCompletedAgain(e, s) ==
  /\ phase[e] > 0
  /\ SignalEnter(e, None, s)
  /\ phase' = [phase EXCEPT ![e] = @ + 1]
  /\ UNCHANGED <<submitted, callVars, hostVars>>

(* InternalEvent::MarkCompleted, by the worker that ends it.               *)
MarkCompleted(e, s) ==
  /\ phase[e] = 1
  /\ SignalEnter(e, None, s)
  /\ phase' = [phase EXCEPT ![e] = 2]
  /\ UNCHANGED <<submitted, callVars, hostVars>>

-----------------------------------------------------------------------------
(* Calls of the application *)

(* clSetUserEventStatus, UserEvent::SetStatus: the test and Signal are in  *)
(* the Monitor together, and the second call is refused.                   *)
SetStatus(h, u, s) ==
  /\ pc[h] = "idle"
  /\ status[u] = SUBMITTED
  /\ SignalEnter(u, h, s)
  /\ pc' = [pc EXCEPT ![h] = "setting"]
  /\ UNCHANGED <<submitted, phase, callVars, list, idx, result>>

(* clSetEventCallback, Event::AddEventCallback                             *)
AddEventCallback(h, e, t, c) ==
  /\ pc[h] = "idle"
  /\ mon[e] = None
  /\ reg[c] = None
  /\ reg' = [reg EXCEPT ![c] = <<e, t>>]
  /\ IF status[e] <= t
       THEN calls' = [calls EXCEPT ![c] = @ + 1] /\ UNCHANGED stored
       ELSE stored' = stored \cup {c} /\ UNCHANGED calls
  /\ UNCHANGED <<eventVars, hostVars>>

(* clWaitForEvents, after its validation phase.                            *)
WaitForEvents(h, l) ==
  /\ pc[h] = "idle"
  /\ pc' = [pc EXCEPT ![h] = "check"]
  /\ list' = [list EXCEPT ![h] = l]
  /\ idx' = [idx EXCEPT ![h] = 1]
  /\ result' = [result EXCEPT ![h] = None]
  /\ UNCHANGED <<eventVars, callVars>>

(* Mutant: Event::Wait reads Status without the Monitor.                   *)
CanEnterAlways(e) == TRUE

(* The Monitor is free.                                                    *)
CanEnter(e) == mon[e] = None

(* Event::Wait: the event is not complete, wait for the broadcast.         *)
WaitBlock(h) ==
  /\ pc[h] = "check"
  /\ CanEnter(list[h][idx[h]])
  /\ ~ HasCompleted(list[h][idx[h]])
  /\ pc' = [pc EXCEPT ![h] = "blocked"]
  /\ UNCHANGED <<eventVars, callVars, list, idx, result>>

(* Event::Wait returns Status.  "ErrDetected || Cur.Wait() != CL_SUCCESS"  *)
(* does not call Wait any more after an error: the loop is over.           *)
WaitNext(h) ==
  LET e == list[h][idx[h]]
      over == status[e] # COMPLETE \/ idx[h] = Len(list[h])
  IN /\ pc[h] = "check"
     /\ CanEnter(e)
     /\ HasCompleted(e)
     /\ pc' = [pc EXCEPT ![h] = IF over THEN "idle" ELSE @]
     /\ idx' = [idx EXCEPT ![h] = @ + 1]
     /\ result' = [result EXCEPT ![h] =
                     IF ~ over THEN @
                     ELSE IF status[e] = COMPLETE THEN "ok" ELSE "err"]
     /\ UNCHANGED <<eventVars, callVars, list>>

(* pthread_cond_wait may return for no reason; the loop checks again.      *)
WakeSpuriously(h) ==
  /\ pc[h] = "blocked"
  /\ pc' = [pc EXCEPT ![h] = "check"]
  /\ UNCHANGED <<eventVars, callVars, list, idx, result>>

-----------------------------------------------------------------------------
Init ==
  /\ status = [e \in Events |-> IF e \in Internal THEN QUEUED ELSE SUBMITTED]
  /\ mon = [e \in Events |-> None]
  /\ submitted = {}
  /\ phase = [e \in Internal |-> 0]
  /\ reg = [c \in Callbacks |-> None]
  /\ stored = {}
  /\ calls = [c \in Callbacks |-> 0]
  /\ pc = [h \in Hosts |-> "idle"]
  /\ list = [h \in Hosts |-> <<>>]
  /\ idx = [h \in Hosts |-> 0]
  /\ result = [h \in Hosts |-> None]

Device(e) == MarkSubmitted(e) \/ MarkRunning(e) \/ \E s \in {COMPLETE, FAILED} : MarkCompleted(e, s)

HostCall(h) ==
  \/ \E u \in User, s \in {COMPLETE, FAILED} : SetStatus(h, u, s)
  \/ \E e \in Events, t \in CallbackTypes, c \in Callbacks : AddEventCallback(h, e, t, c)
  \/ \E l \in WaitArgs : WaitForEvents(h, l)

HostStep(h) == WaitBlock(h) \/ WaitNext(h)

Next ==
  \/ \E e \in Internal : Device(e)
  \/ \E e \in Events : SignalNotify(e)
  \/ \E h \in Hosts : HostCall(h) \/ HostStep(h) \/ WakeSpuriously(h)

Spec == Init /\ [][Next]_vars

(* Every command is submitted and executed; the thread inside a Monitor    *)
(* leaves it; a host inside clWaitForEvents goes on.  A host may always    *)
(* find the Monitor taken by another one, but not for ever: each event is  *)
(* signalled a bounded number of times.                                    *)
FairSpec ==
  /\ Spec
  /\ \A e \in Internal : WF_vars(Device(e))
  /\ \A e \in Events : WF_vars(SignalNotify(e))
  /\ \A h \in Hosts : WF_vars(HostStep(h))

-----------------------------------------------------------------------------
(* Properties *)

TypeOK ==
  /\ status \in [Events -> FAILED .. QUEUED]
  /\ mon \in [Events -> {None} \cup [by : Hosts \cup {None}, s : FAILED .. SUBMITTED]]
  /\ submitted \subseteq Internal
  /\ phase \in [Internal -> 0 .. 2]
  /\ reg \in [Callbacks -> {None} \cup (Events \X CallbackTypes)]
  /\ stored \subseteq Callbacks
  /\ calls \in [Callbacks -> Nat]
  /\ pc \in [Hosts -> {"idle", "setting", "check", "blocked"}]
  /\ list \in [Hosts -> WaitArgs \cup {<<>>}]
  /\ idx \in [Hosts -> Nat]
  /\ result \in [Hosts -> {None, "ok", "err"}]

(* A callback runs at most once, although Signal never removes it from     *)
(* Callbacks, statuses come late, and AddEventCallback may race with them; *)
(* and it only runs when the event has reached its status.                 *)
CalledOnceReached ==
  \A c \in Callbacks :
    /\ calls[c] <= 1
    /\ calls[c] > 0 => status[reg[c][1]] <= reg[c][2]

(* Wait takes the Monitor: when clWaitForEvents has gone past an event     *)
(* that completed, the callbacks for its completion have returned.         *)
CallbacksBeforeWait ==
  \A h \in Hosts : \A i \in 1 .. Len(list[h]) :
    LET e == list[h][i]
    IN (i < idx[h] /\ status[e] = COMPLETE) =>
         \A c \in Callbacks : reg[c] = <<e, COMPLETE>> => calls[c] = 1

WaitsFor(h, e) == /\ pc[h] \in {"check", "blocked"}
                  /\ idx[h] \in DOMAIN list[h]
                  /\ list[h][idx[h]] = e

(* No wake-up is lost: a host that waits for an event goes on once the     *)
(* event has completed, with or without an error.                          *)
WaitersReturn ==
  \A h \in Hosts, e \in Events :
    (WaitsFor(h, e) /\ HasCompleted(e)) ~> ~ WaitsFor(h, e)

(* A callback on the event of a command that ends without an error runs,   *)
(* even if the status it is for was overtaken by a later one.              *)
CallbacksRun ==
  \A c \in Callbacks, e \in Internal :
    (reg[c] # None /\ reg[c][1] = e) ~> (calls[c] > 0 \/ status[e] = FAILED)

---------------------------------------------------------------------------
(* What comments, assertions, tests or the interface say and the code does *)
(* not keep in every case (README, section 4); no run checks these.        *)

(* The comment in AddEventCallback: a stored callback "will be triggered   *)
(* by a state change to a value past or equal to CallbackType".            *)
TriggeredByPastStatus ==
  \A c \in Callbacks, e \in Events :
    (reg[c] # None /\ reg[c][1] = e /\ status[e] <= reg[c][2]) ~> (calls[c] > 0)

(* clWaitForEvents (CL/cl.hpp): "Blocks the calling thread until every     *)
(* event specified is complete."                                           *)
WaitsForEveryEvent ==
  \A h \in Hosts : result[h] # None =>
    \A i \in 1 .. Len(list[h]) : HasCompleted(list[h][i])
=============================================================================
