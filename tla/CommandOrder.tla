---------------------------- MODULE CommandOrder ----------------------------
(***************************************************************************)
(* What the in-order command queues of a context promise the application:  *)
(* when a command may be given to the device, and when its event may       *)
(* complete.  No locks, threads, blocks or containers: one step for each   *)
(* of the things that an application can observe.                          *)
(***************************************************************************)
EXTENDS Integers

CONSTANTS Queues, UserEvents, MaxCmds, None

Cmds == 1 .. MaxCmds
Events == Cmds \cup UserEvents

VARIABLES
  last,      (* number of commands enqueued so far                          *)
  queue,     (* the queue and the event wait list of each command           *)
  waits,
  sent,      (* commands given to the device                                *)
  done       (* events that have completed, or ended in error               *)

vars == <<last, queue, waits, sent, done>>

Init ==
  /\ last = 0
  /\ queue = [c \in Cmds |-> None]
  /\ waits = [c \in Cmds |-> {}]
  /\ sent = {}
  /\ done = {}

(* A command is enqueued behind those of its queue; it may wait for user   *)
(* events and for commands enqueued before it on any queue.                *)
Enqueue(q, W) ==
  /\ last < MaxCmds
  /\ W \subseteq (1 .. last) \cup UserEvents
  /\ last' = last + 1
  /\ queue' = [queue EXCEPT ![last + 1] = q]
  /\ waits' = [waits EXCEPT ![last + 1] = W]
  /\ UNCHANGED <<sent, done>>

(* A command goes to the device after the commands before it on its queue, *)
(* and the events of its wait list, have completed.                        *)
Dispatch(c) ==
  /\ c \notin sent
  /\ \A d \in 1 .. c - 1 : queue[d] = queue[c] => d \in done
  /\ waits[c] \subseteq done
  /\ sent' = sent \cup {c}
  /\ UNCHANGED <<last, queue, waits, done>>

(* The device completes a command it was given.                            *)
Complete(c) ==
  /\ c \in sent \ done
  /\ done' = done \cup {c}
  /\ UNCHANGED <<last, queue, waits, sent>>

(* The application sets a user event.                                      *)
Trigger(u) ==
  /\ u \notin done
  /\ done' = done \cup {u}
  /\ UNCHANGED <<last, queue, waits, sent>>

Next ==
  \/ \E q \in Queues, W \in SUBSET Events : Enqueue(q, W)
  \/ \E c \in 1 .. last : Dispatch(c) \/ Complete(c)
  \/ \E u \in UserEvents : Trigger(u)

Spec == Init /\ [][Next]_vars
=============================================================================
