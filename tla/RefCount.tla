------------------------------ MODULE RefCount ------------------------------
(***************************************************************************)
(* Reference counting of the OpenCL objects: MTRefCountedBase and          *)
(* MTRefCountedBaseVPTR, as clRetain*, clRelease* and IntrusiveRefCntPtr   *)
(* use them.  One object, shared by several threads; the API call that     *)
(* creates it retains it once for its caller.                              *)
(***************************************************************************)
EXTENDS Integers

CONSTANTS
  Threads,   (* threads that share the object                               *)
  Creator,   (* the one that creates it                                     *)
  MaxRefs    (* bound: references that a thread holds                       *)

VARIABLES
  refs,      (* Refs                                                        *)
  held,      (* references that each thread holds                           *)
  deleted    (* the object was deleted                                      *)

vars == <<refs, held, deleted>>

(* Retain: fetch_add, for the thread itself or for another one.            *)
Retain(t, u) ==
  /\ held[t] > 0
  /\ held[u] < MaxRefs
  /\ refs' = refs + 1
  /\ held' = [held EXCEPT ![u] = @ + 1]
  /\ UNCHANGED deleted

(* Release: the object is deleted if fetch_sub returns 0, the value that   *)
(* the counter had before.                                                 *)
Release(t) ==
  /\ held[t] > 0
  /\ refs' = refs - 1
  /\ held' = [held EXCEPT ![t] = @ - 1]
  /\ deleted' = (deleted \/ refs = 0)

Init ==
  /\ refs = 1
  /\ held = [t \in Threads |-> IF t = Creator THEN 1 ELSE 0]
  /\ deleted = FALSE

Next == \E t \in Threads : Release(t) \/ \E u \in Threads : Retain(t, u)

Spec == Init /\ [][Next]_vars

(* MTRefCounted.h: the classes are those of llvm/ADT/IntrusiveRefCntPtr.h  *)
(* with atomic updates, that is, the Release that drops the last reference *)
(* deletes the object.                                                     *)
LastReleaseDeletes ==
  (\A t \in Threads : held[t] = 0) => deleted
=============================================================================
