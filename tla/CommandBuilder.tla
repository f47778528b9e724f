--------------------------- MODULE CommandBuilder ---------------------------
(***************************************************************************)
(* What all builders of commands share.  A builder is constructed, its     *)
(* setters are called in the order the API function chains them, and       *)
(* Create makes a command if no call of NotifyError came before it.  A     *)
(* builder is modelled by the sequence of the errors it notified.          *)
(*                                                                         *)
(* A pointer argument that is null is named in a set of nulls, so that the *)
(* value it would point to always exists.  Sub-buffers are left out:       *)
(* clCreateSubBuffer cannot make one (it uses a builder of buffers).       *)
(***************************************************************************)
EXTENDS Naturals, Sequences

Success == "CL_SUCCESS"
InvalidValue == "CL_INVALID_VALUE"
InvalidMemObject == "CL_INVALID_MEM_OBJECT"
InvalidOperation == "CL_INVALID_OPERATION"
InvalidContext == "CL_INVALID_CONTEXT"
InvalidQueue == "CL_INVALID_COMMAND_QUEUE"
InvalidWaitList == "CL_INVALID_EVENT_WAIT_LIST"
ErrorInWaitList == "CL_EXEC_STATUS_ERROR_FOR_EVENTS_IN_WAIT_LIST"
CopyOverlap == "CL_MEM_COPY_OVERLAP"
FormatMismatch == "CL_IMAGE_FORMAT_MISMATCH"

Ctx == "ctx"   \* the context of the queue

\* A chain of checks, of which only the first that fails is notified.
FirstOf(checks) ==
    LET failed == {i \in 1..Len(checks) : checks[i][1]}
        first  == CHOOSE i \in failed : \A j \in failed : i <= j
    IN  IF failed = {} THEN <<>> ELSE <<checks[first][2]>>

\* A check of its own.
Check(failed, err) == FirstOf(<< <<failed, err>> >>)

\* Create: the last error notified, or success.
Create(errors) == IF errors = <<>> THEN Success ELSE errors[Len(errors)]

\* What every API function does with its queue and with what Enqueue answers.
Result(nulls, early, errors) ==
    IF "queue" \in nulls THEN InvalidQueue
    ELSE IF early # <<>> THEN early[1] ELSE Create(errors)

---------------------------------------------------------------------------
(* Wait lists: how many events the caller announces, and the kinds of the  *)
(* events it gives, if any: "good", "null", "failed" or of a "foreign"     *)
(* context.                                                                *)

NoWaitList == [n |-> 0, given |-> FALSE, evs |-> <<>>]

\* The events stored before the first null one.
Stored(wl) ==
    LET nulls == {i \in 1..Len(wl.evs) : wl.evs[i] = "null"}
        Before(i) == \A k \in nulls : i < k
    IN  IF wl.n = 0 \/ ~wl.given THEN {}
        ELSE {wl.evs[i] : i \in {j \in 1..Len(wl.evs) : Before(j)}}

\* CommandBuilder::SetWaitList.
SetWaitList(wl) ==
    Check(\/ (wl.n > 0) # wl.given
          \/ wl.given /\ "null" \in {wl.evs[i] : i \in 1..Len(wl.evs)},
          InvalidWaitList)

IsWaitListInconsistent(wl) == "failed" \in Stored(wl)

\* SetWaitList as most builders refine it.
CheckedWaitList(wl, blocking) ==
    SetWaitList(wl)
    \o FirstOf(<< <<blocking /\ IsWaitListInconsistent(wl), ErrorInWaitList>>,
                  <<"foreign" \in Stored(wl), InvalidContext>> >>)

=============================================================================
