--------------------------- MODULE MCInOrderQueue ---------------------------
(* Instances of InOrderQueue for TLC: the commands the application builds. *)
EXTENDS InOrderQueue, TLC

Single(blocking) ==
  [ndrange |-> FALSE, blocks |-> 1, blocking |-> blocking, bad |-> FALSE]
Kernel(n, bad) ==
  [ndrange |-> TRUE, blocks |-> n, blocking |-> FALSE, bad |-> bad]

(* A blocking read and a kernel of two work-groups with no entry point.    *)
ReadAndBadKernel == {Single(TRUE), Kernel(2, TRUE)}

(* A non-blocking copy and a kernel of two work-groups.                    *)
CopyAndKernel == {Single(FALSE), Kernel(2, FALSE)}

(* A blocking read and a copy.                                             *)
ReadAndCopy == {Single(TRUE), Single(FALSE)}

Copy == {Single(FALSE)}

HostSymmetry == Permutations(Hosts)
=============================================================================
