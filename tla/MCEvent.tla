------------------------------ MODULE MCEvent -------------------------------
(* Instances of Event for TLC: one command, one user event.                *)
EXTENDS Event

CONSTANTS e1, u1

Lists == {<<e1, u1>>, <<u1, e1>>}
One == {<<e1>>}
=============================================================================
