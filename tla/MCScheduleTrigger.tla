-------------------------- MODULE MCScheduleTrigger --------------------------
(* Instances of ScheduleTrigger for TLC.                                    *)
EXTENDS ScheduleTrigger

\* A small and a large drift, and two ranges that each hold one of them.
MCScore == {1, 2}
MCRange == {[min |-> 1, max |-> 1], [min |-> 2, max |-> NoMax]}
=============================================================================
