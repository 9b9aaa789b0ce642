----------------------------- MODULE MCDyldBind -----------------------------
(* DyldBind with two imports and three segments: __PAGEZERO and two that touch.
   The second offset of a segment lies in the next one, the last one wraps to
   the byte before the segment, and a step is a negative delta that puts a
   pointer across the one before it. *)
EXTENDS DyldBind, TLC

MCSegRuntime == 1 :> 8 @@ 2 :> 12
MCWritable == {[base |-> 8, size |-> 4], [base |-> 12, size |-> 4]}
=============================================================================
