--------------------------- MODULE MCNativeBackend ---------------------------
(* NativeBackend for up to three launches of guests with three traps each; the
   stub pages are interchangeable, and so are the threads. *)
EXTENDS NativeBackend, TLC

Symmetry == Permutations(Pages) \cup Permutations(Threads)
=============================================================================
