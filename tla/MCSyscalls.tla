----------------------------- MODULE MCSyscalls -----------------------------
(* Syscalls with one file in each tree, a heap of one page at 4 as the guest's
   buffer, and 0 as a pointer to nowhere. *)
EXTENDS Syscalls

Trees == [doc |-> "container", sys |-> "system", etc |-> "outside"]
Vecs == {<<[base |-> 4, len |-> 1], [base |-> 4, len |-> 1]>>,
         <<[base |-> 4, len |-> 1], [base |-> 0, len |-> 1]>>}
Seeks == {-1, 1}

\* The flags of the usual calls: read, rewrite, log, lock file, and one mistake.
UsualFlags == {{}, {"RDWR", "CREAT", "TRUNC"}, {"WRONLY", "CREAT", "APPEND"},
               {"RDWR", "CREAT", "EXCL"}, {"TRUNC"}}
\* O_RDONLY | O_APPEND
AppendFlags == {{"APPEND"}}
=============================================================================
