------------------------------ MODULE MCFdTable ------------------------------
(***************************************************************************)
(* FdTable with three allocatable slots: one free slot left for a pipe,    *)
(* a hole between two descriptors and a full table all happen.             *)
(***************************************************************************)
EXTENDS FdTable

CONSTANT script

\* A two-byte file, reads that are short and reads past the end, dup2 onto
\* stdin and onto a slot in the middle, the error code -1.
MCFile == {script}
MCFileSize == [f \in MCFile |-> 2]
MCReadCount == {1, 3}
MCDup2New == {0, 4}
MCUnheld == {-1}
=============================================================================
