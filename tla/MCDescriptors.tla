---------------------------- MODULE MCDescriptors ----------------------------
(***************************************************************************)
(* A process that forks or starts a thread, with one descriptor number.    *)
(***************************************************************************)
EXTENDS Descriptors
CONSTANTS t1, t2, s1
=============================================================================
