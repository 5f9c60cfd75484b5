---------------------------- MODULE MCSingleCopy ----------------------------
(* Small instances of SingleCopy for TLC.                                  *)
EXTENDS SingleCopy

Job(p, n, s) == [prog |-> p, npages |-> n, shuffled |-> s]

\* Three rounds of two, two batches of two, three batches for two descriptors.
SmallJobs ==
    {Job("loop", 5, FALSE), Job("loop", 3, TRUE), Job("loop", 1, FALSE),
     Job("batch", 4, FALSE), Job("batch", 3, TRUE), Job("batch", 5, FALSE)}
=============================================================================
