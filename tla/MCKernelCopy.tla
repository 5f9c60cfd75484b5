---------------------------- MODULE MCKernelCopy ----------------------------
(* Small instances of KernelCopy for TLC.                                  *)
EXTENDS KernelCopy

System(sgs, descs, batched, fails, errors) ==
    [sgs |-> sgs, descs |-> descs, batched |-> batched, fails |-> fails, errors |-> errors]

\* Everything may fail; descriptors are scarce, with queues of different and of the
\* same length; the batched program, with a short last batch and a queue of one
\* batch, or with a queue of one entry after or before a longer one.
AllSystems == {System(<<2, 2>>, 2, FALSE, TRUE, TRUE),
               System(<<3, 2>>, 1, FALSE, FALSE, FALSE),
               System(<<2, 2>>, 1, FALSE, FALSE, TRUE),
               System(<<5, 2>>, 2, TRUE, FALSE, TRUE),
               System(<<3, 1>>, 2, TRUE, FALSE, FALSE),
               System(<<1, 3>>, 2, TRUE, FALSE, FALSE)}
=============================================================================
