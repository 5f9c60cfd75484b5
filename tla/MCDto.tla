-------------------------------- MODULE MCDto --------------------------------
EXTENDS Dto

Job(op, n, dst, src, m) == [op |-> op, n |-> n, dst |-> dst, src |-> src, mem |-> m]
Cells(k) == [i \in 0 .. k |-> i % 8]

Fills == {Job("set", 4, 0, 0, Cells(4))}
Copies == {Job("copy", 4, 4, 0, Cells(7))}
Moves == {Job("move", 4, 0, 1, Cells(5)), Job("move", 2, 1, 0, Cells(3)),
          Job("move", 3, 1, 0, Cells(4))}
Compares == {Job("cmp", 3, 0, 3, [i \in 0 .. 6 |-> i % 3]),
             Job("cmp", 3, 0, 3, [i \in 0 .. 7 |-> IF i = 5 THEN 7 ELSE i % 3])}

TwoThreads == 1 .. 2
\* The second thread initialises the library and moves the knobs.
MCJobs == <<Fills \cup Copies \cup Moves \cup Compares, {Job("cmp", 2, 0, 2, [i \in 0 .. 4 |-> i % 2])}>>
=============================================================================
