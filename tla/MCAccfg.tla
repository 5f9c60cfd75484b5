------------------------------- MODULE MCAccfg -------------------------------
EXTENDS Accfg
Nothing ==
    [size |-> <<{}, {}>>, group |-> <<{1}, {}>>, bof |-> <<{}, {}>>,
     prs |-> <<{}, {}>>, thr |-> <<{}, {}>>, tuned |-> {}, ded |-> <<{}, {}>>,
     type |-> <<{"user"}, {}>>, drv |-> <<{"user"}, {}>>,
     reserved |-> <<{}, {}>>, allowed |-> <<{}, {}>>, engine |-> <<{1}>>]
\* One queue, shared or dedicated, of either type, for either driver.
Modes == [Nothing EXCEPT !.thr = <<{2}, {}>>, !.ded = <<{TRUE, FALSE}, {}>>,
                         !.size = <<{2}, {}>>, !.type = <<{"kernel", "user"}, {}>>,
                         !.drv = <<{"dmaengine", "user"}, {}>>]
\* A dedicated queue with its fault handling, the other attributes and a
\* driver name no driver has.
Faults == [Nothing EXCEPT !.ded = <<{TRUE}, {}>>, !.bof = <<{TRUE}, {}>>,
                          !.prs = <<{TRUE}, {}>>, !.tuned = {1},
                          !.drv = <<{"username"}, {}>>]
\* Two dedicated queues compete for the queue entries; only the first has a
\* driver name, and neither has a type of its own.
Sizes == [Nothing EXCEPT !.type = <<{}, {}>>,
                         !.size = <<{1}, {1, 2}>>, !.group = <<{1}, {1}>>,
                         !.ded = <<{TRUE}, {TRUE}>>]
\* The groups: members and read buffers.
Buffers == [Nothing EXCEPT !.group = <<{0, 1, 2}, {}>>, !.ded = <<{TRUE}, {}>>,
                           !.type = <<{}, {}>>, !.drv = <<{}, {}>>,
                           !.reserved = <<{1, 2}, {1}>>, !.allowed = <<{1}, {}>>, !.engine = <<{1, 2}>>]
AllPlans == {Modes, Faults, Sizes, Buffers}
=============================================================================
