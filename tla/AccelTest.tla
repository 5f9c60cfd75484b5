------------------------------ MODULE AccelTest ------------------------------
(***************************************************************************)
(* The accel-config test program (dsa_test.c, dsa.c, dsa_prep.c and        *)
(* accel_test.c): a test sends num_desc descriptors of one opcode to a     *)
(* user queue in rounds of at most the queue's size.  Every round          *)
(* allocates its tasks, runs one or two jobs on all of them (prepare all,  *)
(* submit all, wait for each; a wait resumes the descriptor after a page   *)
(* fault), verifies the results and frees the tasks.  A unit is a page of  *)
(* a task's buffers; in a batch test it is a descriptor of the batch.      *)
(* The tests of the event log (-e) are left out.                           *)
(***************************************************************************)
EXTENDS Integers, Sequences, FiniteSets

CONSTANTS
    Opcodes,       \* opcodes tested by themselves (-o)
    BatchOpcodes,  \* opcodes tested in batches (-b)
    NumDesc,       \* descriptors to send (-n)
    WqSize, Threshold,  \* wq_size of a dedicated queue, threshold of a shared one
    Size,          \* units of a task
    Word,          \* xfer_size and desc_count count modulo Word
    Troubles       \* bound: faults, errors and refused submissions of a run

ASSUME AccelParameters ==
    /\ {NumDesc, WqSize, Threshold, Size} \subseteq Nat \ {0} /\ Size >= 2 /\ Troubles \in Nat
    /\ Word \in Nat /\ Word > Size

Task == 1 .. NumDesc
Unit == 0 .. Size - 1

VARIABLES
    op, batch,     \* the opcode under test; is it sent in batches?
    dedicated, bof,  \* mode of the queue; may a descriptor block on fault?
    pc, step, k,   \* the program: place, step of the round, node it is at
    rc, itr,       \* the result; descriptors still to send
    nodes, live,   \* multi_task_node or multi_btask_node, newest first; allocated tasks
    desc,          \* descriptor of a task: src, dst, delta (delta_addr), len, recSize
    comp,          \* completion record: status, bytes, back (direction), mismatch, recSize, step
    unit,          \* what the current job did to the units of a task
    delta,         \* the units whose entries are at their place in a task's delta record
    spoiled,       \* do the buffers differ on purpose?
    queue,         \* submissions at the device
    troubles, timedOut, lost, hurt, strayed, redone, failedAlloc  \* what happened so far

memVars == <<nodes, live, failedAlloc>>
jobVars == <<desc, comp, unit, delta>>
happened == <<troubles, timedOut, lost, hurt, strayed, redone>>
setting == <<op, batch, dedicated, bof>>
testVars == <<setting, pc, step, k, rc, itr, memVars, jobVars, spoiled, queue, happened>>

NoRecord == [status |-> "none", bytes |-> 0, back |-> FALSE, mismatch |-> FALSE,
             recSize |-> 0, step |-> 0]
NoUnits == [u \in Unit |-> "none"]
NoDesc == [src |-> 0, dst |-> 0, delta |-> 0, len |-> 0, recSize |-> 0]

-----------------------------------------------------------------------------
(* What a page fault leaves to resubmit: the fields dsa_reprep_* moves by the
   bytes completed. *)

\* Variant: the length is left as it was.
ReprepMemcpyFullLength(back) == IF back THEN {} ELSE {"src", "dst"}

ReprepMemcpy(back) == IF back THEN {"len"} ELSE {"len", "src", "dst"}
ReprepMemfill == {"len", "dst"}
ReprepCompare == {"len", "src", "dst"}
ReprepCompval == {"len", "src"}
ReprepDualcast == {"len", "src", "dst"}
\* Neither moves the delta record: creation goes on at its start, and application
\* keeps delta_rec_size and takes the offsets from a destination that has moved.
ReprepCrDelta == {"len", "src", "dst"}
ReprepApDelta == {"len", "src", "dst"}
ReprepCrcgen == {"len", "src"}
ReprepCrcCopy == {"len", "src", "dst"}
\* DIX_GEN has no branch of its own: only the source moves.
ReprepDif(name) ==
    CASE name = "dix_gen" -> {"src"}
      [] name = "dif_check" -> {"src", "len"}
      [] OTHER -> {"src", "dst", "len"}
\* init_cflush allocates a destination only; the source moves.
ReprepCflush == {"len", "src"}
ReprepBatch == {"len", "src"}

(* A job: the address fields the device follows, the fields a resumption moves
   (forward and backward), the statuses it resumes, whether it may block on
   fault, and its length. *)
Job(uses, moves, movesBack, resumes, mayBlock, len) ==
    [uses |-> uses, moves |-> moves, movesBack |-> movesBack, resumes |-> resumes,
     bof |-> mayBlock, len |-> len]
Resumed(uses, moves) == Job(uses, moves, {}, {"fault"}, TRUE, Size)

NoopJob == Job({}, {}, {}, {}, FALSE, 0)
DrainJob == Job({}, {}, {}, {}, FALSE, 0)
MemcpyJob ==
    Job({"src", "dst"}, ReprepMemcpy(FALSE), ReprepMemcpy(TRUE), {"fault", "xlat"}, TRUE, Size)
MemfillJob == Resumed({"dst"}, ReprepMemfill)
CompareJob == Resumed({"src", "dst"}, ReprepCompare)
CompvalJob == Resumed({"src"}, ReprepCompval)
DualcastJob == Resumed({"src", "dst"}, ReprepDualcast)
TranslFetchJob == Job({"src"}, {}, {}, {}, TRUE, Size)
CrDeltaJob == Resumed({"src", "dst"}, ReprepCrDelta)
ApDeltaJob == Resumed({"src", "dst"}, ReprepApDelta)
CrcgenJob == Resumed({"src"}, ReprepCrcgen)
CrcCopyJob == Resumed({"src", "dst"}, ReprepCrcCopy)
DifJob(name) == Resumed(IF name = "dif_check" THEN {"src"} ELSE {"src", "dst"}, ReprepDif(name))
CflushJob == Resumed({"dst"}, ReprepCflush)
BatchJob == Job({"src"}, ReprepBatch, {}, {"batchfault"}, FALSE, Size)

JobOf == [noop |-> NoopJob, drain |-> DrainJob, memmove |-> MemcpyJob,
          memfill |-> MemfillJob, compare |-> CompareJob, compval |-> CompvalJob,
          dualcast |-> DualcastJob, transl_fetch |-> TranslFetchJob,
          cr_delta |-> CrDeltaJob, ap_delta |-> ApDeltaJob, crcgen |-> CrcgenJob,
          copy_crc |-> CrcCopyJob, cflush |-> CflushJob, batch |-> BatchJob,
          dif_check |-> DifJob("dif_check"), dif_ins |-> DifJob("dif_ins"),
          dif_strp |-> DifJob("dif_strp"), dif_updt |-> DifJob("dif_updt"),
          dix_gen |-> DifJob("dix_gen")]

DeltaJobs == {"cr_delta", "ap_delta"}

\* The program knows the opcodes it is asked to test; a batch is no test of its own.
ASSUME OpcodesAssumption == Opcodes \cup BatchOpcodes \subseteq DOMAIN JobOf \ {"batch"}

(* The steps of a round, between the allocation and the freeing of its tasks. *)
TestNoop == <<"noop", "verifyLast">>
TestMemory(o) ==
    CASE o = "drain" -> <<"memmove", "drain", "verify">>
      [] o \in {"compare", "compval"} -> <<o, "verify", "spoil", o, "verifyMismatch">>
      [] o = "cflush" -> <<"cflush">>
      [] OTHER -> <<o, "verify">>
TestDelta(o) == IF o = "ap_delta" THEN <<"cr_delta", "ap_delta", "verify">> ELSE <<o, "verify">>
TestCrc(o) == <<o, "verify">>
TestDif(o) == <<o, "verify">>
TestBatch(o) == IF o = "ap_delta" THEN <<"batch", "batch", "verify">> ELSE <<"batch", "verify">>

Steps ==
    IF batch THEN TestBatch(op)
    ELSE CASE op = "noop" -> TestNoop
           [] op \in {"cr_delta", "ap_delta"} -> TestDelta(op)
           [] op \in {"crcgen", "copy_crc"} -> TestCrc(op)
           [] op \in {"dif_check", "dif_ins", "dif_strp", "dif_updt", "dix_gen"} -> TestDif(op)
           [] OTHER -> TestMemory(op)

Place(n) ==
    IF n > Len(Steps) THEN "free"
    ELSE CASE Steps[n] \in DOMAIN JobOf -> "prep"
           [] Steps[n] = "spoil" -> "spoil"
           [] OTHER -> "verify"

CurrentJob == JobOf[Steps[step]]
Node == nodes[k]
GoTo(n) == step' = n /\ k' = 1 /\ pc' = Place(n)

-----------------------------------------------------------------------------
TestInit ==
    /\ \/ op \in Opcodes /\ batch = FALSE
       \/ op \in BatchOpcodes /\ batch = TRUE
    /\ dedicated \in BOOLEAN /\ bof \in BOOLEAN
    /\ pc = "round" /\ step = 1 /\ k = 1
    /\ rc = "ok" /\ itr = NumDesc
    /\ nodes = <<>> /\ live = {} /\ failedAlloc = FALSE
    /\ desc = [t \in Task |-> NoDesc]
    /\ comp = [t \in Task |-> NoRecord]
    /\ unit = [t \in Task |-> NoUnits] /\ delta = [t \in Task |-> {}]
    /\ spoiled = FALSE /\ queue = {}
    /\ troubles = 0 /\ timedOut = {} /\ lost = {} /\ hurt = {} /\ strayed = {} /\ redone = {}

\* range
QueueRange == IF dedicated THEN WqSize ELSE Threshold

\* i = (itr < range) ? itr : range
RoundSize == IF itr < QueueRange THEN itr ELSE QueueRange

\* The tasks of the round, the newest first.
RoundTasks == [i \in 1 .. RoundSize |-> NumDesc - itr + 1 + RoundSize - i]

\* The tasks of the round are allocated in front of the list, then every node of
\* the list is initialised: a node left from a freed batch is followed too.
Alloc ==
    /\ pc = "round" /\ itr > 0 /\ rc = "ok"
    /\ nodes' = RoundTasks \o nodes
    /\ live' = live \cup {RoundTasks[i] : i \in 1 .. RoundSize}
    /\ IF \E i \in 1 .. Len(nodes) : nodes[i] \notin live
       THEN pc' = "undefined" /\ UNCHANGED <<step, k>>
       ELSE GoTo(1)
    /\ spoiled' = FALSE
    /\ UNCHANGED <<setting, rc, itr, failedAlloc, jobVars, queue, happened>>

\* An allocation of the round fails.  The node's own: the list is dropped.  The
\* task's: the new head has no next, and acctest_alloc_task frees the descriptor
\* twice when the record is missing.  A buffer's, in init_task: the list is whole.
AllocFails ==
    /\ pc = "round" /\ itr > 0 /\ rc = "ok" /\ ~failedAlloc
    /\ rc' = "nomem" /\ failedAlloc' = TRUE
    /\ \/ nodes' = <<>> /\ pc' = "exit"
       \/ nodes' = <<0>> /\ pc' \in {"exit", "undefined"}
       \/ nodes' = <<NumDesc - itr + 1>> \o nodes /\ pc' = "exit"
    /\ live' = IF nodes' # <<>> /\ nodes'[1] # 0 THEN live \cup {nodes'[1]} ELSE live
    /\ UNCHANGED <<setting, step, k, itr, jobVars, spoiled, queue, happened>>

\* comp->status = 0
Cleared(t) == [comp[t] EXCEPT !.status = "none"]

InList(t) == \E i \in 1 .. Len(nodes) : nodes[i] = t

\* The descriptors of all nodes are prepared for the job.  The length of the delta
\* record to apply is the one in the completion record, whatever wrote it.
Prep ==
    /\ pc = "prep"
    /\ LET j == CurrentJob
           size(t) == IF Steps[step] = "ap_delta" THEN comp[t].recSize ELSE 0
       IN /\ desc' = [t \in Task |-> IF InList(t) THEN [NoDesc EXCEPT !.len = j.len, !.recSize = size(t)]
                                     ELSE desc[t]]
          /\ unit' = [t \in Task |-> IF InList(t) /\ j.len > 0 THEN NoUnits ELSE unit[t]]
    /\ comp' = [t \in Task |-> IF InList(t) THEN Cleared(t) ELSE comp[t]]
    /\ pc' = "submit" /\ k' = 1
    /\ UNCHANGED <<setting, step, rc, itr, memVars, delta, spoiled, queue, happened>>

Entry(t, d) == [task |-> t, step |-> step, src |-> d.src, dst |-> d.dst, delta |-> d.delta,
                len |-> d.len, recSize |-> d.recSize]

\* movdir64b on a dedicated queue; on a shared one enqcmd is tried three times and
\* its failure is not reported.
DescSubmit(t, d) ==
    \/ queue' = queue \cup {Entry(t, d)} /\ UNCHANGED <<lost, troubles>>
    \/ /\ ~dedicated /\ troubles < Troubles
       /\ lost' = lost \cup {t} /\ troubles' = troubles + 1
       /\ UNCHANGED queue

Submit ==
    /\ pc = "submit"
    /\ DescSubmit(Node, desc[Node])
    /\ IF k = Len(nodes) THEN pc' = "wait" /\ k' = 1 ELSE k' = k + 1 /\ UNCHANGED pc
    /\ UNCHANGED <<setting, step, rc, itr, memVars, jobVars, spoiled, timedOut, hurt,
                   strayed, redone>>

-----------------------------------------------------------------------------
(* Waiting for a node. *)

\* After the wait of a node: the next node, or the result of the last wait decides
\* (test_batch stops at the first wait that fails).
Waited(result) ==
    /\ rc' = result
    /\ CASE result # "ok" /\ (batch \/ k = Len(nodes)) -> pc' = "exit" /\ UNCHANGED <<step, k>>
         [] result = "ok" /\ k = Len(nodes) -> GoTo(step + 1)
         [] OTHER -> k' = k + 1 /\ UNCHANGED <<pc, step>>

\* ms_timeout has passed; a record that comes with the last poll is not looked at.
WaitTimesOut ==
    /\ pc = "wait"
    /\ timedOut' = timedOut \cup {Node}
    /\ Waited("timeout")
    /\ UNCHANGED <<setting, itr, memVars, jobVars, spoiled, queue, troubles, lost, hurt,
                   strayed, redone>>

\* A batch is worth resuming when two descriptors are left.
Resumable(t) ==
    /\ comp[t].status \in CurrentJob.resumes
    /\ batch => desc[t].len - comp[t].bytes >= 2

WaitDone ==
    /\ pc = "wait" /\ comp[Node].status # "none" /\ ~Resumable(Node)
    /\ Waited("ok")
    /\ UNCHANGED <<setting, itr, memVars, jobVars, spoiled, queue, happened>>

Moves(t) == IF comp[t].back THEN CurrentJob.movesBack ELSE CurrentJob.moves

MovedBy(t, f, b) == IF f \in Moves(t) THEN b ELSE 0

\* The descriptor dsa_reprep_* submits.  The record may be that of an earlier
\* submission: then the length can wrap.
ResumedAt(t) ==
    LET b == comp[t].bytes
    IN [desc[t] EXCEPT !.src = @ + MovedBy(t, "src", b), !.dst = @ + MovedBy(t, "dst", b),
                       !.len = (@ - MovedBy(t, "len", b)) % Word]

WaitResumes ==
    /\ pc = "wait" /\ Resumable(Node)
    /\ desc' = [desc EXCEPT ![Node] = ResumedAt(Node)]
    /\ comp' = [comp EXCEPT ![Node] = Cleared(Node)]
    /\ DescSubmit(Node, ResumedAt(Node))
    /\ redone' = IF Steps[step] \in DeltaJobs THEN redone \cup {Node} ELSE redone
    /\ UNCHANGED <<setting, pc, step, k, rc, itr, memVars, unit, delta, spoiled, timedOut, hurt,
                   strayed>>

\* The buffers are made different for the second comparison; the records are zeroed.
Spoil ==
    /\ pc = "spoil"
    /\ spoiled' = TRUE
    /\ comp' = [t \in Task |-> IF InList(t) THEN NoRecord ELSE comp[t]]
    /\ GoTo(step + 1)
    /\ UNCHANGED <<setting, rc, itr, memVars, desc, unit, delta, queue, happened>>

-----------------------------------------------------------------------------
(* Verification. *)

\* The units whose data is compared: the whole buffer; the last block, whose memcmp
\* result is the one kept; what the last submission covered.
Checked(t) ==
    CASE op \in {"memmove", "memfill", "dualcast"} -> Unit
      [] op \in {"dif_ins", "dif_strp", "dif_updt"} -> {Size - 1}
      [] op \in {"crcgen", "copy_crc"} -> desc[t].src .. desc[t].src + desc[t].len - 1
      [] OTHER -> {}

\* Variant: the status is not looked at.
VerifyBlind(t) == "ok"

\* A status other than success is the result: an empty record's is 0, which is OK.
Verify(t) ==
    CASE comp[t].status = "none" -> "ok"
      [] comp[t].status \notin {"none", "success"} -> "status"
      [] comp[t].status = "success" ->
            IF IF op \in {"compare", "compval"}
               THEN comp[t].mismatch = (Steps[step] = "verifyMismatch")
               ELSE \A u \in Checked(t) : unit[t][u] = "success"
            THEN "ok" ELSE "fail"

\* A faulting descriptor of the batch passes when it could not block.  What a delta
\* record was applied to is compared with itself (dst_addr is src2_addr).
BatchVerify(t) ==
    IF /\ comp[t].status \in {"success", "batchfault", "batchfail"}
       /\ \A u \in Unit : unit[t][u] \in {"success", "wrong"} \cup (IF bof THEN {} ELSE {"fault"})
    THEN "ok" ELSE "fail"

\* test_noop keeps the last node's result, the others stop at the first bad one.
VerifyNode ==
    /\ pc = "verify"
    /\ rc' = IF batch THEN BatchVerify(Node) ELSE Verify(Node)
    /\ CASE rc' # "ok" /\ Steps[step] # "verifyLast" -> pc' = "exit" /\ UNCHANGED <<step, k>>
         [] k < Len(nodes) /\ (rc' = "ok" \/ Steps[step] = "verifyLast") ->
               k' = k + 1 /\ UNCHANGED <<pc, step>>
         [] OTHER -> GoTo(step + 1)
    /\ UNCHANGED <<setting, itr, memVars, jobVars, spoiled, queue, happened>>

-----------------------------------------------------------------------------
(* Freeing. *)

\* Variant: the list of single tasks is not reset either.
FreedListKept == nodes

\* multi_task_node = NULL in both branches: a list of batches keeps its freed nodes.
FreedList == IF batch THEN nodes ELSE <<>>

FreeTask ==
    /\ nodes' = FreedList
    /\ live' = {t \in live : ~InList(t)}

Free ==
    /\ pc = "free"
    /\ FreeTask
    /\ itr' = itr - QueueRange
    /\ pc' = "round"
    /\ UNCHANGED <<setting, step, k, rc, failedAlloc, jobVars, spoiled, queue, happened>>

RoundsDone ==
    /\ pc = "round" /\ (itr <= 0 \/ rc # "ok")
    /\ pc' = "exit"
    /\ UNCHANGED <<setting, step, k, rc, itr, memVars, jobVars, spoiled, queue, happened>>

\* munmap and close: the driver's release waits until the device has finished with
\* the descriptors of the process.
Close ==
    /\ pc = "exit" /\ queue = {}
    /\ pc' = "closed"
    /\ UNCHANGED <<setting, step, k, rc, itr, memVars, jobVars, spoiled, queue, happened>>

\* acctest_free_task again, for what a failed test has left.
FreeAtExit ==
    /\ pc = "closed"
    /\ IF \E i \in 1 .. Len(nodes) : nodes[i] \notin live
       THEN pc' = "undefined" /\ UNCHANGED <<nodes, live>>
       ELSE pc' = "exited" /\ FreeTask
    /\ UNCHANGED <<setting, step, k, rc, itr, failedAlloc, jobVars, spoiled, queue, happened>>

-----------------------------------------------------------------------------
(* The device. *)

Handled(e, b, back) == IF back THEN e.len - b .. e.len - 1 ELSE 0 .. b - 1

\* Does the submission create a delta record, or apply one?
Creates(e) == IF batch THEN op = "cr_delta" \/ (op = "ap_delta" /\ e.step = 1)
              ELSE Steps[e.step] = "cr_delta"
Applies(e) == IF batch THEN op = "ap_delta" /\ e.step = 2 ELSE Steps[e.step] = "ap_delta"

\* A unit is done.  An application is right where the record has the unit's entry,
\* at an offset from the start of the whole destination.
Done(e, u) ==
    IF Applies(e) /\ ~(u \in delta[e.task] /\ (batch \/ (e.dst = 0 /\ u < e.recSize)))
    THEN "wrong" ELSE "success"

UnitsAfter(e, j, b, back) ==
    [u \in Unit |-> IF \E i \in Handled(e, b, back) : \A f \in j.uses : e[f] + i = u
                    THEN Done(e, u) ELSE unit[e.task][u]]

\* The first b entries are written at delta_addr, with offsets from the submission's
\* own source.
DeltaAfter(e, b) ==
    IF ~Creates(e) THEN delta[e.task]
    ELSE (delta[e.task] \ (e.delta .. e.delta + b - 1))
            \cup IF e.delta = e.src THEN {u \in Unit : u \in e.src .. e.src + b - 1} ELSE {}

\* A comparison ends at the first difference.
Mismatch(e, b) == spoiled /\ \E i \in 0 .. b - 1 : e.src + i = Size \div 2

Record(e, status, b, back) ==
    [status |-> status, bytes |-> b, back |-> back, mismatch |-> Mismatch(e, b),
     recSize |-> IF Creates(e) THEN b ELSE 0, step |-> e.step]

\* A single descriptor ends well, with a fault after b units, or with an error.
DeviceSingle(e, j) ==
    \E status \in {"success", "fault", "xlat", "error"},
       b \in 0 .. e.len, back \in {FALSE, Steps[e.step] = "memmove"} :
        /\ status = "success" => b = e.len
        /\ status # "success" => b < e.len \/ (status = "error" /\ e.len = 0)
        /\ status = "fault" => ~(j.bof /\ bof)
        /\ status = "xlat" => Steps[e.step] = "memmove"
        /\ back => status \in {"fault", "xlat"} /\ e.src = e.dst
        /\ status # "success" => troubles < Troubles /\ ~Mismatch(e, b)
        /\ troubles' = troubles + (IF status = "success" THEN 0 ELSE 1)
        /\ hurt' = IF status = "error" THEN hurt \cup {e.task} ELSE hurt
        /\ comp' = [comp EXCEPT ![e.task] = Record(e, status, b, back)]
        /\ unit' = [unit EXCEPT ![e.task] = UnitsAfter(e, j, b, back)]
        /\ delta' = [delta EXCEPT ![e.task] = DeltaAfter(e, b)]
        /\ strayed' = IF \E f \in j.uses, i \in Handled(e, b, back) : e[f] + i \notin Unit
                      THEN strayed \cup {e.task} ELSE strayed

\* A batch ends, or stops at a fault of the list; one of its descriptors may fail.
DeviceBatch(e) ==
    \E b \in 0 .. e.len, bad \in {"success", "fault", "error"}, x \in Unit :
        LET units == e.src .. e.src + b - 1
            spent == (IF b < e.len THEN 1 ELSE 0) + (IF bad = "success" THEN 0 ELSE 1)
            status == IF b < e.len THEN "batchfault"
                      ELSE IF bad # "success" THEN "batchfail" ELSE "success"
        IN /\ IF bad = "success" THEN x = 0 ELSE x \in units
           /\ bad = "fault" => ~bof
           /\ troubles' = troubles + spent /\ troubles' <= Troubles
           /\ hurt' = IF bad = "error" THEN hurt \cup {e.task} ELSE hurt
           /\ comp' = [comp EXCEPT ![e.task] = Record(e, status, b, FALSE)]
           /\ unit' = [unit EXCEPT ![e.task] =
                         [u \in Unit |-> IF u \notin units THEN @[u]
                                         ELSE IF u = x /\ bad # "success" THEN bad ELSE Done(e, u)]]
           /\ delta' = [delta EXCEPT ![e.task] =
                          IF Creates(e)
                          THEN @ \cup {u \in Unit : u \in units /\ (bad = "success" \/ u # x)} ELSE @]
           /\ strayed' = IF units \subseteq Unit THEN strayed ELSE strayed \cup {e.task}

Device ==
    /\ \E e \in queue :
        /\ queue' = queue \ {e}
        /\ IF batch THEN DeviceBatch(e) ELSE DeviceSingle(e, JobOf[Steps[e.step]])
    /\ UNCHANGED <<setting, pc, step, k, rc, itr, memVars, desc, spoiled, timedOut, lost,
                   redone>>

Program ==
    \/ Alloc \/ AllocFails \/ Prep \/ Submit
    \/ WaitTimesOut \/ WaitDone \/ WaitResumes \/ Spoil \/ VerifyNode
    \/ Free \/ RoundsDone \/ Close \/ FreeAtExit

Next == Program \/ Device

\* A step of the program, or of the device.
Spec == TestInit /\ [][Next]_testVars

-----------------------------------------------------------------------------
(* Properties. *)

\* Every variable keeps its type: the 32-bit length of a descriptor stays a length,
\* whatever record it is shortened by.
TestTypeOK ==
    /\ op \in Opcodes \cup BatchOpcodes /\ {batch, dedicated, bof, spoiled, failedAlloc} \subseteq BOOLEAN
    /\ pc \in {"round", "prep", "submit", "wait", "spoil", "verify", "free",
               "exit", "closed", "exited", "undefined"}
    /\ step \in 1 .. Len(Steps) + 1 /\ k \in 1 .. NumDesc
    /\ rc \in {"ok", "timeout", "status", "fail", "nomem"} /\ itr \in -QueueRange .. NumDesc
    /\ nodes \in Seq(Task \cup {0}) /\ live \subseteq Task
    /\ desc \in [Task -> [src : Nat, dst : Nat, delta : {0}, len : 0 .. Word - 1, recSize : 0 .. Word - 1]]
    /\ \A t \in Task : comp[t].bytes \in 0 .. Word - 1
    /\ unit \in [Task -> [Unit -> {"none", "success", "wrong", "fault", "error"}]]
    /\ delta \in [Task -> SUBSET Unit]
    /\ troubles \in 0 .. Troubles /\ timedOut \cup lost \cup hurt \cup strayed \cup redone \subseteq Task

\* The device holds no descriptor of a freed task, whose record and buffers it would
\* still write: only a wait that timed out unnoticed lets a task go too early
\* (acctest_free closes the queue before it frees).
HeldMemoryLive ==
    \A e \in queue : e.task \in live \/ (e.task \in timedOut /\ pc \notin {"closed", "exited"})

\* A round never has more descriptors at a dedicated queue than the queue has
\* entries, unless descriptors of a wait that timed out are still there.
QueueFits == dedicated /\ timedOut = {} => Cardinality(queue) <= QueueRange

\* The record a wait and a verification read was written for the job they ask
\* about: of the two jobs of drain, compare and ap_delta, the first one's result is
\* never taken for the second one's, unless the first was given up.
RecordIsOwn ==
    pc \in {"wait", "verify"} =>
        \A i \in 1 .. Len(nodes) :
            LET t == nodes[i]
                now == IF pc = "wait" THEN step ELSE step - 1
            IN comp[t].status = "none" \/ comp[t].step = now \/ t \in timedOut

\* Where the first unit of a submission is: the offsets in a delta record count from
\* its start, and are added to the destination.
At(e, f) == IF Applies(e) /\ f = "dst" THEN e.dst + e.src ELSE e[f]

\* A submission covers what is left of the buffers and nothing else: units done and
\* units asked for make up the whole, at the same place in every buffer, a delta
\* record to create included.  Not so when DIX_GEN or a cache flush (dsa_prep.c:632,
\* 773) or a delta job (386-405, 422-441: the record is not moved) is resumed.
ResumeCovers ==
    \A e \in queue :
        LET j == JobOf[Steps[e.step]]
            fields == j.uses \cup IF Creates(e) /\ ~batch THEN {"delta"} ELSE {}
            asked == {u \in Unit : \A f \in fields : u \in At(e, f) .. At(e, f) + e.len - 1}
        IN \/ Steps[e.step] \in {"dix_gen", "cflush"} \/ j.len = 0
           \/ e.task \in timedOut \cup redone
           \/ asked = {u \in Unit : unit[e.task][u] = "none"} /\ Cardinality(asked) = e.len

\* The device never leaves the buffers of a task.  After a timeout it may: a late
\* record of one job shortens the descriptor of the next one, twice; and DIX_GEN
\* moves its source without shortening it.
StaysInBuffers == \A t \in strayed : t \in timedOut \/ op = "dix_gen"

\* The delta jobs of a task went as the program assumes: neither was resumed, and the
\* creation before an application did not end in an error, which nobody looks at
\* (dsa_test.c:661-669; of a batch, 233-256, not even a fault).
DeltaWhole(t) == ~batch /\ t \notin redone \cup hurt

\* A unit the test has done: by its last job, or left to a fault that the
\* verification of a batch lets pass.  Applied right, if the delta record was whole.
UnitDone(t, u) ==
    \/ unit[t][u] = "success"
    \/ batch /\ ~bof /\ unit[t][u] = "fault"
    \/ op = "ap_delta" /\ ~DeltaWhole(t) /\ unit[t][u] = "wrong"

\* A test that passes has had every unit of every descriptor processed by its last
\* job, a created delta record has every unit, and an applied one was applied
\* right.  Exceptions: waits that timed out unnoticed; delta jobs that were resumed,
\* and applications whose creation failed or was in a batch (DeltaWhole); noop has no
\* units, and of the copy before a drain, of a cache flush and of DIX_GEN's data
\* nothing is looked at.
PassMeansDone ==
    pc \in {"exit", "closed", "exited"} /\ rc = "ok" /\ op \notin {"noop", "drain", "cflush", "dix_gen"} =>
        \A t \in Task \ timedOut :
            /\ \A u \in Unit : UnitDone(t, u)
            /\ op = "cr_delta" /\ ~batch /\ t \notin redone => delta[t] = Unit

\* A test fails for a reason: a device error, a timeout, no memory; or a fault
\* nobody resumes (translation fetch, the last descriptor of a batch).
FailExplained ==
    pc = "exit" /\ rc # "ok" =>
        \/ hurt # {} \/ timedOut # {} \/ failedAlloc
        \/ op = "transl_fetch" /\ \E t \in Task : comp[t].status = "fault"
        \/ batch /\ \E t \in Task : comp[t].status = "batchfault" /\ desc[t].len - comp[t].bytes = 1

\* Freed or broken nodes are followed only where the code leaves them in the list:
\* a freed list of batches, a node whose allocation failed half way.
UndefinedExplained ==
    pc = "undefined" => failedAlloc \/ (batch /\ itr < NumDesc)

\* The tasks of a round: types, no freed task at the device, no round larger than
\* the queue, no freed node followed outside the known places (acctest_free_task).
MemorySound == TestTypeOK /\ HeldMemoryLive /\ QueueFits /\ UndefinedExplained

\* One descriptor: its record is read for its own job, its resumption covers what is
\* left, and the device stays in its buffers (dsa_prep_*, dsa_reprep_*, dsa_wait_*), but
\* for tasks that were given up, DIX_GEN, cache flush and resumed delta jobs.
JobsRight == RecordIsOwn /\ ResumeCovers /\ StaysInBuffers

\* The verdict: a pass means that the work was done, up to the exceptions listed at
\* PassMeansDone; a failure has a reason (task_result_verify_*, the results of the waits).
VerdictRight == PassMeansDone /\ FailExplained
-----------------------------------------------------------------------------
(* The inductive invariant. *)

Records ==
    [status : {"none", "success", "fault", "xlat", "error", "batchfault", "batchfail"},
     bytes : 0 .. Word - 1, back : BOOLEAN, mismatch : BOOLEAN, recSize : 0 .. Word - 1, step : Nat]
JobSteps == {n \in 1 .. Len(Steps) : Steps[n] \in DOMAIN JobOf}
Entries == [task : Task, step : JobSteps, src : Nat, dst : Nat, delta : {0}, len : 0 .. Word - 1,
            recSize : 0 .. Word - 1]

\* A round is under way: its tasks are allocated, the newest comes first.
Held ==
    /\ itr > 0
    /\ nodes = RoundTasks
    /\ \A i \in 1 .. RoundSize : nodes[i] \in live

\* Between two rounds the list is empty, or has the freed nodes of a batch.
Left ==
    \/ nodes = <<>>
    \/ batch /\ itr < NumDesc /\ nodes # <<>> /\ \A i \in 1 .. Len(nodes) : nodes[i] \notin live

Active == {"prep", "submit", "wait", "spoil", "verify", "free"}

ListInv ==
    /\ pc \in Active => Held /\ k \in 1 .. RoundSize
    /\ pc = "round" => Left
    /\ pc \in Active \cup {"round"} => ~failedAlloc
    /\ pc \in {"exit", "closed"} => Held \/ Left \/ failedAlloc
    /\ pc \in {"closed", "exited"} => queue = {}

StepInv ==
    /\ pc \in {"prep", "submit", "wait"} => step \in JobSteps
    /\ pc \in {"spoil", "verify", "free"} => Place(step) = pc
    /\ pc \in Active /\ op \in {"compare", "compval"} /\ ~batch => (spoiled <=> step >= 4)

(* One descriptor: its fields d, its record c and what its units w have seen, for
   the job o of step n. *)

\* Where the device works, and what its record leaves.
Base(j, d) == IF "src" \in j.uses THEN d.src ELSE d.dst
Rest(j, d, c) ==
    IF c.status = "none" THEN Base(j, d) .. Base(j, d) + d.len - 1
    ELSE IF c.back THEN Base(j, d) .. Base(j, d) + d.len - 1 - c.bytes
    ELSE Base(j, d) + c.bytes .. Base(j, d) + d.len - 1

Untracked == {"dix_gen", "cflush"}

\* The units are done but for those asked for, or left by the record.
Covers(o, d, c, w) ==
    LET j == JobOf[o]
    IN /\ d.len <= Size /\ (j.len = 0 <=> d.len = 0)
       /\ o = "cflush" => d.dst = 0
       /\ o \notin Untracked /\ j.len > 0 =>
             /\ \A f \in j.uses : d[f] = Base(j, d)
             /\ Base(j, d) + d.len <= Size
             /\ o # "memmove" => Base(j, d) + d.len = Size
             /\ \A u \in Unit : w[u] = "none" <=> u \in Rest(j, d, c)

\* The record is that of the last submission.
Tells(o, n, d, c) ==
    c.status # "none" =>
        /\ c.step = n /\ c.bytes <= d.len
        /\ c.status \in IF o = "batch" THEN {"success", "batchfault", "batchfail"}
                       ELSE {"success", "fault", "xlat", "error"}
        /\ c.status \in {"success", "batchfail"} => c.bytes = d.len
        /\ c.status \notin {"success", "batchfail", "error"} => c.bytes < d.len
        /\ c.status = "error" => c.bytes < d.len \/ JobOf[o].len = 0
        /\ c.status = "xlat" => o = "memmove"
        /\ c.back => o = "memmove" /\ c.status # "success"

\* A comparison of buffers that differ (s) does not pass the difference.
Compares(o, d, c, s) ==
    o \in {"compare", "compval"} =>
        IF c.status = "none" THEN s => d.src <= Size \div 2
        ELSE IF c.status = "success" THEN c.mismatch = s
        ELSE s => d.src + c.bytes <= Size \div 2

\* A delta job that was not resumed is at the start of everything.
Unmoved(o, d) == o \in DeltaJobs => d.src = 0 /\ d.dst = 0 /\ d.delta = 0

\* Its delta record (g) has what was done.
Recorded(o, c, g) ==
    o = "cr_delta" /\ c.status # "none" => c.recSize = c.bytes /\ 0 .. c.bytes - 1 \subseteq g

\* A delta record that is applied is whole.
Applied(o, d, w, g) ==
    o = "ap_delta" => g = Unit /\ d.recSize = Size /\ \A u \in Unit : w[u] # "wrong"

DeltaInv(t, n) ==
    /\ t \notin redone => Unmoved(Steps[n], desc[t]) /\ Recorded(Steps[n], comp[t], delta[t])
    /\ t \notin redone \cup hurt => Applied(Steps[n], desc[t], unit[t], delta[t])

JobState(o, n, d, c, w, s) ==
    Covers(o, d, c, w) /\ Tells(o, n, d, c) /\ Compares(o, d, c, s)
JobInv(t, n) ==
    /\ JobState(Steps[n], n, desc[t], comp[t], unit[t], spoiled)
    /\ comp[t].status = "error" => t \in hurt
    /\ DeltaInv(t, n)

\* The wait for the task is over.
Settled(t, n) ==
    /\ JobInv(t, n) /\ comp[t].status # "none"
    /\ ~(comp[t].status \in JobOf[Steps[n]].resumes /\ (batch => desc[t].len - comp[t].bytes >= 2))

\* The delta record is ready to be applied.
Readied(t) == t \in redone \cup hurt \/ (delta[t] = Unit /\ comp[t].recSize = Size)

WorkInv ==
    \A i \in 1 .. RoundSize : pc \in Active /\ nodes[i] \notin timedOut =>
        /\ pc = "prep" /\ Steps[step] = "ap_delta" => Readied(nodes[i])
        /\ pc \in {"submit", "wait"} => JobInv(nodes[i], step)
        /\ pc = "submit" /\ i >= k => comp[nodes[i]].status = "none"
        /\ pc = "wait" /\ i < k => Settled(nodes[i], step)
        /\ pc = "verify" => Settled(nodes[i], step - 1)

\* What is at the device, but for the tasks that were given up.
EntryInv ==
    \A e \in queue : e.task \notin timedOut =>
        /\ pc \in {"submit", "wait", "exit"} /\ Held
        /\ \E i \in 1 .. RoundSize :
              e.task = nodes[i] /\ (pc = "submit" => i < k) /\ (pc = "wait" => i >= k)
        /\ e = Entry(e.task, desc[e.task]) /\ comp[e.task].status = "none"
        /\ step \in JobSteps /\ JobInv(e.task, step)

Finished(t) ==
    /\ \A u \in Unit : UnitDone(t, u)
    /\ op = "cr_delta" /\ ~batch /\ t \notin redone => delta[t] = Unit

Silent == {"noop", "drain", "cflush", "dix_gen"}

DoneInv ==
    op \notin Silent =>
        /\ \A t \in Task \ timedOut : t <= NumDesc - itr => Finished(t)
        /\ pc \in {"verify", "free"} => \A i \in 1 .. RoundSize :
              /\ nodes[i] \notin timedOut
              /\ pc = "verify" => step = Len(Steps) /\ i < k
              => Finished(nodes[i])

UnitsInv ==
    \A t \in Task, u \in Unit : /\ unit[t][u] = "error" => batch /\ hurt # {}
                                /\ unit[t][u] = "fault" => batch /\ ~bof
                                /\ unit[t][u] = "wrong" => op = "ap_delta"

OutcomeInv ==
    /\ rc # "ok" /\ pc \in Active \cup {"round"} => hurt # {} \/ timedOut # {}
    /\ rc = "ok" /\ pc \in {"exit", "closed", "exited"} => itr <= 0
    /\ pc = "exit" /\ queue # {} => timedOut # {}

TestTypes == TestTypeOK /\ comp \in [Task -> Records] /\ queue \subseteq Entries

AccelInv ==
    /\ TestTypes
    /\ ListInv /\ StepInv /\ UndefinedExplained
    /\ UnitsInv /\ WorkInv /\ EntryInv /\ DoneInv /\ OutcomeInv
    /\ StaysInBuffers /\ FailExplained
=============================================================================
