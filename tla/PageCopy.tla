------------------------------ MODULE PageCopy ------------------------------
(***************************************************************************)
(* The programs that copy with one descriptor and resume it after a page   *)
(* fault: dsa_copy of kernel_test_basecodes.c ("kernel"), main of          *)
(* memmove_userguide_ref.c and, on areas two kernel modules export, main   *)
(* of mmap_to_userspace_dsa_*.c ("user").  The device copies a prefix,     *)
(* reports a page fault with bytes_completed, and the program moves the    *)
(* descriptor's addresses, shortens it and submits it again.               *)
(***************************************************************************)
EXTENDS Integers, FiniteSets, Bags

CONSTANTS
    Programs,       \* subset of {"kernel", "user"}
    Size,           \* pages to copy
    Width,          \* bits of the descriptor's xfer_size
    EnqMax, PollMax, FaultMax,   \* ENQ_, POLL_ and FAULT_RETRY_MAX
    DeviceFaults,   \* bound: page faults the device takes in one run
    Reach           \* bound: addresses beyond it are never backed by memory

ASSUME PageParameters ==
    /\ Programs \subseteq {"kernel", "user"}
    /\ {Size, Width, EnqMax, PollMax, FaultMax} \subseteq Nat \ {0}
    /\ DeviceFaults \in Nat /\ Reach \in Nat /\ Size <= Reach
    /\ 2 ^ Width \in Nat /\ Size < 2 ^ Width    \* xfer_size can hold the size

Page == 0 .. Size - 1
Wrapped(n) == n % 2 ^ Width

VARIABLES
    prog, pc,
    offset, left,    \* src_addr and dst_addr, xfer_size of the descriptor
    status, done,    \* the completion record: status, bytes_completed
    enq, poll, fault,    \* enq_retry, poll (poll_retry), fault
    queue,           \* the submissions at the device
    faultsLeft,      \* bound: page faults to come
    copied, stray,   \* pages copied; was a page beyond the areas written?
    accepted,        \* did the last enqcmd take the descriptor?
    report           \* what the program prints

hwVars == <<offset, left>>
deviceVars == <<status, done, queue, faultsLeft, copied, stray>>
vars == <<prog, pc, hwVars, enq, poll, fault, deviceVars, accepted, report>>

Init ==
    /\ prog \in Programs /\ pc = "prepare"
    /\ offset = 0 /\ left = Size
    /\ status = "none" /\ done = 0
    /\ enq = 0 /\ poll = 0 /\ fault = 0
    /\ queue = EmptyBag /\ faultsLeft = DeviceFaults
    /\ copied = {} /\ stray = FALSE
    /\ accepted = FALSE /\ report = "none"

IsKernel == prog = "kernel"
HwDesc == <<offset, left>>

-----------------------------------------------------------------------------
\* The areas, the queue and the descriptor are there, or the program ends; the
\* kernel one follows the NULL an allocation failure returns (IS_ERR is false).
Prepare ==
    /\ pc = "prepare"
    /\ \/ pc' = "submit" /\ UNCHANGED report
       \/ pc' = "returned" /\ report' = IF IsKernel THEN "oops" ELSE "notstarted"
    /\ UNCHANGED <<prog, hwVars, enq, poll, fault, deviceVars, accepted>>

\* Variant: comp.status is cleared once, before the first submission only.
StartUserKeepsStatus ==
    /\ pc = "submit" /\ ~IsKernel
    /\ status' = IF fault = 0 /\ offset = 0 THEN "none" ELSE status
    /\ enq' = 0 /\ accepted' = FALSE
    /\ pc' = "enqcmd"
    /\ UNCHANGED <<prog, hwVars, poll, fault, done, queue, faultsLeft, copied, stray, report>>

\* retry: comp.status = 0; enq_retry = 0.
StartUser ==
    /\ pc = "submit" /\ ~IsKernel
    /\ status' = "none" /\ enq' = 0 /\ accepted' = FALSE
    /\ pc' = "enqcmd"
    /\ UNCHANGED <<prog, hwVars, poll, fault, done, queue, faultsLeft, copied, stray, report>>

\* while (enqcmd() && enq_retry++ < ENQ_RETRY_MAX): the queue takes the descriptor
\* or asks for a retry.  Only enq_retry == ENQ_RETRY_MAX counts as the limit.
Enqcmd ==
    /\ pc = "enqcmd"
    /\ \/ /\ queue' = queue (+) SetToBag({HwDesc}) /\ accepted' = TRUE
          /\ IF enq = EnqMax
             THEN pc' = "returned" /\ report' = "enqlimit" /\ UNCHANGED poll
             ELSE pc' = "poll" /\ poll' = 0 /\ UNCHANGED report
          /\ UNCHANGED enq
       \/ /\ enq' = enq + 1
          /\ IF enq < EnqMax THEN UNCHANGED <<pc, poll>> ELSE pc' = "poll" /\ poll' = 0
          /\ UNCHANGED <<queue, accepted, report>>
    /\ UNCHANGED <<prog, hwVars, fault, status, done, faultsLeft, copied, stray>>

\* The kernel program submits without clearing the record and without looking at
\* idxd_submit_desc's result.
SubmitKernel ==
    /\ pc = "submit" /\ IsKernel
    /\ \/ queue' = queue (+) SetToBag({HwDesc}) /\ accepted' = TRUE
       \/ accepted' = FALSE /\ UNCHANGED queue
    /\ pc' = "poll"
    /\ UNCHANGED <<prog, hwVars, enq, poll, fault, status, done, faultsLeft, copied, stray, report>>

\* while (status == 0 && poll++ < POLL_RETRY_MAX)
Poll ==
    /\ pc = "poll"
    /\ IF status = "none" /\ poll < PollMax
       THEN poll' = poll + 1 /\ UNCHANGED pc
       ELSE poll' = (IF status = "none" THEN poll + 1 ELSE poll) /\ pc' = "check"
    /\ UNCHANGED <<prog, hwVars, enq, fault, deviceVars, accepted, report>>

LimitHit ==
    IF IsKernel THEN poll >= PollMax \/ fault >= FaultMax ELSE poll = PollMax

\* Variant: the addresses stay, the length shrinks.
ResumeInPlace ==
    /\ left' = Wrapped(left - done)
    /\ UNCHANGED offset

\* Variant: xfer_size keeps its value.
ResumeFullLength ==
    /\ offset' = offset + done
    /\ UNCHANGED left

\* src_addr, dst_addr += bytes_completed; xfer_size -= bytes_completed.
Resume ==
    /\ offset' = offset + done
    /\ left' = Wrapped(left - done)

Check ==
    /\ pc = "check"
    /\ fault' = IF IsKernel /\ ~LimitHit /\ status # "success" THEN fault + 1 ELSE fault
    /\ IF ~LimitHit /\ status = "pagefault"
       THEN Resume /\ pc' = "submit" /\ UNCHANGED report
       ELSE /\ pc' = IF IsKernel THEN "unmap" ELSE "returned"
            /\ report' = IF LimitHit THEN "polllimit"
                         ELSE IF status = "success" THEN "success" ELSE "failed"
            /\ UNCHANGED hwVars
    /\ UNCHANGED <<prog, enq, poll, deviceVars, accepted>>

\* dma_unmap_page of both areas; idxd_desc_complete has left the descriptor allocated.
UnmapPages ==
    /\ pc = "unmap" /\ pc' = "returned"
    /\ UNCHANGED <<prog, hwVars, enq, poll, fault, deviceVars, accepted, report>>

-----------------------------------------------------------------------------
(* The device works on the copy of the descriptor it was handed; addresses *)
(* up to Reach are backed by memory.                                       *)

Range(o, n) == o .. o + n - 1
Touches(o, n) ==
    /\ copied' = copied \cup (Range(o, n) \cap Page)
    /\ stray' = (stray \/ Range(o, n) \ Page # {})

DeviceCompletes(o, n) ==
    /\ queue' = queue (-) SetToBag({<<o, n>>})
    /\ \/ o + n <= Reach /\ status' = "success" /\ done' = 0 /\ Touches(o, n) /\ UNCHANGED faultsLeft
       \/ status' = "error" /\ done' = 0 /\ UNCHANGED <<faultsLeft, copied, stray>>
       \/ \E k \in {k \in 0 .. Reach : k < n /\ o + k <= Reach} :
             /\ faultsLeft > 0 /\ faultsLeft' = faultsLeft - 1
             /\ status' = "pagefault" /\ done' = k /\ Touches(o, k)
    /\ UNCHANGED <<prog, pc, hwVars, enq, poll, fault, accepted, report>>

Device == \E q \in BagToSet(queue) : DeviceCompletes(q[1], q[2])

Program == Prepare \/ StartUser \/ Enqcmd \/ SubmitKernel \/ Poll \/ Check \/ UnmapPages

Next == Program \/ Device

Spec == Init /\ [][Next]_vars

-----------------------------------------------------------------------------
\* Every variable has its type: xfer_size wraps, it is never negative.
TypeOK ==
    /\ prog \in Programs /\ pc \in {"prepare", "submit", "enqcmd", "poll", "check", "unmap", "returned"}
    /\ offset \in Nat /\ left \in 0 .. 2 ^ Width - 1
    /\ status \in {"none", "success", "pagefault", "error"} /\ done \in 0 .. Reach
    /\ enq \in 0 .. EnqMax + 1 /\ poll \in 0 .. PollMax + 1
    /\ fault \in 0 .. FaultMax /\ IsABag(queue)
    /\ copied \subseteq Page /\ accepted \in BOOLEAN

\* The user programs: across any number of page faults the descriptor covers
\* exactly what is still missing - everything before its start has been copied
\* and it ends where the area ends - so nothing is skipped, copied past the end,
\* or lost when the length wraps.
ResumesWhereItStopped ==
    ~IsKernel => /\ offset + left = Size
                 /\ 0 .. offset - 1 \subseteq copied
                 /\ ~stray

\* The kernel program keeps that promise until it has resumed once: it submits
\* again with the old record in place, reads the old page fault as the new
\* result, and moves and shortens the descriptor a second time.
KernelTrustsOneRecord ==
    (IsKernel /\ fault <= 1) => /\ offset + left = Size
                                /\ 0 .. offset - 1 \subseteq copied
                                /\ ~stray

\* No submission is outstanding twice in a user program; in the kernel program
\* only after it took a stale page fault for a new one.
OneOutstanding ==
    (\A q \in BagToSet(queue) : queue = SetToBag({q})) \/ (IsKernel /\ fault > 0)

\* The program returns with the device at work only after a limit (for enqcmd:
\* the queue took the descriptor at the very attempt that counts as the limit),
\* after a stale record, or with the poll loop run out and the empty status reported as
\* a failure.
QuietAtReturn ==
    (pc = "returned" /\ queue # EmptyBag) =>
        (report = "enqlimit" /\ accepted) \/ report = "polllimit" \/ (report = "failed" /\ status = "none")
        \/ (IsKernel /\ fault > 0)

\* What a run promises its caller: a resumed kernel run promises nothing.
Outcome ==
    IF (IsKernel /\ fault > 0) \/ report \notin {"none", "success"} THEN "gaveup"
    ELSE IF report = "success" THEN "done" ELSE "running"

Service == INSTANCE CopyService WITH pieces <- Page, outcome <- Outcome

\* The programs implement the copy service: "desc successful" means that every
\* page was copied, over all resumptions, and nothing is written afterwards.
ImplementsCopyService == Service!Spec

\* Resumption after page faults: types and, for both programs, a descriptor
\* that covers exactly what is missing - the kernel program's up to its first
\* resumption (the page-fault branches of dsa_copy and main).
ResumesRight == TypeOK /\ ResumesWhereItStopped /\ KernelTrustsOneRecord

\* What the device still has: one submission at a time, and none at the end
\* outside the named limits (the enqcmd and poll loops).
DeviceQuiet == OneOutstanding /\ QuietAtReturn

-----------------------------------------------------------------------------
(* The inductive strengthening of the properties above.                    *)

Reports == {"none", "oops", "notstarted", "enqlimit", "polllimit", "success", "failed"}

\* Counters stay below their limits, the control goes where the program sends it.
ControlInv ==
    /\ report \in Reports /\ (report = "none" <=> pc \notin {"unmap", "returned"})
    /\ pc = "enqcmd" => enq <= EnqMax /\ ~IsKernel
    /\ pc = "poll" => poll <= PollMax
    /\ pc \in {"prepare", "submit"} /\ IsKernel => poll < PollMax
    /\ BagToSet(queue) \subseteq Nat \X Nat

\* Up to the kernel program's first resumption the descriptor covers what is
\* missing, and the device has it at most once.
CoverInv ==
    /\ offset + left = Size
    /\ 0 .. offset - 1 \subseteq copied
    /\ ~stray
    /\ queue # EmptyBag => queue = SetToBag({HwDesc})
    /\ pc \in {"prepare", "submit", "enqcmd"} => queue = EmptyBag

\* While the record is the one of the last submission: what it says is true.
RecordInv ==
    /\ queue # EmptyBag => status = "none" /\ accepted
    /\ pc = "enqcmd" \/ (IsKernel /\ pc \in {"prepare", "submit"}) => status = "none"
    /\ status = "pagefault" /\ pc # "submit" =>
          done < left /\ offset .. offset + done - 1 \subseteq copied
    /\ status = "success" => copied = Page
    /\ report = "success" => status = "success"
    /\ report \in {"oops", "notstarted"} => queue = EmptyBag

PageInv ==
    /\ TypeOK /\ ControlInv
    /\ IsKernel => (fault <= 1 => CoverInv)
    /\ ~IsKernel => CoverInv
    /\ ~(IsKernel /\ fault > 0) => RecordInv
=============================================================================
