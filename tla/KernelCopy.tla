----------------------------- MODULE KernelCopy -----------------------------
(***************************************************************************)
(* The copy programs of 3.kernel_test_N_DSAs: dsa_copy spreads the entries *)
(* of scatter lists over the enabled work queues, one descriptor per entry *)
(* (kernel_test_sgtable.c) or per batch (kernel_test_sgtable_batch.c); the *)
(* kthread dsa_desc_complete polls the completion records, frees the       *)
(* descriptors and tells dsa_copy when nothing is left.  The two share     *)
(* idxd_desc_lists, without a lock, and the flags thread_execution,        *)
(* thread_wakeup and completion_status.                                    *)
(*                                                                         *)
(* One action is one access of a thread to that shared state.  The list is *)
(* only ever appended to at its tail, so it is a set of positions.         *)
(***************************************************************************)
EXTENDS Integers, FiniteSets, FiniteSetsExt

CONSTANTS
    NumWqs,         \* enabled_wqs
    MaxBatch,       \* idxd->max_batch_size
    Systems         \* the programs and hardware considered: see sys

VARIABLE sys        \* the one at hand

SgCount == sys.sgs          \* nents of the scatter list of each queue
NumDescs == sys.descs       \* wq->num_descs
Batched == sys.batched      \* kernel_test_sgtable_batch.c?
MayFail == sys.fails        \* may allocations and submissions fail?
MayError == sys.errors      \* may the device complete with an error?

ASSUME CopyParameters ==
    /\ NumWqs \in Nat \ {0} /\ MaxBatch \in Nat \ {0}
    /\ \A s \in Systems : /\ s.sgs \in [1 .. NumWqs -> Nat \ {0}] /\ s.descs \in Nat \ {0}
                          /\ {s.batched, s.fails, s.errors} \subseteq BOOLEAN

Wqs == 1 .. NumWqs
Desc == Wqs \X (1 .. NumDescs)
NoDesc == <<0, 0>>
Head == 0                           \* the list head ends a traversal
Sgs == UNION {{w} \X (1 .. SgCount[w]) : w \in Wqs}

\* descs_entries[w]: one per scatter-list entry, or per batch of them.
DescsEntries(w) ==
    IF Batched THEN (SgCount[w] + MaxBatch - 1) \div MaxBatch ELSE SgCount[w]

MaxEnts == Max({DescsEntries(w) : w \in Wqs})

\* The scatter-list entries the n-th descriptor of a queue copies.
Chunk(w, n) ==
    LET left == SgCount[w] - n * MaxBatch
        size == IF Batched THEN Min({left, MaxBatch}) ELSE 1
        first == IF Batched THEN n * MaxBatch ELSE n
    IN  {w} \X (first + 1 .. first + size)

Entries == 1 .. MaxEnts * NumWqs    \* positions on idxd_desc_lists

VARIABLES
    spc, curEnt, wq,     \* dsa_copy: cur_ent and the queue it is at
    newDesc,             \* its desc_list->desc
    batchTask,           \* its pointer batch_task: null, live or freed
    appended,            \* how many entries it has put on the list
    totalEntries, threadExecution, threadWakeup, completionStatus,
    linked,              \* idxd_desc_lists
    entryDesc,           \* desc_entry->desc
    completed,           \* entries with completion = 1
    cpc, entry, temp,    \* dsa_desc_complete: desc_entry, desc_entry_temp
    pollEntry, completionError, shouldStop,
    busy, status, chunk, \* allocated descriptors, their records and contents
    inflight, copied,    \* at the device; scatter-list entries it has copied
    oops

copyVars == <<spc, curEnt, wq, newDesc, batchTask, appended, totalEntries>>
flagVars == <<threadExecution, threadWakeup, completionStatus>>
listVars == <<linked, entryDesc, completed>>
pollVars == <<cpc, entry, temp, pollEntry, completionError>>
descVars == <<busy, status, chunk, inflight, copied>>
vars == <<sys, copyVars, flagVars, listVars, pollVars, shouldStop, descVars, oops>>

Init ==
    /\ sys \in Systems
    /\ spc = "start" /\ curEnt = 0 /\ wq = 1 /\ newDesc = NoDesc
    /\ batchTask = "null" /\ appended = 0 /\ totalEntries = 0
    /\ threadExecution = FALSE /\ threadWakeup = FALSE /\ completionStatus = 0
    /\ linked = {} /\ completed = {}
    /\ entryDesc = [e \in Entries |-> NoDesc]
    /\ cpc = "wait" /\ entry = Head /\ temp = Head
    /\ pollEntry = 0 /\ completionError = FALSE /\ shouldStop = FALSE
    /\ busy = {} /\ inflight = {} /\ copied = {}
    /\ status = [d \in Desc |-> "none"]
    /\ chunk = [d \in Desc |-> {}]
    /\ oops = FALSE

-----------------------------------------------------------------------------
(* dsa_copy.                                                               *)

CopyStart ==
    /\ spc = "start"
    /\ totalEntries' = MaxEnts * NumWqs
    /\ spc' = "alloc"
    /\ UNCHANGED <<curEnt, wq, newDesc, batchTask, appended, flagVars, listVars,
                   descVars, oops>>

\* The inner loop goes to the next queue, the outer one to the next entry.
NextTurn ==
    /\ wq' = IF wq = NumWqs THEN 1 ELSE wq + 1
    /\ curEnt' = IF wq = NumWqs THEN curEnt + 1 ELSE curEnt
    /\ spc' = IF wq = NumWqs /\ curEnt + 1 = MaxEnts THEN "waitwake" ELSE "alloc"

SkipTurn ==
    /\ spc = "alloc" /\ curEnt >= DescsEntries(wq)
    /\ NextTurn
    /\ UNCHANGED <<newDesc, batchTask, appended, totalEntries, flagVars,
                   listVars, descVars, oops>>

UsesBatch == Batched /\ SgCount[wq] # 1

\* idxd_desc_dma_submit_memcpy(_sg): blocks until the queue has a descriptor.
AllocDesc ==
    /\ spc = "alloc" /\ curEnt < DescsEntries(wq)
    /\ \E d \in Desc \ busy :
          /\ d[1] = wq
          /\ busy' = busy \cup {d}
          /\ status' = [status EXCEPT ![d] = "none"]
          /\ chunk' = [chunk EXCEPT ![d] = Chunk(wq, curEnt)]
          /\ newDesc' = d
    /\ batchTask' = IF UsesBatch THEN "live" ELSE batchTask
    /\ spc' = "append"
    /\ UNCHANGED <<curEnt, wq, appended, totalEntries, flagVars, listVars,
                   inflight, copied, oops>>

\* It returns NULL; dsa_copy follows a NULL batch_task at once.
AllocFails ==
    /\ spc = "alloc" /\ curEnt < DescsEntries(wq) /\ MayFail
    /\ newDesc' = NoDesc
    /\ oops' = UsesBatch
    /\ spc' = "append"
    /\ UNCHANGED <<curEnt, wq, batchTask, appended, totalEntries, flagVars,
                   listVars, descVars>>

AppendEntry ==
    /\ spc = "append"
    /\ appended' = appended + 1
    /\ entryDesc' = [entryDesc EXCEPT ![appended + 1] = newDesc]
    /\ linked' = linked \cup {appended + 1}
    /\ spc' = "submit"
    /\ UNCHANGED <<curEnt, wq, newDesc, batchTask, totalEntries, flagVars,
                   completed, descVars, oops>>

\* A failed submission is logged and otherwise ignored; a submission of NULL
\* fails on a disabled device and is followed on an enabled one.
SubmitDesc ==
    /\ spc = "submit"
    /\ \/ /\ newDesc # NoDesc
          /\ inflight' = inflight \cup {newDesc}
          /\ UNCHANGED oops
       \/ MayFail /\ UNCHANGED <<inflight, oops>>
       \/ newDesc = NoDesc /\ oops' = TRUE /\ UNCHANGED inflight
    /\ spc' = "wake"
    /\ UNCHANGED <<curEnt, wq, newDesc, batchTask, appended, totalEntries,
                   flagVars, listVars, busy, status, chunk, copied>>

\* The thread is woken by the first turn; batch_task is freed by every turn,
\* also by one that did not allocate it.
WakeThread ==
    /\ spc = "wake"
    /\ threadExecution' = TRUE
    /\ batchTask' = IF batchTask = "null" THEN "null" ELSE "freed"
    /\ oops' = (batchTask = "freed")
    /\ NextTurn
    /\ UNCHANGED <<newDesc, appended, totalEntries, threadWakeup,
                   completionStatus, listVars, descVars>>

WaitWakeup ==
    /\ spc = "waitwake" /\ threadWakeup
    /\ spc' = "clear"
    /\ UNCHANGED <<curEnt, wq, newDesc, batchTask, appended, totalEntries,
                   flagVars, listVars, descVars, oops>>

ClearExecution ==
    /\ spc = "clear"
    /\ threadExecution' = FALSE
    /\ spc' = "waitstatus"
    /\ UNCHANGED <<curEnt, wq, newDesc, batchTask, appended, totalEntries,
                   threadWakeup, completionStatus, listVars, descVars, oops>>

\* The buffers are unmapped and the tables freed.
WaitStatus ==
    /\ spc = "waitstatus" /\ completionStatus # 0
    /\ spc' = "unmapped"
    /\ UNCHANGED <<curEnt, wq, newDesc, batchTask, appended, totalEntries,
                   flagVars, listVars, descVars, oops>>

CopyStep ==
    /\ \/ CopyStart \/ SkipTurn \/ AllocDesc \/ AllocFails \/ AppendEntry
       \/ SubmitDesc \/ WakeThread \/ WaitWakeup \/ ClearExecution \/ WaitStatus
    /\ UNCHANGED <<sys, pollVars, shouldStop>>

\* my_exit: kthread_stop, which also interrupts the thread's wait, returns once
\* the thread has.
Unload ==
    /\ \/ spc = "unmapped" /\ shouldStop' = TRUE /\ spc' = "stopping"
       \/ spc = "stopping" /\ cpc = "stopped" /\ spc' = "unloaded"
          /\ UNCHANGED shouldStop
    /\ UNCHANGED <<sys, curEnt, wq, newDesc, batchTask, appended, totalEntries,
                   flagVars, listVars, pollVars, descVars, oops>>

-----------------------------------------------------------------------------
(* dsa_desc_complete.                                                      *)

After(e, list) ==
    LET later == {f \in list : f > e}
    IN  IF later = {} THEN Head ELSE Min(later)

\* The first wait is followed by thread_wakeup = true, the later ones are not.
ThreadWait ==
    /\ cpc \in {"wait", "wait2"} /\ (threadExecution \/ shouldStop)
    /\ threadWakeup' = (threadWakeup \/ cpc = "wait")
    /\ cpc' = "outer"
    /\ UNCHANGED <<entry, temp, pollEntry, completionError, threadExecution,
                   completionStatus, listVars, busy, oops>>

OuterLoop ==
    /\ cpc = "outer"
    /\ cpc' = IF shouldStop THEN "stopped" ELSE "inner"
    /\ UNCHANGED <<entry, temp, pollEntry, completionError, flagVars, listVars,
                   busy, oops>>

InnerLoop ==
    /\ cpc = "inner"
    /\ IF ~shouldStop /\ pollEntry < totalEntries /\ linked # {}
       THEN /\ entry' = After(Head, linked)
            /\ temp' = After(entry', linked)
            /\ cpc' = "examine"
       ELSE cpc' = "idle" /\ UNCHANGED <<entry, temp>>
    /\ UNCHANGED <<pollEntry, completionError, flagVars, listVars, busy, oops>>

\* list_for_each_entry_safe: the next entry was read before the body ran.
Advance(list) ==
    /\ entry' = temp
    /\ temp' = IF temp = Head THEN Head ELSE After(temp, list)
    /\ cpc' = IF temp = Head THEN "inner" ELSE "examine"

\* Variant: thread_execution is not tested.
UnlinkAlways ==
    /\ linked' = linked \ {entry}
    /\ Advance(linked')

\* An entry is only unlinked and freed when dsa_copy has appended its last.
Unlink ==
    /\ linked' = IF threadExecution THEN linked ELSE linked \ {entry}
    /\ Advance(linked')

SeeCompleted ==
    /\ cpc = "examine" /\ entry \in completed
    /\ Unlink
    /\ UNCHANGED <<pollEntry, completionError, flagVars, entryDesc, completed,
                   busy, oops>>

SeePending ==
    /\ cpc = "examine" /\ entry \notin completed
    /\ entryDesc[entry] # NoDesc => status[entryDesc[entry]] = "none"
    /\ oops' = (entryDesc[entry] = NoDesc)
    /\ Advance(linked)
    /\ UNCHANGED <<pollEntry, completionError, flagVars, listVars, busy>>

\* Variants: the completion flag is not set; the descriptor is not freed.
SeeFinishedAgain ==
    /\ cpc = "examine" /\ entry \notin completed
    /\ entryDesc[entry] # NoDesc /\ status[entryDesc[entry]] # "none"
    /\ busy' = busy \ {entryDesc[entry]}
    /\ cpc' = "unlink"
    /\ UNCHANGED <<entry, temp, flagVars, linked, entryDesc, completed, pollEntry,
                   completionError, oops>>

SeeFinishedKeeps ==
    /\ cpc = "examine" /\ entry \notin completed
    /\ entryDesc[entry] # NoDesc /\ status[entryDesc[entry]] # "none"
    /\ completed' = completed \cup {entry}
    /\ pollEntry' = pollEntry + 1
    /\ completionError' = (completionError \/ status[entryDesc[entry]] = "error")
    /\ cpc' = "unlink"
    /\ UNCHANGED <<entry, temp, flagVars, linked, entryDesc, busy, oops>>

\* The descriptor is completed and given back to its queue.
SeeFinished ==
    /\ cpc = "examine" /\ entry \notin completed
    /\ entryDesc[entry] # NoDesc /\ status[entryDesc[entry]] # "none"
    /\ busy' = busy \ {entryDesc[entry]}
    /\ completed' = completed \cup {entry}
    /\ pollEntry' = pollEntry + 1
    /\ completionError' = (completionError \/ status[entryDesc[entry]] = "error")
    /\ cpc' = "unlink"
    /\ UNCHANGED <<entry, temp, flagVars, linked, entryDesc, oops>>

UnlinkFinished ==
    /\ cpc = "unlink"
    /\ Unlink
    /\ UNCHANGED <<pollEntry, completionError, flagVars, entryDesc, completed,
                   busy, oops>>

\* Variant: the list need not be empty.
ReportEarly ==
    /\ cpc = "idle"
    /\ IF ~threadExecution
       THEN /\ completionStatus' = IF completionError THEN 2 ELSE 1
            /\ threadWakeup' = FALSE
            /\ cpc' = "wait2"
       ELSE cpc' = "outer" /\ UNCHANGED <<completionStatus, threadWakeup>>
    /\ UNCHANGED <<entry, temp, pollEntry, completionError, threadExecution,
                   listVars, busy, oops>>

ReportStatus ==
    /\ cpc = "idle"
    /\ IF ~threadExecution /\ linked = {}
       THEN /\ completionStatus' = IF completionError THEN 2 ELSE 1
            /\ threadWakeup' = FALSE
            /\ cpc' = "wait2"
       ELSE cpc' = "outer" /\ UNCHANGED <<completionStatus, threadWakeup>>
    /\ UNCHANGED <<entry, temp, pollEntry, completionError, threadExecution,
                   listVars, busy, oops>>

PollStep ==
    /\ \/ ThreadWait \/ OuterLoop \/ InnerLoop \/ SeeCompleted \/ SeePending
       \/ SeeFinished \/ UnlinkFinished \/ ReportStatus
    /\ UNCHANGED <<sys, copyVars, shouldStop, status, chunk, inflight, copied>>

-----------------------------------------------------------------------------
(* The device, as the programs use it.                                     *)

DevComplete(d) ==
    /\ d \in inflight
    /\ inflight' = inflight \ {d}
    /\ \/ /\ status' = [status EXCEPT ![d] = "success"]
          /\ copied' = copied \cup chunk[d]
       \/ /\ MayError
          /\ status' = [status EXCEPT ![d] = "error"]
          /\ UNCHANGED copied
    /\ UNCHANGED <<sys, copyVars, flagVars, listVars, pollVars, shouldStop, busy,
                   chunk, oops>>

Device == \E d \in Desc : DevComplete(d)

Next ==
    /\ ~oops
    /\ CopyStep \/ Unload \/ PollStep \/ Device

Spec == Init /\ [][Next]_vars

\* Both threads run whenever they can and the device completes what it accepts;
\* nothing makes the user unload the module.
Fairness ==
    /\ WF_vars(~oops /\ CopyStep) /\ WF_vars(~oops /\ PollStep)
    /\ WF_vars(~oops /\ spc = "stopping" /\ Unload)
    /\ WF_vars(~oops /\ Device)

FairSpec == Spec /\ Fairness

-----------------------------------------------------------------------------
\* Every variable has its type (struct idxd_desc_list, struct batch_task and the
\* static flags of the module).
TypeOK ==
    /\ spc \in {"start", "alloc", "append", "submit", "wake", "waitwake",
                "clear", "waitstatus", "unmapped", "stopping", "unloaded"}
    /\ curEnt \in 0 .. MaxEnts /\ wq \in Wqs
    /\ newDesc \in Desc \cup {NoDesc} /\ batchTask \in {"null", "live", "freed"}
    /\ appended \in 0 .. MaxEnts * NumWqs /\ totalEntries \in Nat
    /\ completionStatus \in 0 .. 2
    /\ linked \in SUBSET Entries /\ completed \in SUBSET Entries
    /\ entryDesc \in [Entries -> Desc \cup {NoDesc}]
    /\ cpc \in {"wait", "wait2", "outer", "inner", "examine", "unlink", "idle",
                "stopped"}
    /\ entry \in Entries \cup {Head} /\ temp \in Entries \cup {Head}
    /\ pollEntry \in 0 .. MaxEnts * NumWqs
    /\ busy \in SUBSET Desc /\ inflight \in SUBSET Desc /\ copied \in SUBSET Sgs
    /\ status \in [Desc -> {"none", "success", "error"}]
    /\ chunk \in [Desc -> SUBSET Sgs]
    /\ {threadExecution, threadWakeup, completionError, shouldStop, oops}
         \subseteq BOOLEAN

\* The thread that polls unlinks and frees an entry only when dsa_copy will not
\* touch the unlocked list any more (thread_execution in dsa_copy and
\* dsa_desc_complete).
NoUnlinkWhileAppending ==
    [][linked' \subseteq linked /\ linked' # linked => spc = "waitstatus"]_vars

\* A descriptor that has been submitted is not given back to its queue, and so
\* to another entry, before the device is done with it, and two entries that
\* wait for their descriptors wait for different ones (dsa_desc_complete,
\* idxd_desc_dma_submit_memcpy).
DescriptorOwned ==
    /\ inflight \subseteq busy
    /\ \A e, f \in linked \ completed :
          entryDesc[e] = entryDesc[f] /\ entryDesc[e] # NoDesc => e = f
    /\ \A e \in linked \ completed : entryDesc[e] \in busy \cup {NoDesc}

\* When dsa_copy unmaps the buffers, the device does not use them any more and
\* every entry of the list has been freed (completion_status).
QuietAtUnmap ==
    spc \in {"unmapped", "stopping", "unloaded"} => inflight = {} /\ linked = {}

\* When dsa_copy is told of a success, every scatter-list entry of every queue
\* has been copied (the turns of dsa_copy, the batch sizes, completion_error).
SuccessMeansCopied ==
    spc = "unmapped" /\ completionStatus = 1 => copied = Sgs

\* No queue with one scatter-list entry comes after one with several: its turn,
\* which allocates no batch_task, would free the one of the earlier turn again.
SinglesFirst ==
    Batched => \A v, w \in Wqs : v < w /\ SgCount[w] = 1 => SgCount[v] = 1

\* Unless an allocation fails, neither program follows a NULL descriptor; and
\* batch_task is freed twice only by a turn of a one-entry queue after the turn
\* of a longer one (dsa_copy, dsa_desc_complete).
NoOops == ~MayFail /\ SinglesFirst => ~oops

\* The thread has counted every entry while some were not unlinked yet, and does not
\* look at the list again (poll_entry < total_entries): dsa_copy waits.
Stranded ==
    /\ spc = "waitstatus" /\ completionStatus = 0
    /\ cpc \in {"outer", "inner", "idle"} /\ pollEntry >= totalEntries
    /\ linked # {} /\ linked \subseteq completed

SameLengths == \A v, w \in Wqs : DescsEntries(v) = DescsEntries(w)

\* The copy ends, where NoOops says that it runs through, or dsa_copy is stranded for
\* ever with every entry complete; nothing else makes it wait for ever.  A queue that
\* has run out of descriptors gets some back while dsa_copy still submits
\* (idxd_alloc_desc with IDXD_OP_BLOCK); queues of different lengths keep poll_entry
\* below total_entries, and their copies always end (dsa_desc_complete).
CopyEnds ==
    <>[](\/ MayFail \/ ~SinglesFirst
         \/ spc \in {"unmapped", "stopping", "unloaded"}
         \/ SameLengths /\ Stranded)

\* The module can be unloaded after a copy (my_exit, kthread_stop).
UnloadEnds == spc = "stopping" ~> spc = "unloaded"

\* What the two threads share stays sound: types, descriptors with one owner,
\* and no NULL or freed pointer followed (dsa_copy, dsa_desc_complete).
EntriesSound == TypeOK /\ DescriptorOwned /\ NoOops

\* The end of dsa_copy: the device is quiet when the buffers are unmapped, and
\* a reported success covers every scatter-list entry.
CopyComplete == QuietAtUnmap /\ SuccessMeansCopied

\* Who waits: dsa_copy ends unless it is stranded, and an unloading that has started
\* ends (idxd_alloc_desc, dsa_desc_complete, my_exit).
Progress == CopyEnds /\ UnloadEnds
-----------------------------------------------------------------------------
(* The inductive strengthening of the properties above.                    *)

InTurn == {"append", "submit", "wake"}
Ended == {"waitstatus", "unmapped", "stopping", "unloaded"}
Pending == linked \ completed

\* The turns of dsa_copy whose entry is on the list, or was.
Taken(w, n) ==
    n < curEnt \/ (n = curEnt /\ (w < wq \/ (w = wq /\ spc \in {"submit", "wake"})))

\* There is at most one entry per turn.
TurnInv ==
    /\ spc \in InTurn \cup {"start", "alloc"} => curEnt < MaxEnts
    /\ spc \in InTurn => curEnt < DescsEntries(wq)
    /\ spc \in Ended \cup {"waitwake", "clear"} => curEnt = MaxEnts /\ wq = 1
    /\ appended < curEnt * NumWqs + wq + (IF spc \in {"submit", "wake"} THEN 1 ELSE 0)

\* What the flags tell one thread of the other.
FlagInv ==
    /\ cpc # "wait" => threadExecution \/ spc \in Ended
    /\ shouldStop => spc \in {"stopping", "unloaded"}
    /\ completionStatus # 0 => linked = {} /\ spc \in Ended
    /\ completionStatus = 1 => ~completionError
    /\ spc \in Ended \ {"waitstatus"} => completionStatus # 0

\* The list keeps every entry that has not completed, and the traversal stands
\* on one that is linked.
ListInv ==
    /\ linked \subseteq 1 .. appended /\ completed \subseteq 1 .. appended
    /\ (1 .. appended) \ linked \subseteq completed
    /\ cpc \in {"examine", "unlink"} =>
          entry \in linked /\ (temp = Head \/ (temp \in linked /\ temp > entry))
    /\ cpc = "unlink" => entry \in completed
    /\ pollEntry = Cardinality(completed)

\* A descriptor belongs to one pending entry, or to dsa_copy that is about to
\* append it; the device has only ones whose record is empty.
OwnInv ==
    /\ DescriptorOwned
    /\ \A d \in inflight : status[d] = "none" /\ \E e \in Pending : entryDesc[e] = d
    /\ spc \in {"append", "submit"} /\ newDesc # NoDesc =>
          newDesc \in busy \ inflight /\ status[newDesc] = "none"
    /\ spc = "append" /\ newDesc # NoDesc =>
          chunk[newDesc] = Chunk(wq, curEnt) /\ \A e \in Pending : entryDesc[e] # newDesc
    /\ spc = "submit" /\ newDesc # NoDesc => \E e \in Pending : entryDesc[e] = newDesc

\* What a turn was to copy has been copied, is at a pending entry, or is lost to
\* an error the thread remembers.
CoverInv ==
    /\ \A e \in Pending : entryDesc[e] # NoDesc /\ status[entryDesc[e]] = "success"
                             => chunk[entryDesc[e]] \subseteq copied
    /\ \A w \in Wqs : \A n \in 0 .. DescsEntries(w) - 1 :
          Taken(w, n) => \/ completionError \/ Chunk(w, n) \subseteq copied
                         \/ \E e \in Pending : entryDesc[e] = NoDesc
                                                  \/ chunk[entryDesc[e]] = Chunk(w, n)

\* Why no pointer is followed that is NULL, or freed twice.
PointerInv ==
    /\ ~MayFail => /\ \A e \in 1 .. appended : entryDesc[e] # NoDesc
                   /\ spc \in {"append", "submit"} => newDesc # NoDesc
    /\ ~Batched => batchTask = "null"
    /\ ~MayFail /\ SinglesFirst =>
          /\ spc \in InTurn => batchTask # "freed"
          /\ /\ spc \in InTurn \cup {"start", "alloc"} /\ curEnt = 0
             /\ \A v \in Wqs : v < wq \/ (v = wq /\ spc \in InTurn) => SgCount[v] = 1
             => batchTask = "null"

CopyInv ==
    /\ sys \in Systems /\ TypeOK /\ TurnInv /\ FlagInv /\ ListInv
    /\ OwnInv /\ CoverInv /\ PointerInv /\ NoOops
=============================================================================
