----------------------------- MODULE SingleCopy -----------------------------
(***************************************************************************)
(* The copy programs that drive one work queue: my_init of                 *)
(* kernel_test_sgtable.c ("loop": rounds of num_descs descriptors, one per *)
(* page) and of kernel_test_sgtable_batch.c ("batch": one descriptor per   *)
(* max_batch_size pages), with contiguous or with shuffled pages.  One     *)
(* thread allocates, submits and polls; the device runs beside it.         *)
(***************************************************************************)
EXTENDS Integers, Sequences, FiniteSets, FiniteSetsExt, SequencesExt, Bags

CONSTANTS
    Jobs,           \* the programs: records of prog, npages and shuffled
    NumDescs,       \* wq->num_descs
    MaxBatch,       \* idxd->max_batch_size
    SetupFails,     \* may the steps before dsa_copy fail?
    CopyFails       \* may allocations, submissions, the device and polls fail?

ASSUME SingleParameters ==
    /\ Jobs \subseteq [prog : {"loop", "batch"}, npages : Nat \ {0},
                       shuffled : BOOLEAN]
    /\ NumDescs \in Nat \ {0} /\ MaxBatch \in Nat \ {0}
    /\ {SetupFails, CopyFails} \subseteq BOOLEAN

Descs == 1 .. NumDescs
None == 0
CeilDiv(a, b) == (a + b - 1) \div b

\* Variant: the entry at hand is copied over its partner, not exchanged.
RandomArrLossy(n, pick) ==
    LET arr[i \in 0 .. n] ==
            IF i = 0 THEN [k \in 1 .. n |-> k]
            ELSE [arr[i - 1] EXCEPT ![i] = arr[i - 1][pick[i]]]
    IN  arr[n]

\* random_arr: every position is exchanged with a random one.
RandomArr(n, pick) ==
    LET arr[i \in 0 .. n] ==
            IF i = 0 THEN [k \in 1 .. n |-> k]
            ELSE [arr[i - 1] EXCEPT ![i] = arr[i - 1][pick[i]],
                                    ![pick[i]] = arr[i - 1][i]]
    IN  arr[n]

VARIABLES
    job, order,      \* the program, and the page of each scatter-list entry
    pc,
    areas,           \* the six vmalloc areas: none, live, freed or leaked
    tables, mapped,  \* sgt1 .. sgt4 that hold entries; that are mapped
    chan,            \* is the DMA channel held?
    round, i,        \* loop; entries allocated in this round
    list, pos,       \* idxd_desc_lists; the entry a traversal is at
    pollEntry,       \* poll_entry
    free, status, chunk, \* descriptors: free, completion record, contents
    queue,           \* submissions at the device, a bag of descriptor and pages
    copied,          \* pages written
    faults           \* what has gone wrong so far

setupVars == <<areas, tables, chan>>
loopVars == <<round, i, list, pos, pollEntry>>
descVars == <<free, status, chunk>>
deviceVars == <<queue, copied>>
vars == <<job, order, pc, setupVars, mapped, loopVars, descVars, deviceVars, faults>>

Pages == 1 .. job.npages

Init ==
    /\ job \in Jobs
    /\ order \in IF job.shuffled
                 THEN {RandomArr(job.npages, pick) : pick \in [1 .. job.npages -> 1 .. job.npages]}
                 ELSE {[k \in 1 .. job.npages |-> k]}
    /\ pc = "region" /\ areas = "none" /\ tables = {} /\ mapped = {} /\ chan = FALSE
    /\ round = 0 /\ i = 0 /\ list = <<>> /\ pos = 1 /\ pollEntry = 0
    /\ free = Descs /\ status = [d \in Descs |-> "none"] /\ chunk = [d \in Descs |-> {}]
    /\ queue = EmptyBag /\ copied = {} /\ faults = {}

-----------------------------------------------------------------------------
(* my_init up to dsa_copy: what a step leaves behind when it fails.        *)

InitRegion ==
    /\ pc = "region"
    /\ \/ areas' = "live" /\ pc' = "dsa"
       \/ SetupFails /\ areas' = "freed" /\ pc' = "notloaded"
    /\ UNCHANGED <<job, order, tables, mapped, chan, loopVars, descVars, deviceVars, faults>>

\* A queue that is not of the dmaengine type yields success without a channel;
\* the other failures leave the module unloaded with its areas allocated.
InitDsa ==
    /\ pc = "dsa"
    /\ \/ chan' = TRUE /\ pc' = "test" /\ UNCHANGED <<areas, faults>>
       \/ SetupFails /\ pc' = "test" /\ faults' = faults \cup {"chan"} /\ UNCHANGED <<areas, chan>>
       \/ SetupFails /\ pc' = "notloaded" /\ areas' = "leaked" /\ UNCHANGED <<chan, faults>>
    /\ UNCHANGED <<job, order, tables, mapped, loopVars, descVars, deviceVars>>

\* test maps and unmaps sgt3 and sgt4, whose tables stay until exit_module; a
\* failure frees both, and leaves sgt3 mapped if it was sgt4 that failed to map.
Test ==
    /\ pc = "test" /\ pc' = "tables"
    /\ \/ tables' = tables \cup {3, 4} /\ UNCHANGED <<mapped, faults>>
       \/ /\ SetupFails /\ faults' = faults \cup {"test"}
          /\ mapped' \in {mapped, mapped \cup {3}}
          /\ UNCHANGED tables
    /\ UNCHANGED <<job, order, areas, chan, loopVars, descVars, deviceVars>>

VmallocToSgtable ==
    /\ pc = "tables" /\ pc' = "map"
    /\ \/ tables' = tables \cup {1, 2} /\ UNCHANGED faults
       \/ SetupFails /\ faults' = faults \cup {"tables"} /\ UNCHANGED tables
    /\ UNCHANGED <<job, order, mapped, areas, chan, loopVars, descVars, deviceVars>>

SgtableToDmaMap ==
    /\ pc = "map"
    /\ \/ mapped' = mapped \cup {1, 2} /\ UNCHANGED faults
       \/ /\ SetupFails /\ faults' = faults \cup {"map"}
          /\ mapped' \in {mapped, mapped \cup {1}}
    /\ pc' = IF {1, 2} \subseteq tables /\ chan THEN "alloc" ELSE "oops"
    /\ UNCHANGED <<job, order, setupVars, loopVars, descVars, deviceVars>>

-----------------------------------------------------------------------------
(* dsa_copy.                                                               *)

Loops == job.prog = "loop"

\* How often next_loop is reached.
LoopTimes ==
    IF Loops /\ job.npages > 1 THEN CeilDiv(job.npages, NumDescs) ELSE 1

\* Entries of this round: pages for the loop program, batches for the other.
Nents ==
    IF Loops THEN Min({job.npages - round * NumDescs, NumDescs})
             ELSE CeilDiv(job.npages, MaxBatch)

\* The pages of the next descriptor.
NextChunk ==
    LET first == IF Loops THEN round * NumDescs + i ELSE i * MaxBatch
        size == IF Loops THEN 1 ELSE Min({job.npages - i * MaxBatch, MaxBatch})
    IN  {order[k] : k \in first + 1 .. first + size}

Appended(d) == Append(list, [desc |-> d, done |-> FALSE])

\* idxd_desc_dma_submit_memcpy(_sg), which blocks until a descriptor is free.
AllocDesc ==
    /\ pc = "alloc" /\ i < Nents
    /\ \E d \in free :
          /\ free' = free \ {d}
          /\ status' = [status EXCEPT ![d] = "none"]
          /\ chunk' = [chunk EXCEPT ![d] = NextChunk]
          /\ list' = Appended(d)
    /\ i' = i + 1
    /\ UNCHANGED <<job, order, pc, setupVars, mapped, round, pos, pollEntry, deviceVars, faults>>

\* It returns NULL, which the batch program follows at once, the other when it submits.
AllocFails ==
    /\ CopyFails /\ pc = "alloc" /\ i < Nents
    /\ list' = Appended(None) /\ i' = i + 1
    /\ pc' = IF Loops \/ job.npages = 1 THEN pc ELSE "oops"
    /\ faults' = faults \cup {"alloc"}
    /\ UNCHANGED <<job, order, setupVars, mapped, round, pos, pollEntry, descVars, deviceVars>>

AllocDone ==
    /\ pc = "alloc" /\ i = Nents
    /\ pc' = "submit" /\ pos' = 1
    /\ UNCHANGED <<job, order, setupVars, mapped, round, i, list, pollEntry, descVars,
                   deviceVars, faults>>

\* Every entry of the list is submitted, the ones of earlier rounds too.
SubmitEntry ==
    /\ pc = "submit" /\ pos <= Len(list)
    /\ LET d == list[pos].desc IN
          IF d = None THEN pc' = "oops" /\ UNCHANGED <<queue, pos>>
          ELSE /\ queue' = queue (+) SetToBag({<<d, chunk[d]>>})
               /\ pos' = pos + 1
               /\ UNCHANGED pc
    /\ UNCHANGED <<job, order, setupVars, mapped, round, i, list, pollEntry, descVars,
                   copied, faults>>

\* dsa_copy returns at once: nothing is unmapped, the entries stay.
SubmitFails ==
    /\ CopyFails /\ pc = "submit" /\ pos <= Len(list) /\ list[pos].desc # None
    /\ pc' = "loaded"
    /\ faults' = faults \cup {"submit"}
    /\ UNCHANGED <<job, order, setupVars, mapped, loopVars, descVars, deviceVars>>

SubmitDone ==
    /\ pc = "submit" /\ pos > Len(list)
    /\ pc' = "poll" /\ pos' = 1 /\ pollEntry' = 0
    /\ UNCHANGED <<job, order, setupVars, mapped, round, i, list, descVars, deviceVars, faults>>

\* Variant: an entry with an error gives its descriptor back but stays listed.
PollEntryFreesListed ==
    /\ pc = "poll" /\ pos <= Len(list)
    /\ LET d == list[pos].desc IN
          IF list[pos].done \/ status[d] = "none"
          THEN pos' = pos + 1 /\ UNCHANGED <<list, free, pollEntry, faults>>
          ELSE /\ pollEntry' = pollEntry + 1 /\ free' = free \cup {d}
               /\ IF status[d] = "success"
                  THEN list' = RemoveAt(list, pos) /\ UNCHANGED <<pos, faults>>
                  ELSE /\ list' = [list EXCEPT ![pos].done = TRUE] /\ pos' = pos + 1
                       /\ faults' = faults \cup {"error"}
    /\ UNCHANGED <<job, order, pc, setupVars, mapped, round, i, status, chunk, deviceVars>>

\* One entry of the list: a successful one is freed and unlinked, one with an
\* error only marked.
PollEntry ==
    /\ pc = "poll" /\ pos <= Len(list)
    /\ LET d == list[pos].desc IN
          IF list[pos].done \/ status[d] = "none"
          THEN pos' = pos + 1 /\ UNCHANGED <<list, free, pollEntry, faults>>
          ELSE /\ pollEntry' = pollEntry + 1
               /\ IF status[d] = "success"
                  THEN /\ list' = RemoveAt(list, pos) /\ free' = free \cup {d}
                       /\ UNCHANGED <<pos, faults>>
                  ELSE /\ list' = [list EXCEPT ![pos].done = TRUE] /\ pos' = pos + 1
                       /\ faults' = faults \cup {"error"} /\ UNCHANGED free
    /\ UNCHANGED <<job, order, pc, setupVars, mapped, round, i, status, chunk, deviceVars>>

\* Variant: poll_entry is reset at every pass.
PollAgainResets ==
    /\ pc = "poll" /\ pos > Len(list) /\ pollEntry < Nents
    /\ pos' = 1 /\ pollEntry' = 0
    /\ UNCHANGED <<job, order, pc, setupVars, mapped, round, i, list, descVars,
                   deviceVars, faults>>

\* Another pass over the list.
PollAgain ==
    /\ pc = "poll" /\ pos > Len(list) /\ pollEntry < Nents
    /\ pos' = 1
    /\ UNCHANGED <<job, order, pc, setupVars, mapped, round, i, list, pollEntry, descVars,
                   deviceVars, faults>>

EndRound ==
    /\ round' = round + 1 /\ i' = 0
    /\ pc' = IF round + 1 < LoopTimes THEN "alloc" ELSE "unmap"

\* Variant: the loop stops one entry early.
PollDoneEarly ==
    /\ pc = "poll" /\ pos > Len(list) /\ pollEntry >= Nents - 1
    /\ EndRound
    /\ UNCHANGED <<job, order, setupVars, mapped, list, pos, pollEntry, descVars, deviceVars, faults>>

PollDone ==
    /\ pc = "poll" /\ pos > Len(list) /\ pollEntry >= Nents
    /\ EndRound
    /\ UNCHANGED <<job, order, setupVars, mapped, list, pos, pollEntry, descVars, deviceVars, faults>>

\* POLL_RETRY_MAX passes: the program goes on as if the round had ended.
PollLimit ==
    /\ CopyFails /\ pc = "poll" /\ pos > Len(list) /\ pollEntry < Nents
    /\ EndRound
    /\ faults' = faults \cup {"timeout"}
    /\ UNCHANGED <<job, order, setupVars, mapped, list, pos, pollEntry, descVars, deviceVars>>

\* dma_unmap_sgtable and sg_free_table of sgt1 and sgt2.
Unmap ==
    /\ pc = "unmap" /\ pc' = "compare"
    /\ mapped' = mapped \ {1, 2} /\ tables' = tables \ {1, 2}
    /\ UNCHANGED <<job, order, areas, chan, loopVars, descVars, deviceVars, faults>>

\* memcmp of the two areas prints DSA Success or DSA FAIL.
Compare ==
    /\ pc = "compare"
    /\ pc' = "loaded"
    /\ faults' = IF copied = Pages THEN faults ELSE faults \cup {"differs"}
    /\ UNCHANGED <<job, order, setupVars, mapped, loopVars, descVars, deviceVars>>

\* my_exit: dma_release_channel follows chan.
ExitModule ==
    /\ pc = "loaded"
    /\ list' = <<>> /\ pos' = 1 /\ areas' = "freed" /\ tables' = tables \ {3, 4} /\ chan' = FALSE
    /\ pc' = "unloaded"
    /\ UNCHANGED <<job, order, mapped, round, i, pollEntry, descVars, deviceVars, faults>>

-----------------------------------------------------------------------------
(* The device executes the copy of the descriptor the portal was given; the *)
(* completion record is the descriptor's.                                  *)

DeviceCopies(d) ==
    /\ \E c \in SUBSET Pages :
          /\ BagIn(<<d, c>>, queue)
          /\ queue' = queue (-) SetToBag({<<d, c>>})
          /\ \/ /\ "map" \notin faults
                /\ copied' = copied \cup c /\ status' = [status EXCEPT ![d] = "success"]
             \/ /\ CopyFails \/ "map" \in faults
                /\ status' = [status EXCEPT ![d] = "error"] /\ UNCHANGED copied
    /\ UNCHANGED <<job, order, pc, setupVars, mapped, loopVars, free, chunk, faults>>

CopyThread ==
    \/ InitRegion \/ InitDsa \/ Test \/ VmallocToSgtable \/ SgtableToDmaMap
    \/ AllocDesc \/ AllocDone \/ SubmitEntry \/ SubmitDone
    \/ PollEntry \/ PollAgain \/ PollDone \/ Unmap \/ Compare

Failures == AllocFails \/ SubmitFails \/ PollLimit

Device == \E d \in Descs : DeviceCopies(d)

Next == CopyThread \/ Failures \/ ExitModule \/ Device

\* The module's init runs to its end, the device executes what it is given.
Fairness == WF_vars(CopyThread) /\ \A d \in Descs : WF_vars(DeviceCopies(d))

Spec == Init /\ [][Next]_vars /\ Fairness

-----------------------------------------------------------------------------
AtDevice == BagToSet(queue)
Listed == {list[k].desc : k \in DOMAIN list}
Reported == pc \in {"loaded", "unloaded"}
Entry == [desc : Descs \cup {None}, done : BOOLEAN]

\* Every variable has its type.
TypeOK ==
    /\ job \in Jobs /\ order \in [Pages -> Pages]
    /\ areas \in {"none", "live", "freed", "leaked"}
    /\ tables \subseteq 1 .. 4 /\ mapped \subseteq 1 .. 4 /\ chan \in BOOLEAN
    /\ round \in 0 .. LoopTimes /\ i \in 0 .. job.npages
    /\ list \in Seq(Entry) /\ pos \in 1 .. Len(list) + 1
    /\ free \subseteq Descs /\ status \in [Descs -> {"none", "success", "error"}]
    /\ chunk \in [Descs -> SUBSET Pages] /\ IsABag(queue) /\ AtDevice \subseteq Descs \X SUBSET Pages
    /\ copied \subseteq Pages

\* The descriptors of the queue are shared by the rounds: one is either free or
\* on the list, and the list never holds one twice, across errors, poll limits
\* and re-submissions; only unloading after a failed run loses them.
DescriptorsKept ==
    /\ free \cap Listed = {}
    /\ \A j, k \in DOMAIN list : j # k /\ list[j].desc # None => list[j].desc # list[k].desc
    /\ pc # "unloaded" => free \cup (Listed \ {None}) = Descs

\* The pages are unmapped, and later freed, while the device still has a
\* descriptor of the copy only if a submission failed, a poll limit was hit, or
\* an earlier round of the loop program ended with an error, whose entry the
\* next round submits again and does not wait for.
QuietAtUnmap ==
    (pc \in {"compare", "loaded", "unloaded"} /\ AtDevice # {}) =>
        \/ faults \cap {"submit", "timeout"} # {}
        \/ "error" \in faults /\ LoopTimes > 1

\* Only a run that lost an entry (error, poll limit) ever hands the device a
\* descriptor it still holds.
SubmittedOnce ==
    (\E q, r \in AtDevice : q[1] = r[1] /\ (q # r \/ queue[q] > 1))
        => faults \cap {"timeout", "error"} # {}

\* A scatter table is freed with its DMA mapping in place only when test could
\* not map sgt4, and the areas are freed under a mapping only then or when
\* dsa_copy returned from a failed submission.
MappedWhileLive ==
    /\ mapped \ tables # {} => "test" \in faults \/ "tables" \in faults
    /\ (areas = "freed" /\ mapped # {}) => faults \cap {"test", "submit"} # {}

\* What dsa_copy makes of a run, as its callers and the log see it.
Outcome ==
    IF faults \ {"differs"} # {} THEN "gaveup"
    ELSE IF Reported THEN "done" ELSE "running"

Service == INSTANCE CopyService WITH pieces <- Pages, outcome <- Outcome

\* The program implements the copy service: without a fault it has copied every
\* page of the (shuffled) area when it reports, all its rounds or batches are
\* over, and nothing is written afterwards.
ImplementsCopyService == Service!Spec

\* Without a fault the copy ends, unless the batch program needs more batches
\* than the queue has descriptors: it allocates all of them before it submits
\* one.
CopyEnds ==
    <>(Reported \/ pc = "notloaded" \/ faults # {}
        \/ (~Loops /\ Nents > NumDescs))

\* The descriptors of the queue: types, each free or listed once, and none
\* handed to the device twice without a fault (the rounds of dsa_copy).
DescriptorsSound == TypeOK /\ DescriptorsKept /\ SubmittedOnce

\* The buffers: unmapped and freed under the device, or freed while mapped, only
\* after the failures named in the two parts (dsa_copy, test, my_exit).
BuffersSound == QuietAtUnmap /\ MappedWhileLive
-----------------------------------------------------------------------------
(* The inductive strengthening of the properties above.                    *)

Setup == {"region", "dsa", "test", "tables", "map"}
Copying == {"alloc", "submit", "poll"}

\* Descriptors of the listed entries that the round still waits for.
Open == {list[k].desc : k \in {j \in DOMAIN list : ~list[j].done}}

\* A round ends only when all it submitted has completed: no poll limit was hit,
\* and no later round follows one that left an error on the list.
Waits == "timeout" \notin faults /\ (LoopTimes = 1 \/ "error" \notin faults)
Clean == faults \subseteq {"differs"}

\* Where the rounds are.
RoundInv ==
    /\ pc \in {"notloaded", "unmap", "compare", "loaded", "unloaded", "oops"} \cup Setup \cup Copying
    /\ pc \in Setup => round = 0 /\ i = 0 /\ list = <<>> /\ faults \subseteq {"chan", "test", "tables"}
    /\ pc \in Copying => round < LoopTimes /\ i \in 0 .. Nents
    /\ pc \in {"submit", "poll"} => i = Nents
    /\ pc \in {"unmap", "compare"} => round = LoopTimes
    /\ pollEntry \in Nat

\* What the list holds.
EntryInv ==
    /\ DescriptorsKept
    /\ pc = "submit" => \A k \in 1 .. pos - 1 : list[k].desc # None
    /\ "alloc" \notin faults => None \notin Listed
    /\ pc \in Copying /\ "alloc" \in faults => None \in Listed /\ pc # "poll"
    /\ "error" \notin faults => \A k \in DOMAIN list : ~list[k].done

\* What the device has is what the round has submitted and not seen complete.
DeviceInv ==
    /\ \A q, r \in AtDevice : q[1] = r[1] => q = r /\ queue[q] = 1
    /\ pc \in Setup \cup {"notloaded", "alloc", "unmap", "compare"} => AtDevice = {}
    /\ pc \in {"loaded", "unloaded"} /\ "submit" \notin faults => AtDevice = {}
    /\ pc \in {"submit", "poll"} => \A q \in AtDevice : q[1] \in Open /\ status[q[1]] = "none"
    /\ pc \in {"alloc", "submit"} => \A k \in DOMAIN list :
          /\ ~list[k].done
          /\ pc = "alloc" \/ k >= pos => /\ list[k].desc # None => status[list[k].desc] = "none"
                                        /\ \A q \in AtDevice : q[1] # list[k].desc
    /\ pc \in {"alloc", "submit"} /\ "alloc" \notin faults => Cardinality(Open) = i
    /\ pc = "poll" => pollEntry + Cardinality(Open) = Nents

\* Scatter-list entries that have been given to a descriptor.
Given(k) == round = LoopTimes \/ k <= (IF Loops THEN round * NumDescs + i ELSE i * MaxBatch)

\* A page that was given to a descriptor is copied, or the entry is listed.
PagesInv ==
    /\ \A q \in AtDevice : q[2] = chunk[q[1]]
    /\ \A d \in Listed : status[d] = "success" => chunk[d] \subseteq copied
    /\ \A k \in Pages : pc \in Copying \cup {"unmap", "compare"} /\ Given(k) =>
          order[k] \in copied \/ \E d \in Listed : order[k] \in chunk[d]
    /\ pc \in {"unmap", "compare"} => Listed = {}
    /\ \A p \in Pages : \E k \in Pages : order[k] = p

\* The areas, tables and mappings, and who is to blame for what is left.
MappingInv ==
    /\ mapped \subseteq {1, 2, 3} /\ (3 \in mapped => "test" \in faults)
    /\ pc \in Setup \cup {"notloaded", "compare"} => mapped \cap {1, 2} = {}
    /\ pc \in {"region", "dsa", "test", "notloaded"} => mapped = {}
    /\ pc \in {"loaded", "unloaded"} => mapped \cap {1, 2} = {} \/ "submit" \in faults
    /\ mapped \cap {1, 2} # {} \/ pc = "map" => "tables" \in faults \/ {1, 2} \subseteq tables
    /\ areas = "freed" => pc \in {"notloaded", "unloaded"}

SingleInv ==
    /\ TypeOK /\ RoundInv /\ EntryInv /\ (Waits => DeviceInv) /\ (Clean => PagesInv)
    /\ MappingInv
=============================================================================
