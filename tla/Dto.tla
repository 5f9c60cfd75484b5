--------------------------------- MODULE Dto ---------------------------------
(***************************************************************************)
(* The transparent offload library (dto.c): memset, memcpy, memmove and    *)
(* memcmp of a program, given to a shared work queue in whole or in part.  *)
(*                                                                         *)
(* The threads of a program share the library's initialisation and its     *)
(* tuning knobs; each has its own descriptor, completion record and count  *)
(* of bytes done, and its own buffers.  The device runs a descriptor at    *)
(* any time after it was accepted, and stops at a page fault.  A destructor*)
(* unmaps the portals while threads may still run.                         *)
(***************************************************************************)
EXTENDS Integers, Sequences, FiniteSets, FiniteSetsExt

CONSTANTS
    Threads,
    Jobs,           \* the calls each thread may make
    MaxCalls,       \* bound on the calls of a thread
    NumWqs,         \* the queues init finds
    MaxTransfer,    \* wq->max_transfer_size
    FracDen,        \* cpu_size_fraction counts in 1/FracDen
    Fractions,      \* the values of DTO_CPU_SIZE_FRACTION
    MaxFraction,    \* MAX_CPU_SIZE_FRACTION
    LowSize, HighSize, \* MIN_DSA_MIN_SIZE and MAX_DSA_MIN_SIZE
    Word            \* 2^32 in units

ASSUME DtoParameters ==
    /\ MaxTransfer \in Nat \ {0} /\ FracDen \in Nat \ {0, 1} /\ Word \in Nat \ {0}
    /\ Fractions \subseteq 0 .. FracDen - 1 /\ MaxFraction \in 0 .. FracDen - 1
    /\ LowSize \in Nat /\ HighSize \in Nat /\ LowSize <= HighSize
    /\ MaxCalls \in Nat /\ NumWqs \in Nat

\* What the callers of the standard functions promise: the buffers exist, and
\* those of memcpy do not overlap.
ASSUME JobsAssumption ==
    \A t \in Threads : \A j \in Jobs[t] :
        /\ j = [op |-> j.op, n |-> j.n, dst |-> j.dst, src |-> j.src, mem |-> j.mem]
        /\ j.op \in {"set", "copy", "move", "cmp"} /\ {j.n, j.dst, j.src} \subseteq Nat
        /\ j.mem \in [DOMAIN j.mem -> Int] /\ DOMAIN j.mem \subseteq Int
        /\ j.dst .. j.dst + j.n - 1 \subseteq DOMAIN j.mem
        /\ j.op # "set" => j.src .. j.src + j.n - 1 \subseteq DOMAIN j.mem
        /\ j.op = "copy" => j.dst + j.n <= j.src \/ j.src + j.n <= j.dst

VARIABLES
    initializing, initialized, useStd, numWqs, mapped,
    csf,            \* cpu_size_fraction
    minSize,        \* dsa_min_size
    torn,           \* has a knob moved between its test and its update?
    exited,         \* did the destructor run?
    crashed,        \* "no", or why the program died
    th,             \* the threads
    dev,            \* what the device has of each thread
    mem             \* the buffers of each thread

initVars == <<initializing, initialized, useStd, numWqs, mapped>>
knobs == <<csf, minSize, torn>>
vars == <<initVars, knobs, exited, crashed, th, dev, mem>>

-----------------------------------------------------------------------------
(* What the standard functions do to memory, and the device.               *)

Fill == 9

Moved(op, m, dst, src, n) ==
    [i \in DOMAIN m |-> IF i \notin dst .. dst + n - 1 THEN m[i]
                        ELSE IF op = "set" THEN Fill
                        ELSE IF op = "cmp" THEN m[i]
                        ELSE m[src + i - dst]]

Differ(m, s1, s2, n) == {i \in 0 .. n - 1 : m[s1 + i] # m[s2 + i]}

\* The value of memcmp.
Compared(m, s1, s2, n) ==
    IF Differ(m, s1, s2, n) = {} THEN 0
    ELSE LET i == Min(Differ(m, s1, s2, n)) IN m[s1 + i] - m[s2 + i]

Zero == [status |-> "zero", result |-> 0, bytes |-> 0]
NoDesc == [op |-> "none", dst |-> 0, src |-> 0, size |-> 0]

\* The outcomes of a descriptor: a record, and memory.  A move to a higher,
\* overlapping address runs from the end, and says so in the record.
Outcomes(d, m) ==
    IF d.size \notin 1 .. MaxTransfer
    THEN {[comp |-> [status |-> "error", result |-> 0, bytes |-> 0], mem |-> m]}
    ELSE LET back == d.op # "set" /\ d.op # "cmp" /\ d.dst > d.src /\ d.dst < d.src + d.size
             same == IF d.op = "cmp" THEN Min({d.size} \cup Differ(m, d.dst, d.src, d.size))
                     ELSE d.size
         IN  {[comp |-> [status |-> "success",
                         result |-> IF same < d.size THEN 1 ELSE 0, bytes |-> same],
               mem |-> Moved(d.op, m, d.dst, d.src, d.size)]}
             \cup {[comp |-> [status |-> "fault", result |-> IF back THEN 1 ELSE 0, bytes |-> k],
                    mem |-> IF back
                            THEN Moved(d.op, m, d.dst + d.size - k, d.src + d.size - k, k)
                            ELSE Moved(d.op, m, d.dst, d.src, k)]
                     : k \in 0 .. Min({same, d.size - 1})}

-----------------------------------------------------------------------------
NoJob == [op |-> "none", n |-> 0, dst |-> 0, src |-> 0, mem |-> [i \in {0} |-> 0]]

IdleThread ==
    [pc |-> "idle", calls |-> 0, job |-> NoJob, orig |-> FALSE, early |-> FALSE,
     n |-> 0,        \* the bytes the loop has left
     len |-> 0, cpu |-> 0, snap |-> 0, split |-> FALSE,
     done |-> 0,     \* thr_bytes_completed
     desc |-> NoDesc, \* thr_desc
     comp |-> Zero,  \* thr_comp
     rc |-> "success",
    tune |-> [dir |-> "none", knob |-> "none", seen |-> 0],
     ret |-> 0]

Init ==
    /\ initializing = FALSE /\ initialized = FALSE /\ useStd = FALSE
    /\ numWqs = 0 /\ mapped = {}
    /\ csf \in Fractions /\ minSize = LowSize /\ torn = FALSE
    /\ exited = FALSE /\ crashed = "no"
    /\ th = [t \in Threads |-> IdleThread]
    /\ dev = [t \in Threads |-> NoDesc]
    /\ mem = [t \in Threads |-> NoJob.mem]

At(t, pc) == crashed = "no" /\ th[t].pc = pc
Goto(t, r) == th' = [th EXCEPT ![t] = r]

\* memset, memcpy, memmove, memcmp: use_orig_func is decided first.
Call(t, j) ==
    /\ At(t, "idle") /\ th[t].calls < MaxCalls
    /\ Goto(t, [th[t] EXCEPT !.pc = "enter", !.calls = @ + 1, !.job = j,
                !.orig = useStd \/ j.n < minSize, !.early = ~initialized])
    /\ mem' = [mem EXCEPT ![t] = j.mem]
    /\ UNCHANGED <<initVars, knobs, exited, crashed, dev>>

Ready == initialized

\* init_dto: one caller initialises the library; the others, while it does,
\* use the internal functions.
Enter(t) ==
    /\ At(t, "enter")
    /\ \/ Ready /\ Goto(t, [th[t] EXCEPT !.pc = "go"]) /\ UNCHANGED <<initializing, mem>>
       \/ /\ ~Ready /\ ~initializing
          /\ initializing' = TRUE
          /\ Goto(t, [th[t] EXCEPT !.pc = "init"])
          /\ UNCHANGED mem
       \/ /\ ~Ready /\ initializing
          /\ LET j == th[t].job IN
                /\ mem' = [mem EXCEPT ![t] = Moved(j.op, @, j.dst, j.src, j.n)]
                /\ Goto(t, [th[t] EXCEPT !.pc = "return",
                       !.ret = IF j.op = "cmp" THEN Compared(mem[t], j.dst, j.src, j.n) ELSE 0])
          /\ UNCHANGED initializing
    /\ UNCHANGED <<initialized, useStd, numWqs, mapped, knobs, exited, crashed, dev>>

Aside(t) ==
    /\ initialized' = TRUE /\ useStd' = TRUE /\ mapped' = {} /\ numWqs' = 0
    /\ Goto(t, [th[t] EXCEPT !.pc = "go"])

Found(t) == initialized' = TRUE /\ Goto(t, [th[t] EXCEPT !.pc = "go"])

\* DTO_USESTDC_CALLS is set, or the queues come from DTO_WQ_LIST or libaccfg.
InitDto(t) ==
    /\ At(t, "init")
    /\ \/ Aside(t)
       \/ /\ \E pc \in {"list", "accfg"} : Goto(t, [th[t] EXCEPT !.pc = pc])
          /\ UNCHANGED <<initialized, useStd, numWqs, mapped>>
    /\ UNCHANGED <<initializing, knobs, exited, crashed, dev, mem>>

\* The queues of the list are opened and mapped one by one; a bad one undoes
\* the others.
DsaInitFromWqList(t) ==
    /\ At(t, "list")
    /\ \/ /\ numWqs < NumWqs
          /\ mapped' = mapped \cup {numWqs} /\ numWqs' = numWqs + 1
          /\ UNCHANGED <<initialized, useStd, th>>
       \/ numWqs > 0 /\ Found(t) /\ UNCHANGED <<useStd, mapped, numWqs>>
       \/ Aside(t)
    /\ UNCHANGED <<initializing, knobs, exited, crashed, dev, mem>>

\* One shared user queue of every enabled device.
DsaInitFromAccfg(t) ==
    /\ At(t, "accfg")
    /\ \/ Aside(t)
       \/ /\ numWqs' \in 1 .. NumWqs
          /\ Goto(t, [th[t] EXCEPT !.pc = "map"])
          /\ UNCHANGED <<initialized, useStd, mapped>>
    /\ UNCHANGED <<initializing, knobs, exited, crashed, dev, mem>>

MapWqs(t) ==
    /\ At(t, "map")
    /\ \/ /\ Cardinality(mapped) < numWqs
          /\ mapped' = mapped \cup {Cardinality(mapped)}
          /\ UNCHANGED <<initialized, useStd, numWqs, th>>
       \/ /\ Cardinality(mapped) = numWqs
          /\ Found(t) /\ UNCHANGED <<useStd, numWqs, mapped>>
       \/ Cardinality(mapped) < numWqs /\ Aside(t)
    /\ UNCHANGED <<initializing, knobs, exited, crashed, dev, mem>>

\* cleanup_dto, the library's destructor: num_wqs stays.
CleanupDto ==
    /\ crashed = "no" /\ initialized /\ ~exited
    /\ exited' = TRUE /\ mapped' = {}
    /\ UNCHANGED <<initializing, initialized, useStd, numWqs, knobs, crashed, th, dev, mem>>

-----------------------------------------------------------------------------
(* dto_memset, dto_memcpymove and dto_memcmp.                              *)

\* is_overlapping_buffers
Overlapping(j, n) == ~(j.dst + n < j.src \/ j.src + n < j.dst)

\* Is a call over n bytes shared with the CPU?
Shared(j, n) == ~(j.op = "cmp" \/ (j.op = "move" /\ Overlapping(j, n)))

\* The part of n bytes the CPU takes.
CpuSize(j, n, frac) == IF Shared(j, n) THEN (n * frac) \div FracDen ELSE 0

\* thr_desc for the next len bytes, of which the CPU takes cpu.
Chunk(r, len, cpu) ==
    [r EXCEPT !.pc = "submit", !.len = len, !.cpu = cpu,
              !.desc = [op |-> r.job.op, dst |-> r.job.dst + cpu + r.done,
                        src |-> r.job.src + cpu + r.done, size |-> len - cpu]]

\* max_transfer_size / (1 - fraction_snapshot), in a uint32_t.
Threshold(r) ==
    IF r.job.op = "cmp" THEN MaxTransfer
    ELSE ((MaxTransfer * FracDen) \div (FracDen - r.snap)) % Word

\* Does the thread's next step compute with cpu_size_fraction?
Reads(t) ==
    LET r == th[t] IN
    \/ At(t, "go") /\ ~r.orig /\ numWqs > 0 /\ Shared(r.job, r.job.n)
    \/ At(t, "snap") /\ r.job.op # "cmp"
    \/ At(t, "chunk") /\ r.job.op # "set" /\ Shared(r.job, Min({r.n, Threshold(r)}))

Sane(t) == Reads(t) => csf \in 0 .. FracDen - 1

\* A negative size_t, or a division by 1 - 1: undefined, taken as the end.
BadFraction(t) ==
    /\ ~Sane(t) /\ crashed' = "fraction"
    /\ UNCHANGED <<initVars, knobs, exited, th, dev, mem>>

\* The queue is chosen, by a division by num_wqs.  One descriptor, or a loop.
Begin(t) ==
    /\ At(t, "go") /\ Sane(t)
    /\ LET r == [th[t] EXCEPT !.done = 0, !.n = th[t].job.n, !.rc = "success",
                     !.comp.result = IF th[t].job.op = "cmp" THEN 0 ELSE @]
           cpu == CpuSize(r.job, r.n, csf) IN
       \/ r.orig /\ Goto(t, [r EXCEPT !.pc = "std"]) /\ UNCHANGED crashed
       \/ /\ ~r.orig /\ numWqs = 0
          /\ crashed' = "division" /\ UNCHANGED th
       \/ /\ ~r.orig /\ numWqs > 0 /\ r.n - cpu <= MaxTransfer
          /\ Goto(t, Chunk([r EXCEPT !.split = FALSE], r.n, cpu))
          /\ UNCHANGED crashed
       \/ /\ ~r.orig /\ numWqs > 0 /\ r.n - cpu > MaxTransfer
          /\ Goto(t, [r EXCEPT !.pc = "snap", !.split = TRUE])
          /\ UNCHANGED crashed
    /\ UNCHANGED <<initVars, knobs, exited, dev, mem>>

\* fraction_snapshot: the knob is read again.
Snapshot(t) ==
    /\ At(t, "snap") /\ Sane(t)
    /\ Goto(t, [th[t] EXCEPT !.pc = "chunk", !.snap = IF th[t].job.op = "cmp" THEN 0 ELSE csf])
    /\ UNCHANGED <<initVars, knobs, exited, crashed, dev, mem>>

\* One round of the loop.  dto_memcpymove reads cpu_size_fraction afresh.
NextChunk(t) ==
    /\ At(t, "chunk") /\ Sane(t)
    /\ LET r == th[t]
           len == Min({r.n, Threshold(r)})
           frac == IF r.job.op = "set" THEN r.snap ELSE csf
       IN  Goto(t, Chunk(r, len, CpuSize(r.job, len, frac)))
    /\ UNCHANGED <<initVars, knobs, exited, crashed, dev, mem>>

\* Variant: the record keeps its status.
ClearedNot(comp) == comp

Cleared(comp) == [comp EXCEPT !.status = "zero"]

\* dsa_submit: ENQCMD is accepted, or refused ENQCMD_MAX_RETRIES times.
Submit(t) ==
    /\ At(t, "submit")
    /\ LET r == [th[t] EXCEPT !.comp = Cleared(@)] IN
       \/ /\ mapped = {} /\ crashed' = "portal" /\ UNCHANGED <<th, dev>>
       \/ /\ mapped # {} /\ Goto(t, [r EXCEPT !.pc = "cpu"])
          /\ dev' = [dev EXCEPT ![t] = r.desc]
          /\ UNCHANGED crashed
       \/ /\ mapped # {} /\ Goto(t, [r EXCEPT !.pc = "after", !.rc = "retries"])
          /\ UNCHANGED <<dev, crashed>>
    /\ UNCHANGED <<initVars, knobs, exited, mem>>

\* The CPU does its part while the device works.
CpuPart(t) ==
    /\ At(t, "cpu")
    /\ LET r == th[t] IN
          /\ mem' = [mem EXCEPT ![t] =
                        Moved(r.job.op, @, r.job.dst + r.done, r.job.src + r.done, r.cpu)]
          /\ Goto(t, [r EXCEPT !.pc = "wait", !.done = @ + r.cpu])
    /\ UNCHANGED <<initVars, knobs, exited, crashed, dev>>

\* The device runs the descriptor and writes the record.
DeviceRuns(t) ==
    /\ crashed = "no" /\ dev[t] # NoDesc
    /\ \E o \in Outcomes(dev[t], mem[t]) :
          /\ mem' = [mem EXCEPT ![t] = o.mem]
          /\ th' = [th EXCEPT ![t].comp = o.comp]
    /\ dev' = [dev EXCEPT ![t] = NoDesc]
    /\ UNCHANGED <<initVars, knobs, exited, crashed>>

\* Variant: a page fault counts as the whole transfer.
BytesOfWhole(r) == IF r.comp.status = "error" THEN 0 ELSE r.desc.size

\* What a record adds to thr_bytes_completed.
Bytes(r) ==
    CASE r.comp.status = "success" -> r.desc.size
      [] r.comp.status = "fault" -> r.comp.bytes
      [] OTHER -> 0

\* Variant: the status is polled for success.
WrittenWell(comp) == comp.status = "success"

Written(comp) == comp.status # "zero"

\* dsa_wait and dsa_execute; the waits may be a sample for the heuristics.
Wait(t) ==
    /\ At(t, "wait") /\ Written(th[t].comp)
    /\ LET r == [th[t] EXCEPT !.done = @ + Bytes(th[t]), !.rc = th[t].comp.status] IN
       \/ Goto(t, [r EXCEPT !.pc = "after"])
       \/ \E dir \in {"less", "more"} :
             Goto(t, [r EXCEPT !.pc = "tune", !.tune.dir = dir])
    /\ UNCHANGED <<initVars, knobs, exited, crashed, dev, mem>>

\* The values a knob is tested for, and what it is moved to.
FractionMay(dir, x) == IF dir = "less" THEN x < MaxFraction ELSE x >= 1
SizeMay(dir, x) == IF dir = "less" THEN x < HighSize ELSE x > LowSize
Nudged(dir, x) == IF dir = "less" THEN x + 1 ELSE x - 1

\* dsa_wait_and_adjust tests the fraction, then the size, and moves the first
\* that may move.
Test(t, pc, knob, x, may, next) ==
    /\ At(t, pc)
    /\ LET k == th[t].tune IN
       Goto(t, IF may
               THEN [th[t] EXCEPT !.pc = "move", !.tune = [dir |-> k.dir, knob |-> knob, seen |-> x]]
               ELSE [th[t] EXCEPT !.pc = next])
    /\ UNCHANGED <<initVars, knobs, exited, crashed, dev, mem>>

TestFraction(t) == Test(t, "tune", "csf", csf, FractionMay(th[t].tune.dir, csf), "tune2")

TestSize(t) == Test(t, "tune2", "min", minSize, SizeMay(th[t].tune.dir, minSize), "after")

\* The update: other threads may have moved the knob meanwhile, and the build
\* may use the value tested or read it again.
Tune(t) ==
    /\ At(t, "move")
    /\ LET k == th[t].tune
           now == IF k.knob = "csf" THEN csf ELSE minSize IN
       \E x \in {k.seen, now} :
          /\ csf' = IF k.knob = "csf" THEN Nudged(k.dir, x) ELSE csf
          /\ minSize' = IF k.knob = "min" THEN Nudged(k.dir, x) ELSE minSize
          /\ torn' = (torn \/ x # k.seen)
    /\ Goto(t, [th[t] EXCEPT !.pc = "after", !.tune = IdleThread.tune])
    /\ UNCHANGED <<initVars, exited, crashed, dev, mem>>

\* Does the loop go round?  The rest must be worth a descriptor.
Again(r) ==
    /\ r.split /\ r.rc = "success" /\ ~(r.job.op = "cmp" /\ r.comp.result # 0)
    /\ r.n - r.len >= minSize

\* The end of a round, or of the offload: a mismatch is read off the buffers,
\* at the count; a shortfall goes to the standard function.
After(t) ==
    /\ At(t, "after")
    /\ LET r == th[t]
           differ == r.job.op = "cmp" /\ r.comp.result # 0 IN
       \/ Again(r) /\ Goto(t, [r EXCEPT !.pc = "chunk", !.n = @ - r.len])
       \/ /\ ~Again(r) /\ differ
          /\ Goto(t, [r EXCEPT !.pc = "return",
                 !.ret = mem[t][r.job.dst + r.done] - mem[t][r.job.src + r.done]])
       \/ /\ ~Again(r) /\ ~differ
          /\ Goto(t, [r EXCEPT !.pc = IF r.done # r.job.n THEN "std" ELSE "return"])
    /\ UNCHANGED <<initVars, knobs, exited, crashed, dev, mem>>

\* Where the standard function starts: past what was done, unless the device
\* worked from the end.
Skip(r) ==
    IF r.job.op \in {"copy", "move"} /\ r.comp.result # 0 THEN 0 ELSE r.done

Std(t) ==
    /\ At(t, "std")
    /\ LET r == th[t] j == r.job n == j.n - r.done IN
          /\ mem' = [mem EXCEPT ![t] = Moved(j.op, @, j.dst + Skip(r), j.src + Skip(r), n)]
          /\ Goto(t, [r EXCEPT !.pc = "return",
                 !.ret = IF j.op = "cmp"
                         THEN Compared(mem[t], j.dst + Skip(r), j.src + Skip(r), n) ELSE 0])
    /\ UNCHANGED <<initVars, knobs, exited, crashed, dev>>

Return(t) ==
    /\ At(t, "return")
    /\ Goto(t, [IdleThread EXCEPT !.calls = th[t].calls, !.comp = th[t].comp])
    /\ mem' = [mem EXCEPT ![t] = NoJob.mem]
    /\ UNCHANGED <<initVars, knobs, exited, crashed, dev>>

Step(t) ==
    \/ Enter(t) \/ InitDto(t) \/ DsaInitFromWqList(t) \/ DsaInitFromAccfg(t) \/ MapWqs(t)
    \/ Begin(t) \/ Snapshot(t) \/ NextChunk(t) \/ BadFraction(t)
    \/ Submit(t) \/ CpuPart(t) \/ Wait(t) \/ TestFraction(t) \/ TestSize(t) \/ Tune(t)
    \/ After(t) \/ Std(t) \/ Return(t)

Next == \/ \E t \in Threads : Step(t) \/ DeviceRuns(t) \/ \E j \in Jobs[t] : Call(t, j)
        \/ CleanupDto

Spec == Init /\ [][Next]_vars

\* Threads are scheduled and an accepted descriptor completes: the library
\* polls without a limit.
FairSpec == Spec /\ \A t \in Threads : WF_vars(Step(t)) /\ WF_vars(DeviceRuns(t))

-----------------------------------------------------------------------------
\* Every variable has its type.
TypeOK ==
    /\ {initializing, initialized, useStd, exited, torn} \subseteq BOOLEAN
    /\ numWqs \in 0 .. NumWqs /\ mapped \subseteq 0 .. NumWqs - 1
    /\ csf \in Int /\ minSize \in Int
    /\ crashed \in {"no", "division", "portal", "fraction"}
    /\ \A t \in Threads :
          /\ th[t].job.op \in {"none", "set", "copy", "move", "cmp"}
          /\ th[t].done \in 0 .. th[t].job.n /\ th[t].cpu \in 0 .. th[t].job.n
          /\ dev[t] = NoDesc \/ dev[t] = th[t].desc

Right(j, m) == m = Moved(j.op, j.mem, j.dst, j.src, j.n)

\* A move to a higher, overlapping address.
Backward(j) == j.op = "move" /\ j.dst > j.src /\ j.dst < j.src + j.n

\* One the library should not split: its comment says so, its loop does.
SplitBackwards(j) == Backward(j) /\ j.n > MaxTransfer

Agree(j, n) == Differ(j.mem, j.dst, j.src, n) = {}

\* However a call is shared out between the device and the CPU, refused,
\* interrupted by page faults and finished by the standard function, the
\* buffers end as the standard function alone would leave them; memcmp of equal
\* buffers gives 0, and whenever the device has seen no difference the value
\* memcmp gives.  Two known exceptions: a move that must not be split
\* (SplitBackwards), and the value when the device reports a difference.  Then
\* dto_memcmp subtracts two bytes past the chunk that differs (the count
\* already includes it, dto.c:1258-1267), so sign and zero are both in doubt.
ResultsRight ==
    \A t \in Threads :
        LET j == th[t].job IN
        th[t].pc = "return" /\ ~SplitBackwards(j) =>
            /\ Right(j, mem[t])
            /\ j.op = "cmp" /\ (Agree(j, j.n) \/ th[t].comp.result = 0) =>
                   th[t].ret = Compared(j.mem, j.dst, j.src, j.n)

\* A thread leaves its descriptor and its record alone, and does not return,
\* while the device has the descriptor.
QuietAtReturn == \A t \in Threads : dev[t] # NoDesc => th[t].pc \in {"cpu", "wait"}

\* The portals get_wq chooses from are mapped from the end of init_dto to the
\* destructor, and there are none when the library has stepped aside.
PortalsBalanced ==
    initialized /\ ~exited => mapped = 0 .. numWqs - 1 /\ (useStd <=> numWqs = 0)

\* The knobs stay within their bounds although threads move them without a
\* lock (dsa_wait_and_adjust), unless one moved between the test and the update
\* of another thread in a build that reads it again (dto.c:380-388).
KnobsInRange == ~torn => csf \in 0 .. FracDen - 1 /\ minSize \in LowSize .. HighSize

\* The program dies of the library only in a call after the destructor, in a
\* call that decided for the device before init_dto found that there is none,
\* or of a fraction that two threads moved out of its bounds.
CrashExplained ==
    /\ crashed = "portal" => exited
    /\ crashed = "fraction" => torn
    /\ crashed = "division" => useStd /\ \E t \in Threads : th[t].early /\ th[t].pc = "go"

\* Every call returns, or the program dies.
CallsReturn ==
    \A t \in Threads : th[t].pc = "enter" ~> (th[t].pc = "idle" \/ crashed # "no")

\* The library around the calls: types and knobs, nothing of a call left at the
\* device, portals mapped from init_dto to cleanup_dto, and crashes only in the
\* three known windows.
LibrarySound == TypeOK /\ KnobsInRange /\ QuietAtReturn /\ PortalsBalanced /\ CrashExplained

-----------------------------------------------------------------------------
(* The inductive invariant.  That of a call speaks of the thread's record r, *)
(* of the descriptor d the device has of it and of its buffers m.            *)

Beginning == {"enter", "init", "list", "accfg", "map", "go"}
Prepared == {"submit", "cpu", "wait"}
Ended == {"tune", "tune2", "move", "after"}
Rounds == {"snap", "chunk"} \cup Prepared \cup Ended

Fields(r) ==
    r = [pc |-> r.pc, calls |-> r.calls, job |-> r.job, orig |-> r.orig, early |-> r.early,
         n |-> r.n, len |-> r.len, cpu |-> r.cpu, snap |-> r.snap, split |-> r.split,
         done |-> r.done, desc |-> r.desc, comp |-> r.comp, rc |-> r.rc, tune |-> r.tune,
         ret |-> r.ret]

CallTypes(r, js) ==
    /\ Fields(r)
    /\ r.pc \in {"idle", "std", "return"} \cup Beginning \cup Rounds
    /\ IF r.pc = "idle" THEN r.job = NoJob ELSE r.job \in js
    /\ {r.orig, r.early, r.split} \subseteq BOOLEAN
    /\ {r.n, r.len, r.cpu, r.done} \subseteq Nat /\ r.snap \in 0 .. FracDen - 1
    /\ r.comp \in [status : {"zero", "success", "fault", "error"}, result : {0, 1}, bytes : Nat]
    /\ r.pc \in {"tune", "tune2", "move"} => r.tune.dir \in {"less", "more"}
    /\ r.pc = "move" =>
          \/ /\ r.tune.knob = "csf" /\ r.tune.seen \in Int
             /\ FractionMay(r.tune.dir, r.tune.seen)
          \/ /\ r.tune.knob = "min" /\ r.tune.seen \in Int
             /\ SizeMay(r.tune.dir, r.tune.seen)

\* What the loop has left, and what it has done.
Counts(r) ==
    /\ r.done <= r.job.n /\ r.cpu <= r.job.n
    /\ r.pc \in {"idle"} \cup Beginning => r.done = 0 /\ r.cpu = 0
    /\ r.pc \in {"snap", "chunk", "submit", "cpu"} => r.done + r.n = r.job.n
    /\ r.pc \in Prepared \cup Ended =>
          /\ r.cpu <= r.len /\ r.len <= r.n /\ r.n <= r.job.n
          /\ ~r.split => r.len = r.n /\ r.n = r.job.n
    /\ r.pc \in Prepared =>
          r.desc = [op |-> r.job.op, dst |-> r.job.dst + r.cpu + (r.job.n - r.n),
                    src |-> r.job.src + r.cpu + (r.job.n - r.n), size |-> r.len - r.cpu]
    /\ r.pc = "wait" => r.done + r.n = r.job.n + r.cpu
    /\ r.pc \in Ended => /\ r.done + r.n <= r.job.n + r.len
                         /\ r.rc = "success" => r.done + r.n = r.job.n + r.len

\* The device has the descriptor until it has written the record.
AtDevice(r, d) ==
    /\ d # NoDesc => r.pc \in {"cpu", "wait"} /\ d = r.desc /\ r.comp.status = "zero"
    /\ r.pc \in {"cpu", "wait"} /\ d = NoDesc =>
          r.comp.status # "zero" /\ (r.comp.status = "fault" => r.comp.bytes < r.desc.size)

\* The buffers of j when the cells at the offsets S are as they should be at
\* the end and the others as they were.
Partly(j, S) ==
    [i \in DOMAIN j.mem |-> IF i - j.dst \in S
                            THEN Moved(j.op, j.mem, j.dst, j.src, j.n)[i] ELSE j.mem[i]]

\* The offsets the device has done of its descriptor, whose first is at base.
DeviceDid(r) ==
    LET base == r.cpu + (r.job.n - r.n) IN
    CASE r.comp.status = "success" -> base .. base + r.desc.size - 1
      [] r.comp.status = "fault" /\ r.comp.result = 0 -> base .. base + r.comp.bytes - 1
      [] r.comp.status = "fault" /\ r.comp.result # 0 ->
            base + r.desc.size - r.comp.bytes .. base + r.desc.size - 1
      [] OTHER -> {}

FromEnd(r) == r.job.op \in {"copy", "move"} /\ r.comp.result # 0

\* The offsets that are done between two rounds and before the standard function.
Offsets(r) == IF FromEnd(r) THEN r.job.n - r.done .. r.job.n - 1 ELSE 0 .. r.done - 1

Contents(r, d, m) ==
    /\ r.pc \in Beginning => m = r.job.mem
    /\ r.pc \in {"snap", "chunk", "submit"} => m = Partly(r.job, 0 .. r.done - 1)
    /\ r.pc \in {"cpu", "wait"} =>
          m = Partly(r.job, (0 .. r.done - 1) \cup (IF d = NoDesc THEN DeviceDid(r) ELSE {}))
    /\ r.pc \in Ended \cup {"std"} => m = Partly(r.job, Offsets(r))
    /\ r.pc = "return" => m = Partly(r.job, 0 .. r.job.n - 1)

\* The CPU takes part only where the chunk's buffers are apart; an overlapping
\* move to a higher address is one descriptor, and its record tells from which
\* end the device has worked.
Directions(r, d) ==
    /\ r.pc \in Rounds /\ Backward(r.job) => ~r.split
    /\ r.pc \in Prepared /\ r.cpu > 0 =>
          r.job.op \in {"set", "copy"} \/ ~Overlapping(r.job, r.len)
    /\ r.pc \in {"snap", "chunk", "submit"} /\ FromEnd(r) => r.done = 0
    /\ r.pc \in {"cpu", "wait"} /\ d = NoDesc =>
          /\ r.comp.result # 0 => r.job.op = "cmp" \/ (r.comp.status = "fault" /\ Backward(r.job))
          /\ r.comp.status = "fault" /\ Backward(r.job) => r.comp.result # 0
          /\ r.job.op = "cmp" /\ r.comp.result # 0 => r.comp.status = "success"
    /\ r.pc \in Ended \cup {"std"} =>
          /\ FromEnd(r) => r.done = 0 \/ Backward(r.job)
          /\ Backward(r.job) /\ ~FromEnd(r) => r.done \in {0, r.job.n}
    /\ r.pc \in Ended /\ r.rc = "success" => ~FromEnd(r)

Equal(j) == j.op = "cmp" /\ Agree(j, j.n)

\* Equal buffers never give a record that says they differ.
Comparisons(r, d) ==
    /\ r.pc # "return" => r.ret = 0
    /\ Equal(r.job) => /\ r.pc \in Rounds \cup {"std"} => r.comp.result = 0
                       /\ r.ret = 0

\* While the device has seen no difference, what was compared agrees.
Verdict(r, d) ==
    r.job.op = "cmp" =>
        /\ r.pc \in {"snap", "chunk", "submit"} \/ d # NoDesc => r.comp.result = 0
        /\ r.comp.result = 0 =>
              /\ r.pc \in Prepared => r.cpu = 0
              /\ r.pc \in Rounds \cup {"std"} => Agree(r.job, r.done)
              /\ r.pc \in {"cpu", "wait"} => Agree(r.job, r.done + Bytes(r))
              /\ r.pc = "return" => r.ret = Compared(r.job.mem, r.job.dst, r.job.src, r.job.n)

CallInv(r, d, m, js) ==
    /\ CallTypes(r, js) /\ Counts(r) /\ AtDevice(r, d) /\ Comparisons(r, d) /\ Verdict(r, d)
    /\ ~SplitBackwards(r.job) => Contents(r, d, m) /\ Directions(r, d)
    /\ r.pc \in {"snap", "chunk"} => r.split

\* One thread initialises the library, and a call waits for it or goes aside.
InitInv ==
    /\ ~initializing => mapped = {} /\ numWqs = 0 /\ ~initialized
    /\ ~initialized => ~useStd /\ ~exited
    /\ initialized => (useStd <=> numWqs = 0)
    /\ \A t \in Threads :
          /\ th[t].pc \in {"init", "list", "accfg", "map"} =>
                /\ initializing /\ ~initialized
                /\ \A u \in Threads : th[u].pc \in {"init", "list", "accfg", "map"} => u = t
          /\ th[t].pc \in {"init", "accfg"} => mapped = {} /\ numWqs = 0
          /\ th[t].pc = "list" => mapped = 0 .. numWqs - 1
          /\ th[t].pc = "map" => numWqs > 0 /\ \E i \in 0 .. numWqs : mapped = 0 .. i - 1
          /\ th[t].pc \in {"go"} \cup Rounds => initialized
          /\ th[t].pc \in Rounds => numWqs > 0
          /\ th[t].pc # "idle" /\ ~th[t].orig /\ ~th[t].early => initialized /\ ~useStd

\* The knob a thread means to move was in its bounds when it was tested.
Remembers(r, isTorn) ==
    r.pc = "move" /\ ~isTorn =>
        /\ r.tune.knob = "csf" => r.tune.seen \in 0 .. FracDen - 1
        /\ r.tune.knob = "min" => r.tune.seen \in LowSize .. HighSize

DtoInv ==
    /\ DOMAIN th = Threads /\ DOMAIN dev = Threads /\ DOMAIN mem = Threads
    /\ \A t \in Threads : CallInv(th[t], dev[t], mem[t], Jobs[t]) /\ Remembers(th[t], torn)
    /\ InitInv /\ LibrarySound
=============================================================================
