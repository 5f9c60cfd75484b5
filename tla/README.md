# A TLA+ model of the idxd driver and of the programs that copy with it

The repository measures Intel's Data Streaming Accelerator (DSA) as a copy
engine. `src/DSA_Kernelspace_Test` has the Linux `idxd` driver
(`1.kernel_test/idxd`) and kernel modules that copy memory through it, with one
device (`1.kernel_test`, `2.kernel_test_pages_*`) and with several
(`3.kernel_test_N_DSAs`). `src/DSA_Userspace_Test` has user-space programs, the DTO
interposition library, libaccfg and the accel-config test programs.

`idxd/` below stands for `src/DSA_Kernelspace_Test/1.kernel_test/idxd/`, `accel/` for
`src/DSA_Userspace_Test/DSA_Library_References/accel-config_references/`.

## Inventory

| Component | State | Operations | Where it is hard | What makes it correct |
|---|---|---|---|---|
| Descriptor allocation and submission (`idxd/submit.c`, `dma.c`) | `wq->sbq`, completion records, cookies, `wq_active`, `wq_resurrect`, `pending_llist`, `work_list` | `idxd_alloc_desc`, `idxd_submit_desc`, `llist_abort_desc`, `idxd_dma_tx_submit`, `idxd_dma_complete_txd` | publication before the portal write; refused `ENQCMDS` against the interrupt thread; submitters paused in the middle | one owner per descriptor, none lost or freed twice, one report |
| Completion interrupt thread (`idxd/irq.c`) | the two lists and the one it walks | `idxd_wq_thread` | runs against submitters, aborts, revocation and flush | every completed descriptor is reported and freed |
| Interrupt-handle revocation (`idxd/irq.c`) | `ie->int_handle`, work items | `idxd_int_handle_revoke`, resubmission, drain descriptor | several workers; handle read before the lock; completions without an interrupt | no submitter uses a handle while it is replaced; nobody waits for an interrupt that never comes |
| Quiesce, unbind, flush (`idxd/device.c`, `dma.c`) | `wq_active`, `wq_dead`, `wq_lock`, portal, state | `idxd_wq_quiesce`, `idxd_dmaengine_drv_remove`, `drv_disable_wq`, `idxd_flush_pending_descs` | three parties quiesce, each may come second | no write to an unmapped portal; unbinding ends |
| Device halt and reset (`idxd/irq.c`) | `idxd->state`, `wq_enable_map` | halt branch of `idxd_misc_thread`, `idxd_device_reinit` | at any moment of everything else | queues enabled again run as configured |
| Device commands (`idxd/device.c`) | command registers, `IDXD_FLAG_CMD_RUNNING`, `cmd_lock`, `cmd_done` | `idxd_cmd_exec`, polled release of a handle | a command sleeps with the lock released | one command at a time, its caller is woken |
| Configuration (`idxd/sysfs.c`, `device.c`) | attributes of queues, groups, engines; registers and their shadow | stores, `idxd_device_config`, bind, unbind | stores against an enabled device; values that survive a reset on one side only | totals and counts agree; an enabled queue runs as its attributes say |
| Life cycle (`idxd/init.c`, `sysfs.c`, `device.c`) | memory, references, registrations, per-queue resources | module load, probe, remove, bind, unbind, halt | every call may fail half way | what was acquired is given back once |
| Event log (`idxd/irq.c`, `cdev.c`) | ring, `bmap`, fault works | `process_evl_entries`, `idxd_evl_fault_work`, drain of a closing file | hardware, interrupt thread, works and closing files share the ring | every entry is read; its record reaches its process |
| User character device (`idxd/cdev.c`) | `upasid_xa`, contexts, `file_ida`, `client_count` | open, release, bind, unbind | partly failed open; close against faults and unbinding | contexts outlive their users, clients are counted |
| N-device copy programs (`3.kernel_test_N_DSAs`) | `idxd_desc_lists` (no lock), plain flags | `dsa_copy`, `dsa_desc_complete`, `my_exit` | two threads share a plain list | nothing freed or unmapped in use; success means copied |
| Single-device copy programs (`1.kernel_test`, `2.kernel_test_pages_*`) | the list of entries, the mapped tables | rounds or batches, polling, comparison | poll limits, failed submissions, partial set-up | the copy is complete when it is reported |
| Single resumed descriptor (`kernel_test_basecodes.c`, `memmove_userguide_ref.c`, `mmap_to_userspace_dsa_*.c`) | descriptor, completion record, retry counters | submit, poll, resume after a page fault | stale records, wrapping lengths, limits | resumption covers what is missing |
| libaccfg (`dto_and_libaccel/libaccfg.c`) | cached attributes | setters, enable, disable | the driver changes attributes behind the cache | a queue is enabled as it was asked for |
| DTO (`dto_and_libaccel/dto/dto.c`) | portals, knobs, per-thread descriptor | `memset`, `memcpy`, `memmove`, `memcmp`, init, destructor | splitting, page faults both ways, knobs moved by other threads | buffers end as the standard functions leave them |
| accel-config tests (`accel/dsa.c`, `dsa_prep.c`, `dsa_test.c`, `accel_test.c`) | task lists, descriptors, records | rounds: allocate, prepare, submit, wait, verify, free | timeouts, late records, resumption per opcode, lists freed twice | a pass means the work was done |
| Performance monitor, bus, compat, debugfs, layouts | counters, registrations | - | - | not modelled, see below |

How they interact: a client prepares and submits through the dmaengine
operations; the driver publishes the descriptor and writes it to the portal; the
device writes the record and raises the queue's interrupt; `idxd_wq_thread` completes
and frees it. The misc interrupt reports revoked handles, finished commands, halts
and the event log. `wq_lock` serialises whoever changes a queue; `wq_active` is the
gate through which every submission passes. The copy programs submit without an
interrupt and poll. User-space programs open a user queue (`Cdev`), which an
administrator has configured and enabled (`DevConfig`, `Accfg`).

The hazards, each with its line and its properties, are in `PROJECT.json`.

## Modules

| Module | What it is |
|---|---|
| `WqSubmit`, `WqSubmitInv`, `MCWqSubmit` | one kernel work queue: submission, interrupt thread, revocation, quiesce, unbind, flush, halt; the inductive invariants `GateInv`, `HandleInv`, `OwnInv`; symmetry |
| `WqSubmitProofs` | TLAPS: types; the gate in front of the portal and the handle; who owns a descriptor |
| `CmdExec`, `MCCmdExec` | the command interface |
| `DevConfig` | the configuration of a device: attributes, registers, bind, unbind, halts, re-initialisation |
| `Accfg`, `MCAccfg`, `AccfgProofs` | an administrator who uses libaccfg on the device of `DevConfig`; what is written, per instance; TLAPS: the books, what an enabled queue has, what libaccfg enables |
| `Lifecycle`, `MCLifecycle`, `LifecycleProofs` | what the driver acquires and gives back, with every failure; TLAPS: the balance |
| `Cdev`, `MCCdev` | the character device of a user queue and the event log |
| `MiscProofs` | TLAPS, for the two components that the misc interrupt serves: `CmdExec` (types, the command slot, no command lost) and `Cdev` (all its safety properties) |
| `CopyService` | abstract: what every copy program promises |
| `KernelCopy`, `MCKernelCopy`, `KernelCopyProofs` | the N-device copy programs; TLAPS: all their safety properties |
| `SingleCopy`, `MCSingleCopy`, `SingleCopyProofs` | the one-queue programs, loop and batch; TLAPS: safety, and that it implements `CopyService` |
| `PageCopy`, `MCPageCopy`, `PageCopyProofs` | one descriptor resumed after page faults; TLAPS: safety, and that it implements `CopyService` |
| `Dto`, `MCDto`, `DtoProofs` | the transparent offload library; TLAPS: the results of the calls, the library around them |
| `AccelTest`, `MCAccelTest` | the accel-config test program; TLAPS (in `AccfgProofs`): all its properties |

Operators marked *Variant* are deliberate mistakes in the operator that follows
them. No specification uses them; substituting one for its original shows that a
property notices the mistake.

Several properties are conjunctions of named parts (`EntriesSound`, `BuffersSound`,
`Accounts`, ...), each part commented where it is defined, so that the parts can be
read, checked and proved one by one.

### WqSubmit

One action is one step between two points at which another thread, the interrupt
thread or the device can interfere. A critical section under `list_lock` is one
action, because every list operation of the other threads is under that lock or is
a single atomic `llist` operation.

* Clients (`ClientCall`, `TxStep`, `SubmitStep`): `idxd_dma_submit_memcpy` allocates
  (`GetDesc`, or sleeps), `idxd_dma_tx_submit` assigns the cookie and calls
  `idxd_submit_desc`, which tests the device state (`SubmitCheck`), takes `wq_active`
  (`SubmitTryGet`, `WaitResurrect`, `SubmitRetry`), publishes (`Publish`), writes the
  portal (`Enqueue`) and puts the reference (`SubmitPut`). A refused `ENQCMDS` takes
  the abort path (`AbortMark`, `AbortTake`, `AbortFound`, `AbortFlist`).
* The interrupt thread: `IrqStart`, `IrqScanWorkList`, `IrqWalk`/`IrqAdvance`,
  `IrqTakePending`, `IrqExamine`, `IrqAddWork`, `IrqDone`. `irq_process_work_list`
  reads the link of a descriptor *after* having freed it; `irqTorn` records that
  another thread re-linked it in between.
* Revocation: `RevokeStart` .. `RevokeDrain`; its failing branch goes through the
  quiesce, `InvalScan` and `InvalAbort`. `resubmit` is the set of queued work items. Any
  number of workers serve revocations at once, because `create_workqueue` (`init.c:388`)
  makes a workqueue with one active work per CPU; `crossed` records that the last request
  for a handle came while another worker had one to store.
* Quiesce (`QuiesceLock` .. `QuiesceDead`) is one set of actions for its three
  callers: a failed revocation, the misc thread on a halt, the unbinding.
* Unbinding: `RemoveStart`, `RemoveUnmap`, `RemoveDrain`, `RemoveFreeIrq`,
  `FlushScan`, `FlushDrop`, `RemoveReset`; from its end on the counter of `wq_active` is
  gone (`RefExited`).
* External: the device (`DevComplete`, `DevDrain`, `DevRevoke`), `percpu_ref`
  (`refKills`, `refHolders`: killing twice drops the base reference twice, so the
  count is `1 - kills + holders`), completions. After a revocation the device
  completes descriptors carrying the old handle without an interrupt.
* `oops` is set where the code follows a NULL or corrupted pointer or writes an
  unmapped portal; the behaviour ends there.

`told` counts, as history, how often the client has heard of the current
transaction. Left out: payload, addresses, PASIDs; the retries of `idxd_enqcmds` are
one outcome; one queue with one vector. Descriptors submitted without
`IDXD_OP_FLAG_RCI` never enter these lists.

### CmdExec

`idxd_cmd_exec` (`CmdCheck`, `CmdSend`, `CmdWake`, `CmdClear`) for any number of
threads, `idxd_device_release_int_handle`, which polls with `cmd_lock` held
(`ReleaseSend`, `ReleasePoll`), and the part of the misc interrupt thread that
completes `cmd_done`. Any thread executes any command at any time. External: the
device takes a command when idle, drops one written while another is active,
finishes with success or an error, and may halt.

### DevConfig and Accfg

A queue is a record of attributes (`type`, `ded`, `size`, `thr`, `group`, `bof`, `prs`,
`named`, `drv` for `driver_name`, `tuned`) and a state; `shadow` is `wq->wqcfg`, `hw` the registers, `hwOn` the
queues the device has enabled. One action per store of `sysfs.c`; binding a queue
compares its driver name (`DriverNameMatch`, a comparison of as many characters as the
driver's name has, which `"username"` passes for `user`), runs the checks of
`drv_enable_wq` (`Enableable`), then `idxd_device_config`, which
merges the attributes of all queues into the shadow (`Merged`: mode and block on
fault are only ever set) and writes the registers. Both kinds of halt and the work
item `idxd_device_reinit` are actions. Attributes on which nothing else depends are
one flag, `tuned`. `Accfg` adds the cache of a libaccfg context: setters write
through, `accfg_wq_enable` binds to the driver with the cached name or, when that is
empty, to the driver of the cached type, and afterwards checks the state; nothing
refreshes the cache, and `EchoDriverName` and `CompatBindStore` act behind it. Because the
driver compares names, an empty `driver_name` lets nothing be bound, whatever the type.
How many clients a disabled queue or device has is any number: a call without force is
refused, and changes nothing, when there are some. The behaviour of the composed
specification is `AccfgSpec`. Every store is one step: the code has one
administrator, and races between two writers of sysfs are not interleaved.

### Lifecycle

`s` is what the driver holds for the PCI device: memory (`mem`), pointers that the
release callback will free (`ptr`), reference counts of the conf devices (`refs`),
registered devices (`reg`) and, as history, what was released twice or used after it
was freed (`bad`). The functions of `init.c` and `sysfs.c` are operators on that
record with the failing call as a parameter, composed in the order of the code;
a probe is one step, because it runs under the device lock. `q` is what each queue
holds: portal, interrupt, descriptors, reference, its character device or channel
(`front`) and its workqueue. When the device goes its queues keep what their drivers
did not give back (`Leftover`): the descriptors of kernel queues, which
`idxd_wq_free_resources` never frees because `idxd_wq_reset` has cleared the type it
looks at, and after a halt the interrupt. Both are exceptions of the properties, by
name. `faults` collects the events after which the code is known to lose track
otherwise; the properties name them too.

### Cdev

A file passes through the stages of `idxd_cdev_open` (allocation of the context, SVA
bind, insertion into `upasid_xa`, the id, `device_add`) and of its release (drain,
SVA unbind, removal from the array, the id, `idxd_wq_put`). `dev_set_name` or `device_add`
may fail at any open (`OpenAddFails`): `put_device` then runs the release inside the
open, which ends at `wq_lock`, and `stuck` is the file that holds the lock from then on.
The interrupt thread
clears `int_pending`, reads the tail, and handles or skips the entries up to it; a
fault work looks up the context by PASID and copies the record. `rec` and `sub` are
the fate of a file's record and of the record of a descriptor in its batch: marked by
a close, dropped for want of memory, refused by a workqueue that drains, without a
context, faulted, not asked for (`copy_size` 0), or written. PASIDs
belong to processes (`own`, external) and can be handed on as soon as they are
unbound. The locks named in the module's header determine what is one step.

The device logs the record of a descriptor in a batch (`bxlat`) only while no other
batch of the queue has one outstanding: `batch_fail` is indexed by a batch id, which is
free again when the batch was logged or its queue or PASID drained (`InBatch`). Works
run in the order in which they were queued: `create_workqueue` (`cdev.c:546`) makes a
workqueue with one active work per CPU, and the interrupt thread queues from the CPU
of its vector.

`CdevInv`, at the end of the module, is the inductive invariant. Its part about
batches is stated over `Coming`, the works followed by the unread slots of the ring,
in the order in which they will be worked on.

### KernelCopy, SingleCopy, PageCopy, CopyService

`KernelCopy` has `dsa_copy`, the kthread `dsa_desc_complete` and `my_exit`, in the
loop and the batch program. One action is one access to the shared list or flags.
The list is only appended to at its tail, so it is the set `linked` of positions;
`temp` is the lookahead of `list_for_each_entry_safe`. Plain flags are read and
written one at a time, in program order; the fairness of the run assumes that the
build does not keep one in a register across the busy loop (the recorded runs end).

`SingleCopy` is `my_init`, `dsa_copy` and `my_exit` of the one-queue programs: set-up of
areas and four scatter tables with its failures, the shuffle (`RandomArr`), rounds of
`num_descs` descriptors or all batches at once, polling with a limit, unmapping,
comparison, unloading. The device holds a bag of submissions, because a leftover of
one round is submitted again by the next.

`PageCopy` is one descriptor: `offset` and `left` are its addresses and its length
(modulo `2^Width`), `status` and `done` the completion record. The device copies a
prefix and may fault. The user program clears the record before each submission,
the kernel program does not.

`CopyService` says what a caller relies on: pieces reach the destination in any
order, "done" only when all have, and nobody writes afterwards; a program that met a
fault gives up and promises nothing. `SingleCopy` and `PageCopy` implement it
(`ImplementsCopyService`, the pages as pieces, the outcome computed from what the
program reports).

### Dto

Threads with their own descriptor, record and buffers share the initialisation
(`init_dto`: one thread initialises, others wait), the portals and the knobs
`cpu_size_fraction` (in units of `1/FracDen`) and `dsa_min_size`. A call decides for the
device or the standard function, splits the piece (`Begin`, `Snapshot`, `NextChunk`; the
threshold modulo `Word`), submits, copies its part on the CPU, waits, and finishes with
the standard function what a refusal or a page fault left. Every read of a knob is a
step of its own: a thread tests the fraction (`TestFraction`), then the size
(`TestSize`), and moves the first that may move (`Tune`); the update uses the value
tested or the present one, because the compiler may read the variable once or twice.
`torn` remembers an update from a value nobody tested; a fraction outside 0 to 1 that
is then used ends the program (`BadFraction`). `dsa_min_size` is not followed below 0. The device works on memory cells at
any time after it accepted a descriptor; a move may fault forwards or backwards.
`DtoInv`, at the end of the module, is the inductive invariant.

### AccelTest

A test of one opcode: rounds of at most `QueueRange` descriptors, each round allocates the
tasks, prepares, submits and waits for one or two jobs, verifies and frees. `JobOf`
has, per opcode, which of source, destination and length a job uses and how
`dsa_reprep_*` moves them after a page fault. `unit` is what was done to each page of
a task. A delta record is a buffer of its own: `delta` is the set of pages whose entries
are at their place in it, the descriptor has its address and length (`delta`, `recSize`),
a creation writes it and an application reads it. Neither resumption moves it: a resumed
creation writes over its start, a resumed application adds its offsets to a destination
that has moved. `redone` are the tasks whose delta job was resumed, `hurt` those with a
device error. Timeouts, refused submissions, device errors and failing allocations
happen up to `Troubles` times. `AccelInv`, at the end of the module, is the inductive
invariant.

## Runs

Each run is a `.cfg` of the same name. `MCSymmetry` permutes descriptors, clients and
revoke workers and is only used by runs without liveness.

| Run | Instance | States | Shows |
|---|---|---|---|
| `wq_remove` | dedicated queue, 2 descriptors, 1 client, 1 resubmit worker, 1 revocation, failing requests and allocations, unbinding | 1,170,933 | one owner per descriptor; allocated exactly while somebody will free it; one report, before the free; the portal is mapped while used |
| `wq_shared` | shared queue, 1 descriptor, 1 client, 2 revocations and 2 workers for them, refused submissions, failures, halt, unbinding | 3,747,527 | the gate (`GateInv`, `HandleSwapSafe`), although the abort path mishandles descriptors; the newest handle wins unless two requests cross |
| `wq_live` | dedicated queue, 1 descriptor, 2 clients, 2 revocations, unbinding, fair | 200,295 | pending descriptors are freed, paused submitters released, the unbinding ends |
| `cmd_exec` | 2 threads, 1 queue, refusals, halt, fair | 245,388 | one sleeping command, its interrupt finds it, none is written to a busy device, the slot is given back |
| `kcopy` | loop with failures and errors; loop with 1 descriptor per queue, queues of the same and of different lengths; batches of 2 over queues of 5 and 2, 3 and 1, 1 and 3 entries; fair | 840,575 | ownership of list and descriptors, quiet at unmap, success means copied; a copy ends or is stranded in the one known way; unloading ends |
| `single_copy` | 1 to 5 pages, 2 descriptors, batches of 2, shuffled or not, all failures, fair | 107,973 | implements `CopyService`; leftovers, double submissions and mapped tables only after named failures; the copy ends |
| `page_copy` | 3 pages, 3-bit lengths, 3 page faults, both programs | 5,356 | resumes where it stopped; implements `CopyService` |
| `config` | 2 queues, 2 groups, 1 engine, four plans of writes (modes and driver names, fault handling, sizes, read buffers) | 1,339,821 | counts and read buffers agree; enabled queues can run and their registers hold the attributes, stale mode and block-on-fault bits excepted; libaccfg enables what was asked |
| `life` | 2 queues, 2 engines, 1 group, every failing call | 23,931 | balance of probe, remove, load, bind and unbind |
| `cdev` | 2 files of 1 or 2 processes, 2 PASIDs, 3 log entries, 2 bindings, one process with a batch | 4,606,699 | no entry unread; records reach their process; contexts live |
| `dto` | 2 threads that both move the knobs, transfers of 2, buffers of up to 8 cells, overlapping moves, 2 queues, fair | 708,776 | buffers as the standard functions leave them, values of `memcmp` unless the device reports a difference; knobs, portals, crashes; calls return |
| `accel` | all opcodes and two batches, 3 descriptors in rounds of 2 or 3, 3 pages, 2 troubles | 3,143,379 | tasks and queue, resumption, verdict |

Bounds. Two descriptors are enough for one to be on each of two lists, or for one to
be freed and taken again while another is walked; a client and a worker, or two
clients, give two submitters; two revocations served by two workers let their requests
cross; the combination of halt, unbinding and revocation is
explored with one descriptor and in the proofs, which have no bounds. In the copy
programs two queues or rounds with an odd number of entries make turns, partial
batches and exhausted descriptors happen. Three-bit lengths let the kernel program's
length wrap. Two queues and two groups let one queue's configuration write meet
another enabled queue. Two files with two PASIDs let a PASID be handed on while the
old context is still in the array; three log entries let the ring wrap. In `dto` a
second thread that initialises and moves the knobs is enough, because calls share
nothing else. Two troubles let a resumption meet an error and a timeout a late record.

Deadlock is not checked where the system really may stop: after an unbinding, a
halt, an `oops`, a module unload, a copy that hangs, a program that ended.

Fairness. Weak fairness per thread: the kernel schedules every runnable kthread,
worker, interrupt thread and caller, and the operating system every thread of a
program. Weak fairness of the device per accepted descriptor, drain descriptor and
command: it completes what it accepted. Strong fairness is used once, for a thread
that waits for `cmd_lock` while others keep taking it for polled commands: kernel spin
locks are queued. No fairness for what nothing forces: client calls, revocations,
halts, unbinding, unloading, opens and closes.

## What the code does not keep

Met while modelling; the models contain the behaviour, and the properties name
it as an exception or are checked on instances without it.

* `idxd/submit.c:138`: `llist_abort_desc` passes `found` instead of the loop variable;
  completed descriptors taken off the list are neither reported nor freed, although
  the comment at 130-135 says so. `idxd_dma_tx_submit` frees a refused descriptor
  that the abort path or the interrupt thread frees too (comment at submit.c:208).
  `ExclusiveOwner` is therefore claimed for dedicated queues.
* `idxd/submit.c:179`: a submitter that slept through one handle swap fails with
  `-ENXIO` because of the next, which `irq.c:528-529` takes for a killed queue.
* `idxd/device.c:413`: a second quiesce of the same queue (unbinding after a halt, a
  revocation after an unbinding) waits for ever under `wq_lock`; after `percpu_ref_exit`
  (`device.c:1502`) has freed the counter the kill follows a NULL pointer.
* `idxd/irq.c:161`: with two workers the older handle can be stored last; `irq.c:217`:
  the drain descriptor can be written to an unmapped portal; `irq.c:404`: a halt read
  together with a finished command drops the completion; `irq.c:615`: the link of a
  freed descriptor is followed.
* `idxd/device.c:928` and `954`: mode and block on fault are never cleared in the
  registers of a queue that is not unbound in between, although `sysfs.c:1135` says that
  block on fault "needs to be off as well": a queue that the binding of another one wrote
  as dedicated can be enabled as shared. `RegistersMatch` leaves out these two stale bits
  and says so. `sysfs.c:729`: a size store may leave a threshold above the size.
* `idxd/irq.c:32`: on a device that is not configurable a re-initialisation enables queues
  no driver is bound to, because unbinding leaves their bit in `wq_enable_map`;
  `RunsAsConfigured` speaks of configurable devices. `sysfs.c:31`: an engine that changes
  its group while the device is up leaves the old group in the registers.
* `idxd/device.c:1500`: the descriptors of a queue are leaked by every unbinding;
  `init.c:160`, `init.c:525`, `init.c:807`, `sysfs.c:1834`: failed probes and a removal
  with the driver bound release twice, leak, or use freed queues.
* `idxd/cdev.c:290`: a failed id allocation returns success with a freed context;
  `cdev.c:319`: an open whose `dev_set_name` or `device_add` fails waits for `wq_lock` that
  it holds; `cdev.c:504`:
  unbinding under open files; `cdev.c:146`: a PASID is given back before its context
  is out of the array; `cdev.c:353`: closing one file drops the records of the other
  files of its process, and `cdev.c:359`, while it drains the workqueue, those of every
  other process (`queue_work` refuses them); `cdev.c:546`: the works of a batch stay in order only while
  the interrupt stays on its CPU, and with them the flag `batch_fail`.
* `3.kernel_test_N_DSAs/kernel_test_sgtable.c:362`: the polling thread stops looking at
  the list once it has counted all completions; entries completed while
  `dsa_copy` still submitted stay linked and `dsa_copy` spins for ever. `CopyEnds` names
  this state (`Stranded`) and says that it is the only way not to end.
  `kernel_test_sgtable_batch.c:522-524`: the turn of a queue with one entry after that of
  a longer queue frees the `batch_task` of the longer one again (met in the proof of
  `NoOops`, which names it).
* `1.kernel_test/kernel_test_basecodes.c:413`: the completion record is not cleared
  before a resubmission. `kernel_test_sgtable_batch.c:402`: more batches than
  descriptors hang.
* `dto.c:1176`: overlapping moves longer than a transfer are split, against the
  comment at 1122-1124; `dto.c:1258-1267`: when the device reports a difference,
  `dto_memcmp` looks for it at `thr_bytes_completed`, which already includes the piece that
  differs, so the value returned is that of two bytes behind it; `dto.c:380-388`: a knob that
  another thread moves between the test and the update can leave its range, against
  "cpu_size_fraction gauranteed to be >= 0 and < 1" (1066, 1144); `dto.c:1323`: a first call can divide by zero when no queue is
  found; `dto.c:1029`: the destructor unmaps portals in use.
* `accel/dsa.c:821`: only the last wait's result counts; `accel_test.c:462`: the list
  of batches is not reset when it is freed; `dsa_prep.c:632` and `773`: DIX_GEN and
  cache flush are resumed wrongly; `dsa_prep.c:386-405` and `422-441`: the delta record is
  not moved when a delta job is resumed. `dsa_test.c:661-669` (of a batch, 233-256): a
  creation that ends in an error is not noticed before the application, and
  `dsa.c:1714-1727`: what was applied is compared with itself, so that the test passes.

## Proofs

What TLAPS checks holds for every value of the constants that the named assumption
of the module allows. Every theorem about a property follows the same argument: an
inductive invariant `I` with `Init => I`, `I /\ [Next]_vars => I'` (one lemma per action
or group of actions) and `I => P`. Each of these invariants was first checked by TLC on
the instance of its run.

**Work queue** (`ThreadsAssumption`: finitely many submitting threads, the kinds of
threads are disjoint; `ParametersAssumption`). Any number of descriptors, threads and
revocations, with and without failures, halts and unbinding.

* `TypeCorrect` (`WqSubmitProofs`): `TypeOK`.
* `GateHolds`, `PortalMappedHolds`, `HandleSwapSafeHolds`, dedicated and
  shared queues. `PortalMapped` is not inductive: that nobody is inside the gate when
  the portal goes away depends on what `wq_dead` means, and that on who has killed
  `wq_active` and how often. `GateInv` says that (a) whoever is between the kill and the
  end of its wait holds `wq_lock`; (b) the holders of the reference are exactly the
  submitters between tryget and put, and for each number of kills what `wq_dead` is:
  with none it is 0 and nobody waits; with one it is 1 exactly if the last holder has
  gone and the waiter has not consumed it; with two the second killer waits for ever;
  (c) from the end of a halt's or an unbinding's quiesce on, the gate is closed and
  nobody reopens it. `HandleSwapSafe` is an action property from the same invariant.
* `HandleCurrentHolds`, for any number of workers that serve revocations. `HandleInv`: a
  handle that is not the device's, in force or about to be stored, will be followed by
  a request, unless the last request crossed a store (`crossed`) or the gate is closed for
  good; and an invalid handle means that the queue is being closed.
* `OwnHolds`, `ExclusiveOwnerHolds`, `AllocatedIffLocatedHolds`, `FreedAfterReportHolds`,
  assuming `Dedicated`: on shared queues the abort path breaks them.
  `OwnInv` adds to the properties what each place implies: a descriptor at the portal
  is on a list with an empty record and not yet at the device; what the interrupt
  thread walks has completed; control threads hold descriptors only while they
  complete them; the client of an allocated descriptor has heard nothing. It needs
  `GateInv`, because an unbinding that flushes must find nobody inside the gate.

**Commands** (`CmdParameters`). `CmdTypeCorrect`, `SlotHolds`, `CommandReceivedHolds`
(`MiscProofs`) from `CmdTypeOK /\ SlotInv`. Neither half is inductive alone: that the
misc interrupt completes an existing completion is part of typing and follows from the
slot. `SlotInv` says that `IDXD_FLAG_CMD_RUNNING` is set exactly while one thread is
between sending and clearing, that `cmd_done` is that thread's, that its command,
interrupt and completion are on their way at most once altogether, and that a
command without an interrupt at the device belongs to the holder of `cmd_lock`.

**Event log and character device** (`CdevParameters`: the sizes are not zero; which files
submit batches is arbitrary). `CdevInvHolds`, `EvlServicedHolds`, `RecordsRightHolds`,
`ContextsSoundHolds` (`MiscProofs`): all properties of the module. `CdevInv` has parts
that need each other:

* `EvlInv`: used slots lie between the cursor and the tail, only they are marked. The
  remainders of the ring are replaced by the distances `Dist` and `Fwd` (`Wrap`, `Ring`,
  `Forward`), after which everything is linear arithmetic.
* `CtxInv`: a context is in the array under its PASID unless it found the place taken,
  and the PASID is its process's until the SVA binding goes.
* `CountInv`: ids belong to open files, so that `ida_alloc` always finds one among
  `NumFiles + 1` (`FreeId`, a pigeonhole argument); how far an unbinding under clients can
  take `client_count`.
* `RecordInv`: what an entry in the log or on the workqueue says of its file, and that no
  file has two of a kind; from this the workqueue's length is bounded (`WorksAreFew`,
  again by pigeonholes), which is part of `TypeOK`.
* `RefusedInv`: a work is refused only while a file waits in `drain_workqueue`, and a file
  that waited there has a trace in its stage (`HasDrained`).
* `BatchInv`: over `Coming`, no entry of another batch lies between the two of one batch,
  and once the copy of a descriptor's record failed the flag is up and nothing that
  clears it comes before the batch's own entry. `BatchTold` alone says nothing about the
  moment at which the flag is read. The lemmas `ComingLogged`, `ComingPassed` and
  `ComingWorked` say what a step does to `Coming`: append, drop one or leave, drop the
  first.

**Configuration** (`ConfigParameters`, `PlansAssumption`: any numbers of queues, groups and
engines, any values an administrator writes). `ConfigInvHolds`, `AccountsHold`,
`RunsAsConfiguredHolds`, `EnabledAsAskedHolds` (`AccfgProofs`), for `AccfgSpec`: halts and
re-initialisations come between any two steps of libaccfg.

* The sums over the groups and the counts of queues and engines are the driver's
  running totals. That a store keeps them right is proved over sums up to n (`SumTo`)
  and from what a move between two groups does to a count (`CountMoved`).
* `EnabledAsAsked` needs what the queue keeps between the write to bind and the look at
  the state (`CallPending`): its driver, the driver name, and its type as long as a
  re-initialisation may enable it.
* `RegistersMatch` is not inductive: every binding rewrites the registers of all queues
  and may stop half way, with the size of a queue already in the attributes and its
  register not written. `EnabledSized` says that an enabled queue is not one of these.
* `CallPending`: between the write that binds and the look at the state, the queue keeps
  its driver, and its type unless it was disabled in between.

**Life cycle** (`LifecycleParameters`: any numbers of queues, engines and groups).
`LifeInvHolds`, `BalancedHolds`, `QueuesBalancedHolds` (`LifecycleProofs`).

* What the driver holds is a record; the proof computes with records of one form,
  `Holding(mem, ptr, refs, reg, bad)`. There is a lemma for each primitive (acquire,
  release, `put_device`, register, ...), from which those of `idxd_setup_*`, `idxd_probe`,
  `idxd_register_devices`, `idxd_pci_probe` and `idxd_remove` follow, for every failing call.
* `LifeInv` says what is held when the device is absent or present (`HeldInv`). It makes an
  exception of the failures after which the code has released something twice (`Lost`):
  then the record is not known, but no probe follows (`LostInv`).
* `QueueInv` and `QueuesBalanced` are about the queues: what a bound queue holds is what its
  driver's probe took, until a halt; what an unbound one keeps is at most what was leaked,
  and it stays with the queue when the device is removed (`AbsentParts`).

**DTO** (`DtoParameters`; `JobsAssumption` is what callers of the standard functions promise:
the buffers exist, and those of `memcpy` do not overlap). `DtoInvHolds`,
`ResultsRightHolds`, `LibrarySoundHolds` (`DtoProofs`), for any threads, calls, transfer
limit, queues and knobs. `DtoParameters` has the ranges of the knobs start in order.

* `Remembers` says of a thread between test and update that the value it saw is in the
  range it was tested for, as long as no knob is torn; `Verdict` is what the record says
  of a comparison: no difference reported means that the pieces done agree.
* `CallInv` relates a thread's record, the descriptor at the device and the buffers:
  what the loop has left (`Counts`), whose the record is (`AtDevice`), and the contents.
  `Contents` says which offsets are done, as `Partly(j, S)`: the buffers of the call `j` with
  the cells at the offsets `S` as they should be in the end and the others untouched.
  While CPU and device work, `S` has a gap; after a fault of a backward move it is a piece
  at the end of the buffer (`Offsets`, `Directions`).
* The central lemma is `Moving`: moving the offsets `O` of buffers that are done at `S` gives
  buffers that are done at `S` and `O`, provided no cell of `S` is a source of one of `O`
  (`Unspoiled`). The rest is to show this for every step: pieces of separate buffers,
  pieces in ascending order of a forward move, and the remainder after a fault.
* A backward move that is split does spoil its sources (`SplitBackwards`, see above): the
  contents of those calls are not claimed.
* `InitInv` gives `PortalsBalanced` and two of the crashes: a call that is past
  `init_dto` finds the library initialised, and no queues only if it decided before.

**Test program of accel-config** (`AccelParameters`; `OpcodesAssumption`: the opcodes asked
for are ones the program knows). `AccelInvHolds`, `MemorySoundHolds`, `JobsRightHolds`,
`VerdictRightHolds` (`AccfgProofs`): all properties of the module, for any opcodes, number
of descriptors, size of the queue and of the buffers, and any number of troubles.

* A test whose waits time out goes on with descriptors still at the device, and their
  late records are read for later jobs. `AccelInv` therefore claims nothing of a task in
  `timedOut`; of every other one `EntryInv` says that what is at the device is its present
  descriptor, whose record is still empty.
* `JobState` is the invariant of one descriptor, over its fields, record and units only:
  the units not done are those the descriptor asks for, or those its record leaves
  (`Covers`); the record is that of the last submission (`Tells`); a comparison of
  buffers that differ has not passed the difference (`Compares`). Each action has a
  lemma about it without the rest of the state: `JobPrepared`, `JobResumed`, `JobDone`,
  `BatchDone`, and `SettledSingle`, `SettledBatch` for what a verification then sees.
* `JobTable` and `StepTable` say once, for all opcodes, what a resumption moves and where
  the steps of a test lead; the rest of the proof has no case for an opcode but those of
  cache flush and DIX_GEN, which resume wrongly, and those of the delta jobs.
* `DeltaInv` is about the delta record of a task: until its job is resumed (`redone`) it has
  an entry for every page done (`Recorded`); what is applied is a whole one, unless
  its creation ended in an error (`Applied`); between the two jobs `Readied` says so.
* `ListInv`: the list is the tasks of the round, the newest first and all live (`Held`), or
  empty, or the freed nodes of a batch (`Left`), or an allocation has failed.
* `DoneInv` and `OutcomeInv` lead to the verdict: the tasks of earlier rounds are finished,
  and a round goes on after a bad result only when there is a reason.

**Copy programs.**

* `CopyInvHolds`, `EntriesSoundHolds`, `CopyCompleteHolds`, `NoUnlinkHolds`
  (`KernelCopyProofs`, from `CopyParameters`: any queues, scatter lists, descriptors,
  batch size, failures and errors). `CopyInv` relates the turns of `dsa_copy` to the list
  (`TurnInv`, `ListInv`), the plain flags to the other thread's position (`FlagInv`),
  descriptors to the pending entries (`OwnInv`), and every turn to what was copied, is
  pending, or was lost to a remembered error (`CoverInv`).
* `SingleInvHolds`, `DescriptorsSoundHolds`, `BuffersSoundHolds`, `SingleServiceHolds`
  (`SingleCopyProofs`, from `SingleParameters`). The parts about the device hold while no
  round ended early (`Waits`), those about the pages while nothing failed (`Clean`).
  That the shuffle `RandomArr` is a permutation is proved from its recursive function.
* `PageInvHolds`, `ResumesRightHolds`, `DeviceQuietHolds`, `PageServiceHolds`
  (`PageCopyProofs`, from `PageParameters`; `Size < 2 ^ Width` says that `xfer_size` can hold
  the size). `PageInv` says that the descriptor and what was copied cover the buffer
  (`CoverInv`), and that the record is true while it is the one of the last submission
  (`RecordInv`); of the kernel program only until its first resumption, because
  afterwards it is not.
* `SingleServiceHolds` and `PageServiceHolds` are refinements: both programs implement
  `CopyService`, initial states to initial states and every step to a step or a
  stutter.

Facts about numbers that need an induction (a least element, a statement that holds
up to n) are proved from the well-foundedness of `<` on the naturals (`LeastNat`, `UpTo`,
by a minimal counterexample), because the induction theorems with an operator
parameter are out of the provers' reach.

Only model-checked: liveness everywhere (`EventuallyFreed`, `RemoveEnds`, `Progress`, ...:
fairness is beyond TLAPS), and ownership on shared queues, where it does not hold.

## Not modelled

* `perfmon.c`: the perf core serialises its callbacks and nothing else of the driver
  depends on the counters; its registration is a resource of `Lifecycle`.
* `bus.c`, `compat.c`, `debugfs.c`, register layouts: registration and dumps. The
  bindings that compat causes are in `DevConfig` and `Lifecycle`.
* Show functions of `sysfs.c` and getters of libaccfg: they change nothing.
  `accel/libaccfg.c`: a fixed sequence of libaccfg calls.
* The event-log tests (`-e`) of the accel-config programs, and the comparison of the
  contents of buffers in their verification.
* The modules that export memory to user space with mmap, CPU-only timings, logging,
  measurement and the DML examples.
* What a software reset does to descriptors in flight; a second set-up of the event
  log (its software head is not reset); two administrators at once.
* Memory ordering is sequentially consistent throughout: the driver uses locks,
  atomic `llist` operations and `wmb` before the portal write.
