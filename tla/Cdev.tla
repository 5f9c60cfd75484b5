-------------------------------- MODULE Cdev --------------------------------
(***************************************************************************)
(* The character device of one user queue (cdev.c) and the event log       *)
(* through which the device reports completion records it could not write  *)
(* (irq.c, device.c).                                                      *)
(*                                                                         *)
(* Actors: processes that open and close files; the miscellaneous          *)
(* interrupt thread, which reads the log; the fault works it queues, which *)
(* write the record for the user; the administrator, who binds and unbinds *)
(* the queue.  wq_lock is held over an open and over the last step of a    *)
(* close only, evl->lock while the log is read or marked, uc_lock while a  *)
(* context is looked up: the steps below are what these locks make atomic. *)
(* Works run in the order in which they are queued: the workqueue has one  *)
(* active work per CPU, and the interrupt thread queues from one CPU.      *)
(***************************************************************************)
EXTENDS Integers, Sequences, FiniteSets, FiniteSetsExt

CONSTANTS
    NumFiles,       \* each is opened once
    NumPasids,
    Batchers,       \* the files whose process submits a batch
    EvlSize,        \* evl->size
    MaxBinds        \* bound on the bindings of the queue

ASSUME CdevParameters == {NumFiles, NumPasids, EvlSize, MaxBinds} \subseteq Nat \ {0}

Files == 1 .. NumFiles
Pasids == 1 .. NumPasids
Slots == 0 .. EvlSize - 1
None == 0

VARIABLES
    ded,        \* is the queue dedicated?
    proc,       \* the process of each file
    bound,      \* is the user driver bound?
    binds,      \* how often it was
    stuck,      \* the file whose failed open holds wq_lock for ever
    ids,        \* file_ida
    clients,    \* wq->client_count
    hwPasid,    \* the PASID of a dedicated queue
    file,       \* the stage of each file
    fid,        \* ctx->id
    pasid,      \* ctx->pasid
    warned,     \* files that found their PASID in the xarray
    xa,         \* wq->upasid_xa
    own,        \* the process each PASID belongs to (external)
    log, bmap,  \* the event log and the entries to ignore
    hwTail, hwHead, intPending, cause,   \* EVLSTATUS and INTCAUSE
    swHead,     \* evl->head
    irq,        \* the interrupt thread: at, and its h and t
    works,      \* the fault works on wq->wq
    draining,   \* the files that wait in drain_workqueue
    rec,        \* what became of the completion record of each file
    sub,        \* and of that of the descriptor in a batch
    batchFail,  \* evl->batch_fail
    wrong,      \* stages of contexts used for another process
    busy,       \* was the queue unbound under a client?
    oops        \* the kernel followed a dead pointer

fileVars == <<file, fid, pasid, warned, ids, clients, hwPasid, stuck>>
evlVars == <<log, bmap, hwTail, hwHead, swHead, intPending, cause, irq>>
workVars == <<works, rec, sub, batchFail, wrong>>
bindVars == <<bound, binds, busy>>
constVars == <<ded, proc>>
vars == <<fileVars, evlVars, workVars, bindVars, constVars, xa, own, draining, oops>>

Idle == [at |-> "idle", h |-> 0, t |-> 0]
NoEntry == [file |-> None, pasid |-> None, kind |-> "zero", rcr |-> FALSE]

Init ==
    /\ ded \in BOOLEAN
    /\ proc \in {p \in [Files -> Files] : p[1] = 1}
    /\ bound = TRUE /\ binds = 1 /\ busy = FALSE /\ stuck = None /\ oops = FALSE
    /\ ids = {} /\ clients = 0 /\ hwPasid = None
    /\ file = [f \in Files |-> "new"] /\ fid = [f \in Files |-> None]
    /\ pasid = [f \in Files |-> None] /\ warned = {}
    /\ xa = [p \in Pasids |-> None] /\ own = [p \in Pasids |-> None]
    /\ log = [i \in Slots |-> NoEntry] /\ bmap = {} /\ hwTail = 0 /\ hwHead = 0 /\ swHead = 0
    /\ intPending = FALSE /\ cause = FALSE /\ irq = Idle
    /\ works = <<>> /\ draining = {}
    /\ rec = [f \in Files |-> "none"] /\ sub = [f \in Files |-> "none"]
    /\ batchFail = FALSE /\ wrong = {}

-----------------------------------------------------------------------------
(* idxd_cdev_open.                                                         *)

\* Stages in which a context exists, in which its SVA binding does, and in
\* which its file device is registered.
Live == {"open", "drained", "marked", "flushed", "unbound"}
SvaBound == Live \ {"unbound"}

PasidsFor(f) ==
    IF \E p \in Pasids : own[p] = proc[f] THEN {p \in Pasids : own[p] = proc[f]}
    ELSE {p \in Pasids : own[p] = None}

\* ida_alloc
NewId == Min((1 .. NumFiles + 1) \ ids)

\* Does sysfs still have the name made of that id?
NameTaken == \E g \in Files : file[g] = "open" /\ fid[g] = NewId

\* What is left of the PASID when the binding f goes: the process may have
\* been its last user.
Disown(f) ==
    LET shared == \E g \in Files \ {f} : file[g] \in SvaBound /\ proc[g] = proc[f]
    IN  own' \in {own} \cup
            (IF shared THEN {} ELSE {[p \in Pasids |-> IF own[p] = proc[f] THEN None ELSE own[p]]})

\* Refused or undone before the file device exists.  failed_set_pasid has
\* already moved the queue to the PASID.
OpenFails(f) ==
    /\ file[f] = "new" /\ bound /\ stuck = None
    /\ file' = [file EXCEPT ![f] = "failed"]
    /\ \/ UNCHANGED hwPasid
       \/ ded /\ clients = 0 /\ \E p \in PasidsFor(f) : hwPasid' = p
    /\ UNCHANGED <<fid, pasid, warned, ids, clients, stuck, evlVars, workVars,
                   bindVars, constVars, xa, own, draining, oops>>

Admits == ~ded \/ clients = 0

\* The context gets a PASID, and a place in the xarray unless another file of
\* the process has it.
GetsContext(f, p) ==
    /\ own' = [own EXCEPT ![p] = proc[f]]
    /\ pasid' = [pasid EXCEPT ![f] = p]
    /\ xa' = IF xa[p] = None THEN [xa EXCEPT ![p] = f] ELSE xa
    /\ warned' = IF xa[p] = None THEN warned ELSE warned \cup {f}

\* No id: everything is undone, but the call returns 0 and the file keeps a
\* pointer to the freed context.
OpenNoId(f) ==
    /\ file[f] = "new" /\ bound /\ stuck = None /\ Admits
    /\ \E p \in PasidsFor(f) : hwPasid' = IF ded THEN p ELSE hwPasid
    /\ file' = [file EXCEPT ![f] = "dangling"]
    /\ UNCHANGED <<fid, pasid, warned, ids, clients, stuck, evlVars, workVars,
                   bindVars, constVars, xa, own, draining, oops>>

\* dev_set_name or device_add fails: for want of memory, or because a file
\* device of that name exists.  put_device runs the release callback, which
\* does all that a close does and then waits for wq_lock, which the open holds.
OpenAddFails(f) ==
    /\ file[f] = "new" /\ bound /\ stuck = None /\ Admits
    /\ \E p \in PasidsFor(f) : GetsContext(f, p)
    /\ file' = [file EXCEPT ![f] = "drained"] /\ stuck' = f
    /\ hwPasid' = IF ded THEN None ELSE hwPasid
    /\ UNCHANGED <<fid, ids, clients, evlVars, workVars,
                   bindVars, constVars, draining, oops>>

OpenSucceeds(f) ==
    /\ file[f] = "new" /\ bound /\ stuck = None /\ Admits
    /\ ~NameTaken
    /\ \E p \in PasidsFor(f) :
          /\ GetsContext(f, p)
          /\ hwPasid' = IF ded THEN p ELSE hwPasid
    /\ fid' = [fid EXCEPT ![f] = NewId] /\ ids' = ids \cup {NewId}
    /\ file' = [file EXCEPT ![f] = "open"]
    /\ clients' = clients + 1
    /\ UNCHANGED <<stuck, evlVars, workVars, bindVars, constVars, draining, oops>>

-----------------------------------------------------------------------------
(* idxd_cdev_release and idxd_file_dev_release.                            *)

Stage(f, from, to) == file[f] = from /\ file' = [file EXCEPT ![f] = to]

\* Closing a file whose open lost its context.
CloseDangling(f) ==
    /\ Stage(f, "dangling", "lost")
    /\ oops' = TRUE
    /\ UNCHANGED <<fid, pasid, warned, ids, clients, hwPasid, stuck, evlVars, workVars,
                   bindVars, constVars, xa, own, draining>>

\* device_unregister; the id is given back; the PASID is drained, or a
\* dedicated queue loses it.  An unbound queue has lost its flags and passes
\* for shared.
Unregister(f) ==
    /\ Stage(f, "open", "drained")
    /\ ids' = ids \ {fid[f]}
    /\ hwPasid' = IF ded /\ bound THEN None ELSE hwPasid
    /\ UNCHANGED <<fid, pasid, warned, clients, stuck, evlVars, workVars,
                   bindVars, constVars, xa, own, draining, oops>>

\* The slots between the head and the tail.
Unread == {i \in Slots : (i - swHead) % EvlSize < (hwTail - swHead) % EvlSize}

Marks(i, f) == log[i].pasid = pasid[f]

\* idxd_cdev_evl_drain_pasid, up to drain_workqueue.
MarkEvl(f) ==
    /\ Stage(f, "drained", "marked") /\ irq.at # "locked"
    /\ bmap' = bmap \cup {i \in Unread : Marks(i, f)}
    /\ draining' = draining \cup {f}
    /\ oops' = ~bound
    /\ UNCHANGED <<fid, pasid, warned, ids, clients, hwPasid, stuck, log, hwTail, hwHead, swHead,
                   intPending, cause, irq, workVars, bindVars, constVars, xa, own>>

\* Variant: the workqueue is not drained.
FlushedAny == TRUE

Flushed == works = <<>>

DrainWorkqueue(f) ==
    /\ Stage(f, "marked", "flushed") /\ Flushed
    /\ draining' = draining \ {f}
    /\ UNCHANGED <<fid, pasid, warned, ids, clients, hwPasid, stuck, evlVars, workVars,
                   bindVars, constVars, xa, own, oops>>

\* iommu_sva_unbind_device
SvaUnbind(f) ==
    /\ Stage(f, "flushed", "unbound")
    /\ Disown(f)
    /\ UNCHANGED <<fid, pasid, warned, ids, clients, hwPasid, stuck, evlVars, workVars,
                   bindVars, constVars, xa, draining, oops>>

\* Variant: the context stays in the xarray.
XaKept(f) == xa
XaRemoved(f) == [p \in Pasids |-> IF p = pasid[f] /\ xa[p] = f THEN None ELSE xa[p]]

\* idxd_xa_pasid_remove, and the context is freed; the model forgets what
\* became of the process's records.
PasidRemove(f) ==
    /\ Stage(f, "unbound", "removed")
    /\ xa' = XaRemoved(f)
    /\ fid' = [fid EXCEPT ![f] = None] /\ pasid' = [pasid EXCEPT ![f] = None]
    /\ warned' = warned \ {f}
    /\ rec' = [rec EXCEPT ![f] = "none"] /\ sub' = [sub EXCEPT ![f] = "none"]
    /\ UNCHANGED <<ids, clients, hwPasid, stuck, evlVars, works, batchFail, wrong,
                   bindVars, constVars, own, draining, oops>>

\* idxd_wq_put under wq_lock.
PutWq(f) ==
    /\ Stage(f, "removed", "closed") /\ stuck = None
    /\ clients' = clients - 1
    /\ UNCHANGED <<fid, pasid, warned, ids, hwPasid, stuck, evlVars, workVars,
                   bindVars, constVars, xa, own, draining, oops>>

-----------------------------------------------------------------------------
(* The event log.                                                          *)

\* The batch of f is running, and a record of it was logged.
InBatch(f) == file[f] = "open" /\ sub[f] # "none" /\ rec[f] = "none"

\* The device could not write a completion record: of a descriptor, of one
\* in a batch, or of the batch, for which one need not have been asked
\* (rcr).  It logs while there is room.  batch_id is
\* free again when the batch was logged or its queue or PASID drained.
DevLog(f, kind) ==
    /\ file[f] = "open" /\ bound
    /\ ded => hwPasid = pasid[f]
    /\ rec[f] = "none" /\ (sub[f] # "none") = (kind = "batch")
    /\ (f \in Batchers) = (kind # "xlat")
    /\ kind = "bxlat" => \A g \in Files : ~InBatch(g)
    /\ (hwTail + 1) % EvlSize # hwHead
    /\ \E rcr \in {TRUE, kind # "batch"} :
          log' = [log EXCEPT ![hwTail] = [file |-> f, pasid |-> pasid[f], kind |-> kind, rcr |-> rcr]]
    /\ hwTail' = (hwTail + 1) % EvlSize
    /\ intPending' = TRUE /\ cause' = (cause \/ ~intPending)
    /\ rec' = [rec EXCEPT ![f] = IF kind = "bxlat" THEN @ ELSE "pending"]
    /\ sub' = [sub EXCEPT ![f] = IF kind = "bxlat" THEN "pending" ELSE @]
    /\ UNCHANGED <<bmap, hwHead, swHead, irq, works, batchFail, wrong, fileVars,
                   bindVars, constVars, xa, own, draining, oops>>

\* idxd_misc_thread: the cause is read and acknowledged.
MiscThread ==
    /\ irq.at = "idle" /\ cause
    /\ cause' = FALSE /\ irq' = [irq EXCEPT !.at = "evl"]
    /\ UNCHANGED <<log, bmap, hwTail, hwHead, swHead, intPending, fileVars, workVars,
                   bindVars, constVars, xa, own, draining, oops>>

\* Variant: the pending bit is never cleared.
EvlClearDropped ==
    /\ irq.at = "evl"
    /\ irq' = [irq EXCEPT !.at = "cleared"]
    /\ UNCHANGED <<intPending, log, bmap, hwTail, hwHead, swHead, cause, fileVars,
                   workVars, bindVars, constVars, xa, own, draining, oops>>

\* process_evl_entries: the pending bit is cleared before the tail is read.
EvlClear ==
    /\ irq.at = "evl"
    /\ irq' = [irq EXCEPT !.at = "cleared"] /\ intPending' = FALSE
    /\ UNCHANGED <<log, bmap, hwTail, hwHead, swHead, cause, fileVars, workVars,
                   bindVars, constVars, xa, own, draining, oops>>

EvlTail ==
    /\ irq.at = "cleared"
    /\ irq' = [at |-> "locked", h |-> swHead, t |-> hwTail]
    /\ UNCHANGED <<log, bmap, hwTail, hwHead, swHead, intPending, cause, fileVars,
                   workVars, bindVars, constVars, xa, own, draining, oops>>

\* The outcome of an entry that does not become a work.
Outcome(e, why) ==
    /\ rec' = IF e.kind \in {"xlat", "batch"} THEN [rec EXCEPT ![e.file] = why] ELSE rec
    /\ sub' = IF e.kind = "bxlat" THEN [sub EXCEPT ![e.file] = why] ELSE sub

NextSlot(h) == (h + 1) % EvlSize

\* process_evl_entry: ignored; dropped for want of memory; refused by a workqueue
\* that drains; or queued on the workqueue, which an unbound queue has not.  A
\* slot behind the head is not read again; the model forgets it.
EvlEntry ==
    /\ irq.at = "locked" /\ irq.h # irq.t
    /\ LET e == log[irq.h] IN
       /\ bmap' = bmap \ {irq.h}
       /\ log' = [log EXCEPT ![irq.h] = NoEntry]
       /\ irq' = [irq EXCEPT !.h = NextSlot(@)]
       /\ \/ irq.h \in bmap /\ Outcome(e, "marked") /\ UNCHANGED <<works, oops>>
          \/ irq.h \notin bmap /\ e.kind = "zero" /\ UNCHANGED <<rec, sub, works, oops>>
          \/ /\ irq.h \notin bmap /\ e.kind # "zero"
             /\ \/ Outcome(e, "dropped") /\ UNCHANGED <<works, oops>>
                \/ draining # {} /\ Outcome(e, "refused") /\ UNCHANGED <<works, oops>>
                \/ /\ draining = {}
                   /\ works' = IF bound THEN Append(works, e) ELSE works
                   /\ oops' = ~bound
                   /\ UNCHANGED <<rec, sub>>
    /\ UNCHANGED <<hwTail, hwHead, swHead, intPending, cause, batchFail, wrong,
                   fileVars, bindVars, constVars, xa, own, draining>>

\* The head is written back.
EvlDone ==
    /\ irq.at = "locked" /\ irq.h = irq.t
    /\ irq' = Idle /\ swHead' = irq.h /\ hwHead' = irq.h
    /\ UNCHANGED <<log, bmap, hwTail, intPending, cause, fileVars, workVars,
                   bindVars, constVars, xa, own, draining, oops>>

\* evl->batch_fail after a work.
BatchFail(e, copied) ==
    CASE e.kind = "bxlat" -> ~copied
      [] e.kind = "batch" -> FALSE
      [] OTHER -> batchFail

\* copy_size is not 0: the record was asked for, or its batch failed.
Wanted(e) == e.kind # "batch" \/ e.rcr \/ batchFail

\* idxd_evl_fault_work with idxd_copy_cr: the context is found by the PASID
\* of the entry; the copy may fault.
FaultWork ==
    /\ works # <<>>
    /\ LET e == Head(works) ctx == xa[e.pasid] IN
       \E copied \in {FALSE} \cup {ctx # None /\ Wanted(e)} :
          /\ Outcome(e, CASE ~Wanted(e)            -> "unasked"
                          [] Wanted(e) /\ ~copied  -> IF ctx = None THEN "noctx" ELSE "efault"
                          [] copied -> IF e.kind = "batch" /\ batchFail THEN "fail" ELSE "ok")
          /\ batchFail' = BatchFail(e, copied)
          /\ wrong' = IF copied /\ proc[ctx] # proc[e.file]
                      THEN wrong \cup {file[ctx]} ELSE wrong
    /\ works' = Tail(works)
    /\ UNCHANGED <<fileVars, evlVars, bindVars, constVars, xa, own, draining, oops>>

-----------------------------------------------------------------------------
(* Binding.                                                                *)

Clients == {f \in Files : file[f] \in Live \cup {"dangling"}}

\* idxd_user_drv_remove: the ids are forgotten, the queue drained and reset,
\* the workqueue destroyed; clients are only warned about.
UserDrvRemove ==
    /\ bound /\ stuck = None /\ works = <<>> /\ draining = {}
    /\ bound' = FALSE
    /\ ids' = {} /\ clients' = 0 /\ hwPasid' = None
    /\ busy' = (busy \/ Clients # {} \/ \E f \in Files : file[f] = "removed")
    /\ UNCHANGED <<binds, file, fid, pasid, warned, stuck, evlVars, workVars, constVars,
                   xa, own, draining, oops>>

\* idxd_user_drv_probe
UserDrvProbe ==
    /\ ~bound /\ stuck = None /\ binds < MaxBinds
    /\ bound' = TRUE /\ binds' = binds + 1
    /\ UNCHANGED <<busy, fileVars, evlVars, workVars, constVars, xa, own, draining, oops>>

-----------------------------------------------------------------------------
Close(f) == \/ Unregister(f) \/ CloseDangling(f) \/ MarkEvl(f)
            \/ DrainWorkqueue(f) \/ SvaUnbind(f) \/ PasidRemove(f) \/ PutWq(f)

Interrupt == MiscThread \/ EvlClear \/ EvlTail \/ EvlEntry \/ EvlDone

\* Nothing is said of a kernel that followed a dead pointer.
Next ==
    /\ ~oops
    /\ \/ \E f \in Files : \/ OpenFails(f) \/ OpenNoId(f) \/ OpenAddFails(f)
                           \/ OpenSucceeds(f) \/ Close(f)
                           \/ \E kind \in {"xlat", "bxlat", "batch"} : DevLog(f, kind)
       \/ Interrupt \/ FaultWork
       \/ UserDrvRemove \/ UserDrvProbe

Spec == Init /\ [][Next]_vars

-----------------------------------------------------------------------------
Stages == Live \cup {"new", "failed", "dangling", "removed", "closed", "lost"}
Outcomes == {"none", "pending", "ok", "fail", "efault", "noctx", "marked", "dropped", "refused", "unasked"}

\* Every variable has its type; the heads and the tail stay inside the ring.
TypeOK ==
    /\ ded \in BOOLEAN /\ proc \in [Files -> Files]
    /\ bound \in BOOLEAN /\ binds \in 1 .. MaxBinds /\ busy \in BOOLEAN
    /\ stuck \in Files \cup {None} /\ oops \in BOOLEAN
    /\ ids \subseteq 1 .. NumFiles + 1 /\ clients \in -NumFiles .. NumFiles
    /\ hwPasid \in Pasids \cup {None} /\ file \in [Files -> Stages]
    /\ fid \in [Files -> 0 .. NumFiles + 1] /\ pasid \in [Files -> Pasids \cup {None}]
    /\ warned \subseteq Files /\ xa \in [Pasids -> Files \cup {None}]
    /\ own \in [Pasids -> Files \cup {None}]
    /\ {hwTail, hwHead, swHead, irq.h, irq.t} \cup bmap \subseteq Slots
    /\ rec \in [Files -> Outcomes] /\ sub \in [Files -> Outcomes]
    /\ draining \subseteq Files /\ wrong \subseteq Stages
    /\ Len(works) <= 2 * NumFiles

Alone(f) == \A g \in Files \ {f} : proc[g] # proc[f]

\* An entry of the log is never left unread with nobody about to read it:
\* there is an interrupt cause, or the thread has yet to read the tail.  Held
\* by clearing int_pending before the tail is read.
EvlServiced ==
    hwTail # swHead =>
        \/ cause \/ irq.at \in {"evl", "cleared"}
        \/ irq.at = "locked" /\ irq.t = hwTail

\* Has a close of the file, or its failed open, come to drain_workqueue?
HasDrained(f) == file[f] \in {"marked", "flushed", "unbound", "removed", "closed"}

\* What a close does to the records of others.  idxd_cdev_evl_drain_pasid
\* marks only entries of its PASID: a process with one file, open and never
\* refused a place in the xarray, has no entry marked, and its context is
\* found.  Its record can be lost in one way: queue_work refuses the work
\* while drain_workqueue of another file's close waits.  (Files of one process
\* share a PASID, and there a close does mark the others' entries.)
RecordsReach ==
    \A f \in Files : file[f] = "open" /\ Alone(f) /\ f \notin warned /\ ~busy
        => /\ {rec[f], sub[f]} \cap {"marked", "noctx"} = {}
           /\ "refused" \in {rec[f], sub[f]} => \E g \in Files \ {f} : HasDrained(g)

\* The xarray never leads a fault work to a freed context.
CtxLive == \A p \in Pasids : xa[p] # None => file[xa[p]] \in Live

\* A record is written to another process's memory only when the PASID was
\* handed on between iommu_sva_unbind_device and idxd_xa_pasid_remove.
MisdirectedOnlyInWindow == wrong \subseteq {"unbound"}

\* A batch is not reported successful, nor passed over because no record was
\* asked for, when the copy of the record of one of its descriptors failed:
\* the flag passes from that work to the batch's.
BatchTold == \A f \in Files : rec[f] \in {"ok", "unasked"} => sub[f] \notin {"efault", "noctx"}

\* The kernel follows a dead pointer only after a queue was unbound under a
\* client, or the close of a file whose open lost its context.
OopsExplained == oops => busy \/ \E f \in Files : file[f] = "lost"

\* The files that count as clients.
Users == {f \in Files \ {stuck} : file[f] \in Live \cup {"removed"}}

\* While no queue is unbound under a client, client_count counts the files
\* whose release has not ended, less one whose open failed, and a dedicated
\* queue runs with the PASID of its only client.
ClientsCount ==
    ~busy => /\ clients = Cardinality(Users)
             /\ \A f \in Files : ded /\ file[f] = "open" =>
                    clients = 1 /\ hwPasid = pasid[f]

\* Where the records of faulted descriptors go: to their own process, to no
\* other, and not past a batch (idxd_evl_fault_work, idxd_cdev_evl_drain_pasid).
RecordsRight == RecordsReach /\ MisdirectedOnlyInWindow /\ BatchTold

\* Files, contexts and PASIDs: types, no way to a freed context, clients
\* counted, and crashes only where the code is known to run into them
\* (idxd_cdev_open, idxd_file_dev_release, idxd_user_drv_remove).
ContextsSound == TypeOK /\ CtxLive /\ ClientsCount /\ OopsExplained

-----------------------------------------------------------------------------
(* The inductive strengthening of the properties above.                    *)

Kinds == {"xlat", "bxlat", "batch"}
Entry == [file : Files, pasid : Pasids, kind : Kinds, rcr : BOOLEAN]
Used(i) == log[i].kind # "zero"

\* Where a slot is, counted from the head.
Span(i) == (i - swHead) % EvlSize

\* Used slots lie between the head, or the cursor of the thread, and the tail;
\* only they are marked; and a pending bit means that the thread is to come.
EvlInv ==
    /\ log \in [Slots -> Entry \cup {NoEntry}] /\ works \in Seq(Entry)
    /\ irq \in [at : {"idle", "evl", "cleared", "locked"}, h : Slots, t : Slots]
    /\ EvlServiced /\ hwHead = swHead
    /\ intPending => cause \/ irq.at = "evl"
    /\ irq.at = "locked" => Span(irq.h) <= Span(irq.t) /\ Span(irq.t) <= Span(hwTail)
    /\ \A i \in Slots : Used(i) => /\ Span(i) < Span(hwTail)
                                   /\ irq.at = "locked" => Span(irq.h) <= Span(i)
    /\ \A i \in bmap : Used(i)

Gone == {f \in Files : file[f] = "closed"}
OpenFiles == {f \in Files : file[f] = "open"}

\* A context is in the array under its PASID unless it found the place taken,
\* and the PASID is its process's until the SVA binding goes.
CtxInv ==
    /\ CtxLive
    /\ \A p \in Pasids : xa[p] # None => pasid[xa[p]] = p
    /\ \A f \in Files : file[f] \in Live => pasid[f] \in Pasids /\ (f \notin warned => xa[pasid[f]] = f)
    /\ \A f \in Files : file[f] \in SvaBound => own[pasid[f]] = proc[f]

\* Names, clients, and what an unbinding does to them.
CountInv ==
    /\ ids \subseteq {fid[f] : f \in OpenFiles}
    /\ \A f, g \in OpenFiles : fid[f] = fid[g] => f = g
    /\ ~busy => \A f \in OpenFiles : fid[f] \in ids
    /\ ~bound /\ ~busy => Users = {}
    /\ clients <= Cardinality(Users) /\ -Cardinality(Gone) <= clients
    /\ stuck \notin OpenFiles /\ (stuck # None => bound)
    /\ ClientsCount /\ OopsExplained

\* What is known of an entry, in the log or on the workqueue.
EntrySound(e) ==
    /\ e.kind = "xlat" <=> e.file \notin Batchers
    /\ file[e.file] = "open" => IF e.kind = "bxlat" THEN sub[e.file] # "none" ELSE rec[e.file] # "none"

SameEntry(d, e) == d.file = e.file /\ d.kind = e.kind

\* An entry of the log that is not marked is of a process that has not drained
\* the log, under its PASID; one is marked by another file of the process only.
LogSound ==
    \A i \in Slots : Used(i) =>
        /\ EntrySound(log[i]) /\ file[log[i].file] \in Live \cup {"removed", "closed"}
        /\ i \notin bmap => file[log[i].file] \in {"open", "drained"}
        /\ i \in bmap => ~(file[log[i].file] = "open" /\ Alone(log[i].file))
        /\ file[log[i].file] \in {"open", "drained"} => log[i].pasid = pasid[log[i].file]

\* A work is of a process that has not waited for the workqueue.
WorksSound ==
    \A k \in DOMAIN works :
        /\ EntrySound(works[k]) /\ file[works[k].file] \in {"open", "drained", "marked"}
        /\ works[k].pasid = pasid[works[k].file]

\* Every process has an entry of a kind at most once.
EntriesDistinct ==
    /\ \A i, j \in Slots : Used(i) /\ Used(j) /\ SameEntry(log[i], log[j]) => i = j
    /\ \A k, l \in DOMAIN works : SameEntry(works[k], works[l]) => k = l
    /\ \A i \in Slots, k \in DOMAIN works : Used(i) => ~SameEntry(log[i], works[k])

RecordInv ==
    /\ \A f \in Files : file[f] = "new" => rec[f] = "none" /\ sub[f] = "none"
    /\ LogSound /\ WorksSound /\ EntriesDistinct /\ MisdirectedOnlyInWindow
    /\ \A f \in OpenFiles : Alone(f) /\ f \notin warned => {rec[f], sub[f]} \cap {"marked", "noctx"} = {}

\* The entries to come, in order: the works, then the log from the cursor on.
Cursor == IF irq.at = "locked" THEN irq.h ELSE swHead
Left == (hwTail - Cursor) % EvlSize
Coming ==
    [k \in 1 .. Len(works) + Left |->
        IF k <= Len(works) THEN works[k] ELSE log[(Cursor + k - Len(works) - 1) % EvlSize]]

Batchwise(k) == Coming[k].kind \in {"bxlat", "batch"}
SameBatch(k, l) == Batchwise(k) /\ Batchwise(l) /\ Coming[k].file = Coming[l].file
CopyFailed(f) == sub[f] \in {"efault", "noctx"}

\* Between the entries of a batch there is none of another; and once the copy
\* of its descriptor's record failed the flag is up, with no entry of another
\* batch before its own.
BatchInv ==
    /\ \A f \in Files \ Batchers : sub[f] = "none"
    /\ \A f, g \in Files : InBatch(f) /\ InBatch(g) => f = g
    /\ \A k, l \in DOMAIN Coming : k < l /\ SameBatch(k, l) =>
          /\ Coming[k].kind = "bxlat" /\ Coming[l].kind = "batch"
          /\ \A j \in k + 1 .. l - 1 : ~Batchwise(j)
    /\ \A k \in DOMAIN Coming : Coming[k].kind = "bxlat" =>
          /\ rec[Coming[k].file] \notin {"ok", "unasked"}
          /\ InBatch(Coming[k].file) => \A j \in k + 1 .. Len(works) + Left : ~Batchwise(j)
    /\ \A f \in Files : InBatch(f) /\ CopyFailed(f) =>
          batchFail /\ \A j \in DOMAIN Coming : ~Batchwise(j)
    /\ \A k \in DOMAIN Coming : Coming[k].kind = "batch" /\ CopyFailed(Coming[k].file) =>
          batchFail /\ \A j \in 1 .. k - 1 : ~Batchwise(j)
    /\ BatchTold

\* Only a file that waits in drain_workqueue makes it refuse works.
RefusedInv ==
    /\ \A g \in draining : file[g] = "marked"
    /\ \A f \in OpenFiles : "refused" \in {rec[f], sub[f]} => \E g \in Files \ {f} : HasDrained(g)

CdevInv == TypeOK /\ EvlInv /\ CtxInv /\ CountInv /\ RecordInv /\ RefusedInv /\ BatchInv
=============================================================================
