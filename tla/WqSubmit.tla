------------------------------ MODULE WqSubmit ------------------------------
(***************************************************************************)
(* The life of an interrupt-driven descriptor of one kernel work queue of  *)
(* the idxd driver: allocation and submission (submit.c, dma.c), the       *)
(* completion interrupt thread, the resubmission of descriptors whose      *)
(* interrupt handle was revoked and the worker that replaces the handle    *)
(* (irq.c), the quiescing of the queue by a failed revocation, by a device *)
(* halt or by the removal of the dmaengine driver, and the flush of what   *)
(* is left (device.c).                                                     *)
(*                                                                         *)
(* One action is one step between two points at which another thread, the  *)
(* interrupt thread or the device can interfere; a section under list_lock *)
(* is one action.  The payload of a descriptor is left out: what matters   *)
(* is which list, thread or device holds it and the status byte of its     *)
(* completion record.  Descriptors submitted without IDXD_OP_FLAG_RCI are  *)
(* polled by their submitter and never reach this machinery.               *)
(***************************************************************************)
EXTENDS Integers, FiniteSets

CONSTANTS
    Desc,           \* wq->descs[], one bit of wq->sbq each
    Clients,        \* threads that use the dmaengine channel
    Workers,        \* threads of idxd->wq that run resubmit work
    Revokers,       \* threads of idxd->wq that run handle-revoke work
    Misc,           \* the thread of the misc interrupt vector
    Remover,        \* the thread that unbinds the dmaengine driver
    NoDesc, NoThread,
    Dedicated,      \* wq_dedicated(wq): submissions cannot be refused
    MaxHandle,      \* bound: how often the device revokes the handle
    MayFail,        \* may handle requests and allocations fail?
    MayHalt,        \* may the device halt and ask for an FLR?
    MayRemove       \* may the driver be unbound?

Procs == Clients \cup Workers
Ctl == Revokers \cup {Misc, Remover}

ASSUME ThreadsAssumption ==
    /\ IsFiniteSet(Procs)
    /\ Clients \cap Workers = {}
    /\ Misc # Remover /\ {Misc, Remover} \cap Revokers = {}
    /\ NoThread \notin Ctl

ASSUME ParametersAssumption ==
    /\ NoDesc \notin Desc
    /\ MaxHandle \in Nat
    /\ {Dedicated, MayFail, MayHalt, MayRemove} \subseteq BOOLEAN

INVALID_INT_HANDLE == -1
Handles == 0 .. MaxHandle

VARIABLES
    busy,        \* bits set in wq->sbq: the allocated descriptors
    status,      \* desc->completion->status
    cookie,      \* descriptors with tx->cookie # 0
    told,        \* history: reports of the current transaction to its client
    pending,     \* ie->pending_llist
    workList,    \* ie->work_list
    intHandle,   \* ie->int_handle
    hwHandle,    \* desc->hw->int_handle
    pc, desc,    \* of each submitting thread
    found, flist,    \* locals of llist_abort_desc
    irqPc, irqList, irqCur,   \* idxd_wq_thread: list being walked, its cursor
    irqTorn,     \* another thread re-linked the cursor's desc->list
    irqPending, irqOn,        \* interrupt raised, handler registered
    resubmit,    \* queued idxd_resubmit work items
    refKills, refHolders,     \* percpu_ref wq_active
    wqDead, resurrect,        \* completions wq_dead and wq_resurrect
    wqLock,      \* holder of wq->wq_lock
    kpc, kHandle, kList,      \* of each control thread
    crossed,     \* history: the last request came before an older handle was stored
    revokeIntr, revokeWork,   \* revoke interrupt pending, work items queued
    wqState, wqType, devState, portal,
    inflight,    \* descriptors the device has accepted and not completed
    drains,      \* drain descriptors the device has accepted
    devHandle,   \* the interrupt handle the device now honours
    oops         \* the kernel followed a NULL or corrupted pointer

descVars == <<busy, status, cookie, told>>
listVars == <<pending, workList>>
procVars == <<pc, desc, found, flist>>
irqVars == <<irqPc, irqList, irqCur, irqTorn>>
refVars == <<refKills, refHolders, wqDead, resurrect>>
ctlVars == <<kpc, kHandle, kList, crossed, wqLock, revokeIntr, revokeWork>>
wqVars == <<wqState, wqType, devState, portal, irqOn>>
handleVars == <<intHandle, hwHandle, devHandle>>
hwVars == <<inflight, drains, irqPending>>
vars == <<descVars, listVars, procVars, irqVars, refVars, ctlVars, wqVars,
          handleVars, hwVars, resubmit, oops>>

Statuses == {"none", "done", "inval", "abort"}
ProcPcs == {"idle", "allocwait", "prepped", "submit", "tryget", "resurrect",
            "retry", "publish", "enqueue", "put", "enqfail", "abort1",
            "abort2", "abort3", "abort4", "fail_eio", "fail_enxio",
            "fail_eagain"}
CtlPcs == {"idle", "request", "rlock", "rkill", "rdead", "rrevive", "rwake",
           "rdrain", "qlock", "qkill", "qwake", "qdead", "scan", "inval",
           "unmap", "clear", "drain", "free_irq", "flush", "drop", "reset",
           "done"}

Init ==
    /\ busy = {} /\ cookie = {}
    /\ status = [d \in Desc |-> "none"]
    /\ told = [d \in Desc |-> 0]
    /\ pending = {} /\ workList = {}
    /\ intHandle = 0 /\ devHandle = 0
    /\ hwHandle = [d \in Desc |-> 0]
    /\ pc = [p \in Procs |-> "idle"]
    /\ desc = [p \in Procs |-> NoDesc]
    /\ found = [p \in Procs |-> FALSE]
    /\ flist = [p \in Procs |-> {}]
    /\ irqPc = "idle" /\ irqList = {} /\ irqCur = NoDesc
    /\ irqTorn = FALSE
    /\ irqPending = FALSE /\ irqOn = TRUE
    /\ resubmit = {}
    /\ refKills = 0 /\ refHolders = {} /\ wqDead = 0 /\ resurrect = FALSE
    /\ wqLock = NoThread
    /\ kpc = [k \in Ctl |-> "idle"]
    /\ kHandle = [k \in Ctl |-> 0] /\ crossed = FALSE
    /\ kList = [k \in Ctl |-> {}]
    /\ revokeIntr = FALSE /\ revokeWork = 0
    /\ wqState = "enabled" /\ wqType = "kernel"
    /\ devState = "enabled" /\ portal = TRUE
    /\ inflight = {} /\ drains = {}
    /\ oops = FALSE

Goto(p, l) == pc' = [pc EXCEPT ![p] = l]
CtlGoto(k, l) == kpc' = [kpc EXCEPT ![k] = l]

-----------------------------------------------------------------------------
(* The percpu_ref wq_active.  Killing drops the base reference; when the   *)
(* count reaches zero idxd_wq_ref_release completes wq_dead.               *)

RefLive == refKills = 0

RefCount(kills, holders) == 1 - kills + Cardinality(holders)

idxd_wq_ref_release(kills, holders) ==
    wqDead' = IF RefCount(kills, holders) = 0 THEN wqDead + 1 ELSE wqDead

RefGet(p) ==
    /\ refHolders' = refHolders \cup {p}
    /\ UNCHANGED <<refKills, wqDead, resurrect>>

\* Variant: percpu_ref_put is forgotten.
RefKeep(p) == UNCHANGED <<refKills, refHolders, wqDead, resurrect>>

RefPut(p) ==
    /\ refHolders' = refHolders \ {p}
    /\ idxd_wq_ref_release(refKills, refHolders \ {p})
    /\ UNCHANGED <<refKills, resurrect>>

\* percpu_ref_exit, the last thing drv_disable_wq does, has freed the counter.
RefExited == kpc[Remover] = "done"

RefKill ==
    /\ refKills' = refKills + 1
    /\ idxd_wq_ref_release(refKills + 1, refHolders)
    /\ oops' = RefExited
    /\ UNCHANGED <<refHolders, resurrect>>

\* Variant: nobody waits.
WaitNotDead == wqDead' = 0

\* wait_for_completion(&wq->wq_dead).
WaitDead == wqDead > 0 /\ wqDead' = wqDead - 1

-----------------------------------------------------------------------------
(* idxd_dma_complete_txd and its callers' common parts.                    *)

Report(d) == [told EXCEPT ![d] = IF @ < 2 THEN @ + 1 ELSE @]

\* The callback runs when the transaction has a result and a live cookie.
idxd_dma_complete_txd(d, abort, callback, free) ==
    \/ /\ status[d] = "inval" /\ ~abort
       /\ resubmit' = resubmit \cup {d}
       /\ UNCHANGED <<busy, cookie, told>>
    \/ /\ status[d] = "inval" /\ ~abort => MayFail
       /\ busy' = IF free THEN busy \ {d} ELSE busy
       /\ IF d \in cookie /\ (status[d] # "none" \/ abort)
          THEN /\ cookie' = cookie \ {d}
               /\ told' = IF callback THEN Report(d) ELSE told
          ELSE UNCHANGED <<cookie, told>>
       /\ UNCHANGED resubmit

-----------------------------------------------------------------------------
(* Each group of actions below is closed by the step that puts them        *)
(* together and states once what none of them changes.                     *)

\* No client, worker or interrupt step changes these.
ThreadFrame == UNCHANGED <<ctlVars, wqVars, intHandle, devHandle, drains>>

(* Clients: prepare (allocate) and tx_submit a descriptor.                 *)

\* Variant: the caller does not keep the descriptor.
GetDescForgets(c, d) ==
    /\ busy' = busy \cup {d}
    /\ status' = [status EXCEPT ![d] = "none"]
    /\ told' = [told EXCEPT ![d] = 0]
    /\ Goto(c, "prepped")
    /\ UNCHANGED <<cookie, desc>>

\* __get_desc: the bit is taken and the completion record cleared.
GetDesc(c, d) ==
    /\ busy' = busy \cup {d}
    /\ status' = [status EXCEPT ![d] = "none"]
    /\ told' = [told EXCEPT ![d] = 0]
    /\ desc' = [desc EXCEPT ![c] = d]
    /\ Goto(c, "prepped")
    /\ UNCHANGED cookie

Prep(c) ==
    /\ pc[c] = "idle"
    /\ wqState = "enabled" /\ devState = "enabled"
    /\ \/ \E d \in Desc \ busy : GetDesc(c, d)
       \/ busy = Desc /\ Goto(c, "allocwait") /\ UNCHANGED <<descVars, desc>>

\* A sleeping allocator gets the next free bit, whatever the device state is
\* by now, or gives up on a signal.
AllocWake(c) ==
    /\ pc[c] = "allocwait"
    /\ \/ \E d \in Desc \ busy : GetDesc(c, d)
       \/ Goto(c, "idle") /\ UNCHANGED <<descVars, desc>>

TxSubmit(c) ==
    /\ pc[c] = "prepped"
    /\ cookie' = cookie \cup {desc[c]}
    /\ Goto(c, "submit")
    /\ UNCHANGED <<busy, status, told, desc>>

\* idxd_dma_tx_submit after idxd_submit_desc failed.
TxSubmitFailed(c) ==
    /\ pc[c] \in {"fail_eio", "fail_enxio", "fail_eagain"}
    /\ busy' = busy \ {desc[c]}
    /\ told' = Report(desc[c])
    /\ desc' = [desc EXCEPT ![c] = NoDesc]
    /\ Goto(c, "idle")
    /\ UNCHANGED <<status, cookie>>

(* Workers: idxd_int_handle_resubmit_work.                                 *)

ResubmitStart(w) ==
    /\ pc[w] = "idle"
    /\ \E d \in resubmit :
          /\ resubmit' = resubmit \ {d}
          /\ status' = [status EXCEPT ![d] = "none"]
          /\ desc' = [desc EXCEPT ![w] = d]
    /\ Goto(w, "submit")
    /\ UNCHANGED <<busy, cookie, told>>

\* A killed queue is reported as an abort, a refused ENQCMDS was reported by
\* llist_abort_desc; the descriptor is freed in both cases.
ResubmitFailed(w) ==
    LET d == desc[w] IN
    /\ pc[w] \in {"fail_eio", "fail_enxio", "fail_eagain"}
    /\ IF pc[w] # "fail_eagain"
       THEN /\ status' = [status EXCEPT ![d] = "abort"]
            /\ cookie' = cookie \ {d}
            /\ told' = IF d \in cookie THEN Report(d) ELSE told
       ELSE UNCHANGED <<status, cookie, told>>
    /\ busy' = busy \ {d}
    /\ desc' = [desc EXCEPT ![w] = NoDesc]
    /\ Goto(w, "idle")
    /\ UNCHANGED resubmit

CallFrame ==
    /\ ThreadFrame
    /\ UNCHANGED <<listVars, found, flist, irqVars, irqPending, refVars,
                   hwHandle, inflight, oops>>

ClientCall(c) == (Prep(c) \/ AllocWake(c)) /\ CallFrame /\ UNCHANGED resubmit
TxStep(c) == (TxSubmit(c) \/ TxSubmitFailed(c)) /\ CallFrame /\ UNCHANGED resubmit
ResubmitStep(w) == (ResubmitStart(w) \/ ResubmitFailed(w)) /\ CallFrame

-----------------------------------------------------------------------------
(* idxd_submit_desc, run by clients and workers alike.                     *)

SubmitCheck(p) ==
    /\ pc[p] = "submit"
    /\ Goto(p, IF devState = "enabled" THEN "tryget" ELSE "fail_eio")
    /\ UNCHANGED <<desc, refVars>>

TryGet(p, dead) ==
    /\ IF RefLive
       THEN RefGet(p) /\ Goto(p, "publish")
       ELSE Goto(p, dead) /\ UNCHANGED refVars
    /\ UNCHANGED desc

SubmitTryGet(p) == pc[p] = "tryget" /\ TryGet(p, "resurrect")

WaitResurrect(p) ==
    /\ pc[p] = "resurrect" /\ resurrect
    /\ Goto(p, "retry")
    /\ UNCHANGED <<desc, refVars>>

SubmitRetry(p) == pc[p] = "retry" /\ TryGet(p, "fail_enxio")

SubmitPut(p) ==
    /\ pc[p] \in {"put", "enqfail"}
    /\ RefPut(p)
    /\ IF pc[p] = "put"
       THEN desc' = [desc EXCEPT ![p] = NoDesc] /\ Goto(p, "idle")
       ELSE UNCHANGED desc /\ Goto(p, "abort1")

GateStep(p) ==
    /\ \/ SubmitCheck(p) \/ SubmitTryGet(p) \/ WaitResurrect(p)
       \/ SubmitRetry(p) \/ SubmitPut(p)
    /\ ThreadFrame
    /\ UNCHANGED <<descVars, listVars, found, flist, irqVars, irqPending,
                   hwHandle, inflight, resubmit, oops>>

Publish(p) ==
    /\ pc[p] = "publish"
    /\ hwHandle' = [hwHandle EXCEPT ![desc[p]] = intHandle]
    /\ pending' = pending \cup {desc[p]}
    /\ Goto(p, "enqueue")
    /\ UNCHANGED inflight

\* MOVDIR64B to a dedicated queue is always accepted, idxd_enqcmds to a
\* shared one may be refused after all its retries.
Enqueue(p) ==
    /\ pc[p] = "enqueue"
    /\ \/ /\ inflight' = inflight \cup {desc[p]}
          /\ Goto(p, "put")
       \/ ~Dedicated /\ Goto(p, "enqfail") /\ UNCHANGED inflight
    /\ UNCHANGED <<hwHandle, pending>>

PortalStep(p) ==
    /\ Publish(p) \/ Enqueue(p)
    /\ ThreadFrame
    /\ UNCHANGED <<descVars, workList, desc, found, flist, irqVars, irqPending,
                   refVars, resubmit, oops>>

(* llist_abort_desc: mark, take the pending list apart under list_lock,    *)
(* complete the aborted descriptor, then the ones found completed.         *)

AbortMark(p) ==
    /\ pc[p] = "abort1"
    /\ status' = [status EXCEPT ![desc[p]] = "abort"]
    /\ Goto(p, "abort2")
    /\ UNCHANGED <<busy, cookie, told, found, flist, listVars, irqTorn,
                   resubmit, oops>>

\* Adding a descriptor to a list overwrites desc->list; irq_process_work_list
\* still has to read the one of its cursor.
Relink(ds) == irqTorn' = (irqTorn \/ (irqPc = "walk" /\ irqCur \in ds))

AbortTake(p) ==
    LET d == desc[p]
        others == pending \ {d}
        grown == workList \cup {e \in others : status[e] = "none"}
    IN
    /\ pc[p] = "abort2"
    /\ pending' = {}
    /\ found' = [found EXCEPT ![p] = d \in pending \cup workList]
    /\ flist' = [flist EXCEPT ![p] = {e \in others : status[e] # "none"}]
    /\ workList' = IF d \in pending THEN grown ELSE grown \ {d}
    /\ Relink(others)
    /\ Goto(p, "abort3")
    /\ UNCHANGED <<descVars, resubmit, oops>>

AbortFound(p) ==
    /\ pc[p] = "abort3"
    /\ IF found[p]
       THEN idxd_dma_complete_txd(desc[p], TRUE, TRUE, FALSE)
       ELSE UNCHANGED <<busy, cookie, told, resubmit>>
    /\ Goto(p, "abort4")
    /\ UNCHANGED <<status, found, flist, listVars, irqTorn, oops>>

\* The loop over flist passes `found`, not the loop variable, to
\* idxd_dma_complete_txd; found is NULL when the interrupt thread had desc.
AbortFlist(p) ==
    /\ pc[p] = "abort4"
    /\ \/ /\ flist[p] = {}
          /\ found' = [found EXCEPT ![p] = FALSE]
          /\ Goto(p, "fail_eagain")
          /\ UNCHANGED <<busy, cookie, told, flist, resubmit, oops>>
       \/ \E e \in flist[p] :
             /\ flist' = [flist EXCEPT ![p] = @ \ {e}]
             /\ oops' = ~found[p]
             /\ IF found[p]
                THEN idxd_dma_complete_txd(desc[p], TRUE, TRUE, TRUE)
                ELSE UNCHANGED <<busy, cookie, told, resubmit>>
             /\ UNCHANGED <<pc, found>>
    /\ UNCHANGED <<status, listVars, irqTorn>>

AbortStep(p) ==
    /\ AbortMark(p) \/ AbortTake(p) \/ AbortFound(p) \/ AbortFlist(p)
    /\ ThreadFrame
    /\ UNCHANGED <<desc, irqPc, irqList, irqCur, irqPending, refVars, hwHandle,
                   inflight>>

SubmitStep(p) == GateStep(p) \/ PortalStep(p) \/ AbortStep(p)

-----------------------------------------------------------------------------
(* idxd_wq_thread: the interrupt thread of the queue.                      *)

IrqStart ==
    /\ irqPc = "idle" /\ irqPending
    /\ irqPending' = FALSE
    /\ irqPc' = "scan"
    /\ UNCHANGED <<busy, cookie, told, listVars, irqList, irqCur, irqTorn,
                   resubmit, oops>>

\* irq_process_work_list, under list_lock: completed descriptors go to flist.
IrqScanWorkList ==
    /\ irqPc = "scan"
    /\ irqList' = {d \in workList : status[d] # "none"}
    /\ workList' = {d \in workList : status[d] = "none"}
    /\ irqPc' = "walk"
    /\ UNCHANGED <<busy, cookie, told, pending, irqCur, irqTorn, irqPending,
                   resubmit, oops>>

\* Variant: the client's callback is not invoked.
IrqCompleteSilently(d) ==
    idxd_dma_complete_txd(d, status[d] = "abort", FALSE, TRUE)

IrqComplete(d) == idxd_dma_complete_txd(d, status[d] = "abort", TRUE, TRUE)

\* The walk over flist completes and frees the descriptor under the cursor...
IrqWalk ==
    /\ irqPc = "walk" /\ irqCur = NoDesc
    /\ \E d \in irqList :
          /\ IrqComplete(d)
          /\ irqList' = irqList \ {d}
          /\ irqCur' = d
    /\ UNCHANGED <<listVars, irqPc, irqTorn, irqPending, oops>>

\* ... and only then reads its desc->list to find the next one.
IrqAdvance ==
    /\ irqPc = "walk" /\ irqCur # NoDesc
    /\ irqCur' = NoDesc
    /\ irqTorn' = FALSE /\ oops' = irqTorn
    /\ UNCHANGED <<busy, cookie, told, listVars, irqPc, irqList, irqPending,
                   resubmit>>

\* irq_process_pending_llist: llist_del_all, then one descriptor at a time.
IrqTakePending ==
    /\ irqPc = "walk" /\ irqCur = NoDesc /\ irqList = {}
    /\ irqList' = pending
    /\ pending' = {}
    /\ irqPc' = "examine"
    /\ UNCHANGED <<busy, cookie, told, workList, irqCur, irqTorn, irqPending,
                   resubmit, oops>>

IrqExamine ==
    /\ irqPc = "examine"
    /\ \E d \in irqList :
          /\ irqList' = irqList \ {d}
          /\ \/ /\ status[d] # "none"
                /\ IrqComplete(d)
                /\ UNCHANGED <<irqPc, irqCur>>
             \/ /\ status[d] = "none"
                /\ irqPc' = "addwork"
                /\ irqCur' = d
                /\ UNCHANGED <<busy, cookie, told, resubmit>>
    /\ UNCHANGED <<listVars, irqTorn, irqPending, oops>>

IrqAddWork ==
    /\ irqPc = "addwork"
    /\ workList' = workList \cup {irqCur}
    /\ irqPc' = "examine"
    /\ irqCur' = NoDesc
    /\ UNCHANGED <<busy, cookie, told, pending, irqList, irqTorn, irqPending,
                   resubmit, oops>>

IrqDone ==
    /\ irqPc = "examine" /\ irqList = {}
    /\ irqPc' = "idle"
    /\ UNCHANGED <<busy, cookie, told, listVars, irqList, irqCur, irqTorn,
                   irqPending, resubmit, oops>>

IrqStep ==
    /\ \/ IrqStart \/ IrqScanWorkList \/ IrqWalk \/ IrqAdvance
       \/ IrqTakePending \/ IrqExamine \/ IrqAddWork \/ IrqDone
    /\ ThreadFrame
    /\ UNCHANGED <<status, procVars, refVars, hwHandle, inflight>>

-----------------------------------------------------------------------------
(* The device, modelled from how the driver uses it.                       *)

\* A completion record is written; the interrupt of a descriptor whose
\* handle was revoked is never raised and the record says so.
DevComplete(d) ==
    /\ d \in inflight
    /\ inflight' = inflight \ {d}
    /\ drains' = {[r EXCEPT !.wait = @ \ {d}] : r \in drains}
    /\ IF hwHandle[d] = devHandle
       THEN /\ status' = [status EXCEPT ![d] = "done"]
            /\ irqPending' = irqOn
       ELSE /\ status' = [status EXCEPT ![d] = "inval"]
            /\ UNCHANGED irqPending
    /\ UNCHANGED <<devHandle, revokeIntr>>

\* A drain descriptor completes after everything submitted before it.
DevDrain ==
    /\ \E r \in drains :
          /\ r.wait = {}
          /\ drains' = drains \ {r}
          /\ irqPending' = (irqPending \/ (irqOn /\ r.handle = devHandle))
    /\ UNCHANGED <<status, inflight, devHandle, revokeIntr>>

DevRevoke ==
    /\ devHandle < MaxHandle
    /\ devHandle' = devHandle + 1
    /\ revokeIntr' = TRUE
    /\ UNCHANGED <<status, hwVars>>

\* A halted or disabled device does none of this.
DevFrame ==
    /\ devState = "enabled"
    /\ UNCHANGED <<busy, cookie, told, listVars, procVars, irqVars, refVars,
                   kpc, kHandle, kList, crossed, wqLock, revokeWork, wqVars, intHandle,
                   hwHandle, resubmit, oops>>

DevStep(d) == DevComplete(d) /\ DevFrame
DrainStep == DevDrain /\ DevFrame
RevokeEvent == DevRevoke /\ DevFrame

-----------------------------------------------------------------------------
(* __idxd_wq_quiesce, under wq_lock, by any control thread.                *)

QuiesceLock(k) ==
    /\ kpc[k] = "qlock" /\ wqLock = NoThread
    /\ wqLock' = k
    /\ resurrect' = FALSE
    /\ CtlGoto(k, "qkill")
    /\ UNCHANGED <<refKills, refHolders, wqDead, intHandle>>

QuiesceKill(k) ==
    /\ kpc[k] = "qkill"
    /\ RefKill
    /\ CtlGoto(k, "qwake")
    /\ UNCHANGED <<wqLock, intHandle>>

QuiesceWake(k) ==
    /\ kpc[k] = "qwake"
    /\ resurrect' = TRUE
    /\ CtlGoto(k, "qdead")
    /\ UNCHANGED <<refKills, refHolders, wqDead, wqLock, intHandle>>

\* The remover keeps the lock; the others release it and go on.
QuiesceDead(k) ==
    /\ kpc[k] = "qdead" /\ WaitDead
    /\ wqLock' = IF k = Remover THEN k ELSE NoThread
    /\ CtlGoto(k, CASE k \in Revokers -> "scan"
                    [] k = Remover -> "unmap"
                    [] OTHER -> IF devState = "halted" THEN "unmap" ELSE "idle")
    /\ UNCHANGED <<refKills, refHolders, resurrect, intHandle>>

(* idxd_int_handle_revoke, the part that swaps the handle under wq_lock.   *)

RevokeLock(k) ==
    /\ kpc[k] = "rlock" /\ wqLock = NoThread
    /\ wqLock' = k
    /\ resurrect' = FALSE
    /\ CtlGoto(k, "rkill")
    /\ UNCHANGED <<refKills, refHolders, wqDead, intHandle>>

RevokeKill(k) ==
    /\ kpc[k] = "rkill"
    /\ RefKill
    /\ CtlGoto(k, "rdead")
    /\ UNCHANGED <<wqLock, intHandle>>

\* Variant: the new handle is not stored.
RevokeNoSwap(k) ==
    /\ kpc[k] = "rdead" /\ WaitDead
    /\ CtlGoto(k, "rrevive")
    /\ UNCHANGED <<refKills, refHolders, resurrect, wqLock, intHandle>>

RevokeSwap(k) ==
    /\ kpc[k] = "rdead" /\ WaitDead
    /\ intHandle' = kHandle[k]
    /\ CtlGoto(k, "rrevive")
    /\ UNCHANGED <<refKills, refHolders, resurrect, wqLock>>

RevokeRevive(k) ==
    /\ kpc[k] = "rrevive"
    /\ refKills' = refKills - 1
    /\ CtlGoto(k, "rwake")
    /\ UNCHANGED <<refHolders, wqDead, resurrect, wqLock, intHandle>>

\* Variant: complete_all(wq_resurrect) is forgotten.
RevokeNoWake(k) ==
    /\ kpc[k] = "rwake"
    /\ wqLock' = NoThread
    /\ CtlGoto(k, "rdrain")
    /\ UNCHANGED <<refKills, refHolders, wqDead, resurrect, intHandle>>

RevokeWake(k) ==
    /\ kpc[k] = "rwake"
    /\ resurrect' = TRUE
    /\ wqLock' = NoThread
    /\ CtlGoto(k, "rdrain")
    /\ UNCHANGED <<refKills, refHolders, wqDead, intHandle>>

\* No control step touches these...
CtlFrame == UNCHANGED <<status, procVars, hwHandle, devHandle, inflight>>

\* ... and a step that only works the lock and the reference not these.
LockFrame ==
    /\ CtlFrame
    /\ UNCHANGED <<busy, cookie, told, listVars, irqVars, irqPending, kHandle,
                   kList, crossed, revokeIntr, revokeWork, wqVars, drains, resubmit>>

QuiesceStep(k) ==
    /\ \/ QuiesceKill(k)
       \/ (QuiesceLock(k) \/ QuiesceWake(k) \/ QuiesceDead(k)) /\ UNCHANGED oops
    /\ LockFrame

SwapStep(k) ==
    /\ \/ RevokeKill(k)
       \/ /\ RevokeLock(k) \/ RevokeSwap(k) \/ RevokeRevive(k) \/ RevokeWake(k)
          /\ UNCHANGED oops
    /\ LockFrame

-----------------------------------------------------------------------------
(* The rest of idxd_int_handle_revoke.                                     *)

KernelWq == wqState = "enabled" /\ wqType = "kernel"

RevokeStart(k) ==
    /\ kpc[k] = "idle" /\ revokeWork > 0
    /\ revokeWork' = revokeWork - 1
    /\ CtlGoto(k, IF intHandle = INVALID_INT_HANDLE THEN "idle" ELSE "request")
    /\ UNCHANGED <<busy, cookie, told, listVars, irqTorn, kHandle, kList, crossed,
                   intHandle, drains, resubmit, oops>>

\* Has the thread a handle it is going to store?
Swapping(k) == kpc[k] \in {"rlock", "rkill", "rdead"}

\* idxd_device_request_int_handle fails, or returns the handle the device
\* honours now; only a kernel queue has submitters to pause for a new one.
RevokeRequest(k) ==
    /\ kpc[k] = "request"
    /\ \/ /\ MayFail \/ devState # "enabled"
          /\ intHandle' = INVALID_INT_HANDLE
          /\ CtlGoto(k, "qlock")
          /\ UNCHANGED <<kHandle, crossed>>
       \/ /\ devState = "enabled"
          /\ kHandle' = [kHandle EXCEPT ![k] = devHandle]
          /\ crossed' = (\E l \in Revokers \ {k} : Swapping(l))
          /\ intHandle' = IF KernelWq THEN intHandle ELSE devHandle
          /\ CtlGoto(k, IF KernelWq /\ intHandle # devHandle THEN "rlock"
                                                             ELSE "idle")
    /\ UNCHANGED <<busy, cookie, told, listVars, irqTorn, kList, revokeWork,
                   drains, resubmit, oops>>

\* Variant: no drain descriptor is sent.
RevokeNoDrain(k) ==
    /\ kpc[k] = "rdrain"
    /\ CtlGoto(k, "idle")
    /\ UNCHANGED <<busy, cookie, told, listVars, irqTorn, kHandle, kList, crossed,
                   revokeWork, intHandle, drains, resubmit, oops>>

\* idxd_int_handle_revoke_drain, with wq_lock released; a shared queue may
\* refuse the descriptor.
RevokeDrain(k) ==
    /\ kpc[k] = "rdrain"
    /\ \/ drains' = drains \cup {[handle |-> intHandle, wait |-> inflight]}
       \/ ~Dedicated /\ UNCHANGED drains
    /\ oops' = ~portal
    /\ CtlGoto(k, "idle")
    /\ UNCHANGED <<busy, cookie, told, listVars, irqTorn, kHandle, kList, crossed,
                   revokeWork, intHandle, resubmit>>

\* idxd_abort_invalid_int_handle_descs: under list_lock, then one by one.
InvalScan(k) ==
    LET all == workList \cup pending
        bad == {d \in all : status[d] = "inval"}
    IN
    /\ kpc[k] = "scan"
    /\ pending' = {}
    /\ workList' = all \ bad
    /\ kList' = [kList EXCEPT ![k] = bad]
    /\ Relink(pending)
    /\ CtlGoto(k, "inval")
    /\ UNCHANGED <<busy, cookie, told, kHandle, crossed, revokeWork, intHandle, drains,
                   resubmit, oops>>

InvalAbort(k) ==
    /\ kpc[k] = "inval"
    /\ \/ /\ kList[k] = {}
          /\ CtlGoto(k, "idle")
          /\ UNCHANGED <<busy, cookie, told, kList, resubmit>>
       \/ \E d \in kList[k] :
             /\ idxd_dma_complete_txd(d, TRUE, TRUE, TRUE)
             /\ kList' = [kList EXCEPT ![k] = @ \ {d}]
             /\ UNCHANGED kpc
    /\ UNCHANGED <<listVars, irqTorn, kHandle, crossed, revokeWork, intHandle, drains,
                   oops>>

RevokeWorkStep(k) ==
    /\ \/ RevokeStart(k) \/ RevokeRequest(k) \/ RevokeDrain(k)
       \/ InvalScan(k) \/ InvalAbort(k)
    /\ CtlFrame
    /\ UNCHANGED <<irqPc, irqList, irqCur, irqPending, refVars, wqLock,
                   revokeIntr, wqVars>>

RevokeStep(k) == QuiesceStep(k) \/ SwapStep(k) \/ RevokeWorkStep(k)

-----------------------------------------------------------------------------
(* idxd_misc_thread: a revoked handle is left to a work item; a halt that  *)
(* needs an FLR quiesces the queue and clears its state.                   *)

MiscRevoke ==
    /\ kpc[Misc] = "idle" /\ revokeIntr
    /\ revokeIntr' = FALSE
    /\ \/ revokeWork' = revokeWork + 1 /\ UNCHANGED kpc
       \/ /\ MayFail
          /\ CtlGoto(Misc, IF KernelWq THEN "qlock" ELSE "idle")
          /\ UNCHANGED revokeWork
    /\ UNCHANGED <<wqState, wqType, devState, portal>>

MiscHalt ==
    /\ MayHalt
    /\ kpc[Misc] = "idle" /\ devState = "enabled"
    /\ devState' = "halted"
    /\ CtlGoto(Misc, IF KernelWq THEN "qlock" ELSE "unmap")
    /\ UNCHANGED <<revokeIntr, revokeWork, wqState, wqType, portal>>

\* idxd_wqs_unmap_portal.
MiscUnmap ==
    /\ kpc[Misc] = "unmap"
    /\ portal' = FALSE
    /\ CtlGoto(Misc, "clear")
    /\ UNCHANGED <<revokeIntr, revokeWork, wqState, wqType, devState>>

\* idxd_device_clear_state, for this queue and then the device.
MiscClear ==
    /\ kpc[Misc] = "clear" /\ wqLock = NoThread
    /\ wqState' = "disabled" /\ wqType' = "none"
    /\ devState' = "disabled"
    /\ CtlGoto(Misc, "idle")
    /\ UNCHANGED <<revokeIntr, revokeWork, portal>>

MiscFrame ==
    /\ CtlFrame
    /\ UNCHANGED <<busy, cookie, told, listVars, irqVars, hwVars, refVars,
                   kHandle, kList, crossed, wqLock, irqOn, intHandle, resubmit, oops>>

MiscStep ==
    \/ QuiesceStep(Misc)
    \/ (MiscRevoke \/ MiscUnmap \/ MiscClear) /\ MiscFrame
HaltEvent == MiscHalt /\ MiscFrame

-----------------------------------------------------------------------------
(* idxd_dmaengine_drv_remove and drv_disable_wq; the quiesce comes first.  *)

RemoveStart ==
    /\ MayRemove
    /\ kpc[Remover] = "idle"
    /\ CtlGoto(Remover, "qlock")
    /\ UNCHANGED <<busy, cookie, told, listVars, kList, resubmit, wqLock,
                   wqState, wqType, portal, irqOn, irqPending, intHandle>>

RemoveUnmap ==
    /\ kpc[Remover] = "unmap"
    /\ portal' = FALSE
    /\ CtlGoto(Remover, "drain")
    /\ UNCHANGED <<busy, cookie, told, listVars, kList, resubmit, wqLock,
                   wqState, wqType, irqOn, irqPending, intHandle>>

\* idxd_wq_drain: the command ends when the queue is empty, at once when the
\* queue is not enabled or the device has halted.
RemoveDrain ==
    /\ kpc[Remover] = "drain"
    /\ wqState = "enabled" /\ devState = "enabled" =>
          inflight = {} /\ drains = {}
    /\ CtlGoto(Remover, "free_irq")
    /\ UNCHANGED <<busy, cookie, told, listVars, kList, resubmit, wqLock,
                   wqState, wqType, portal, irqOn, irqPending, intHandle>>

\* idxd_wq_free_irq; free_irq waits for a running handler.
RemoveFreeIrq ==
    /\ kpc[Remover] = "free_irq"
    /\ IF wqType = "kernel"
       THEN /\ irqPc = "idle"
            /\ irqOn' = FALSE /\ irqPending' = FALSE
            /\ CtlGoto(Remover, "flush")
       ELSE CtlGoto(Remover, "reset") /\ UNCHANGED <<irqOn, irqPending>>
    /\ UNCHANGED <<busy, cookie, told, listVars, kList, resubmit, wqLock,
                   wqState, wqType, portal, intHandle>>

\* Variants: the lists are not emptied; the work list is forgotten.
FlushScanCopies ==
    /\ kpc[Remover] = "flush"
    /\ kList' = [kList EXCEPT ![Remover] = pending \cup workList]
    /\ CtlGoto(Remover, "drop")
    /\ UNCHANGED <<busy, cookie, told, listVars, resubmit, wqLock, wqState,
                   wqType, portal, irqOn, irqPending, intHandle>>

FlushScanLoses ==
    /\ kpc[Remover] = "flush"
    /\ kList' = [kList EXCEPT ![Remover] = pending]
    /\ pending' = {} /\ workList' = {}
    /\ CtlGoto(Remover, "drop")
    /\ UNCHANGED <<busy, cookie, told, resubmit, wqLock, wqState, wqType,
                   portal, irqOn, irqPending, intHandle>>

\* idxd_flush_pending_descs: everything left is dropped without a callback.
FlushScan ==
    /\ kpc[Remover] = "flush"
    /\ kList' = [kList EXCEPT ![Remover] = pending \cup workList]
    /\ pending' = {} /\ workList' = {}
    /\ CtlGoto(Remover, "drop")
    /\ UNCHANGED <<busy, cookie, told, resubmit, wqLock, wqState, wqType,
                   portal, irqOn, irqPending, intHandle>>

FlushDrop ==
    /\ kpc[Remover] = "drop"
    /\ \/ /\ kList[Remover] = {}
          /\ intHandle' = INVALID_INT_HANDLE
          /\ CtlGoto(Remover, "reset")
          /\ UNCHANGED <<busy, cookie, told, kList, resubmit>>
       \/ \E d \in kList[Remover] :
             /\ idxd_dma_complete_txd(d, status[d] = "none", FALSE, TRUE)
             /\ kList' = [kList EXCEPT ![Remover] = @ \ {d}]
             /\ UNCHANGED <<kpc, intHandle>>
    /\ UNCHANGED <<listVars, wqLock, wqState, wqType, portal, irqOn,
                   irqPending>>

\* idxd_wq_reset, percpu_ref_exit (RefExited) and the end of the removal.
RemoveReset ==
    /\ kpc[Remover] = "reset"
    /\ wqState' = "disabled" /\ wqType' = "none"
    /\ wqLock' = NoThread
    /\ CtlGoto(Remover, "done")
    /\ UNCHANGED <<busy, cookie, told, listVars, kList, resubmit, portal,
                   irqOn, irqPending, intHandle>>

RemoveFrame ==
    /\ CtlFrame
    /\ UNCHANGED <<irqVars, refVars, kHandle, crossed, revokeIntr, revokeWork,
                   devState, drains, oops>>

RemoveStep ==
    \/ QuiesceStep(Remover)
    \/ /\ \/ RemoveUnmap \/ RemoveDrain \/ RemoveFreeIrq
          \/ FlushScan \/ FlushDrop \/ RemoveReset
       /\ RemoveFrame
UnbindEvent == RemoveStart /\ RemoveFrame

-----------------------------------------------------------------------------
ClientStep(c) == TxStep(c) \/ SubmitStep(c)
WorkerStep(w) == ResubmitStep(w) \/ SubmitStep(w)

Next ==
    /\ ~oops
    /\ \/ \E c \in Clients : ClientCall(c) \/ ClientStep(c)
       \/ \E w \in Workers : WorkerStep(w)
       \/ \E k \in Revokers : RevokeStep(k)
       \/ \E d \in Desc : DevStep(d)
       \/ IrqStep \/ MiscStep \/ RemoveStep \/ DrainStep
       \/ RevokeEvent \/ HaltEvent \/ UnbindEvent

Spec == Init /\ [][Next]_vars

\* Threads that can run do run, and the device completes what it accepted;
\* nothing makes a client call the driver, the handle be revoked, the device
\* halt or the driver be unbound.
Fairness ==
    /\ \A c \in Clients : WF_vars(~oops /\ ClientStep(c))
    /\ \A w \in Workers : WF_vars(~oops /\ WorkerStep(w))
    /\ \A k \in Revokers : WF_vars(~oops /\ RevokeStep(k))
    /\ \A d \in Desc : WF_vars(~oops /\ DevStep(d))
    /\ WF_vars(~oops /\ IrqStep) /\ WF_vars(~oops /\ DrainStep)
    /\ WF_vars(~oops /\ MiscStep) /\ WF_vars(~oops /\ RemoveStep)

FairSpec == Spec /\ Fairness

-----------------------------------------------------------------------------
DescTypeOK ==
    /\ busy \in SUBSET Desc /\ cookie \in SUBSET Desc
    /\ pending \in SUBSET Desc /\ workList \in SUBSET Desc
    /\ resubmit \in SUBSET Desc /\ inflight \in SUBSET Desc
    /\ status \in [Desc -> Statuses]
    /\ told \in [Desc -> 0 .. 2]
    /\ hwHandle \in [Desc -> Handles \cup {INVALID_INT_HANDLE}]

ThreadTypeOK ==
    /\ pc \in [Procs -> ProcPcs]
    /\ desc \in [Procs -> Desc \cup {NoDesc}]
    /\ found \in [Procs -> BOOLEAN]
    /\ flist \in [Procs -> SUBSET Desc]
    /\ irqPc \in {"idle", "scan", "walk", "examine", "addwork"}
    /\ irqList \in SUBSET Desc /\ irqCur \in Desc \cup {NoDesc}
    /\ \A p \in Procs : pc[p] \notin {"idle", "allocwait"} => desc[p] \in Desc
    /\ irqPc = "addwork" => irqCur \in Desc

CtlTypeOK ==
    /\ kpc \in [Ctl -> CtlPcs]
    /\ kHandle \in [Ctl -> Handles]
    /\ kList \in [Ctl -> SUBSET Desc]
    /\ wqLock \in Ctl \cup {NoThread}
    /\ revokeWork \in Nat
    /\ intHandle \in Handles \cup {INVALID_INT_HANDLE} /\ devHandle \in Handles

QueueTypeOK ==
    /\ refKills \in Int /\ refHolders \in SUBSET Procs
    /\ wqDead \in Nat
    /\ wqState \in {"enabled", "disabled"} /\ wqType \in {"kernel", "none"}
    /\ devState \in {"enabled", "halted", "disabled"}
    /\ drains \in SUBSET [handle : Handles \cup {INVALID_INT_HANDLE},
                          wait : SUBSET Desc]

FlagTypeOK ==
    /\ irqTorn \in BOOLEAN /\ irqPending \in BOOLEAN /\ irqOn \in BOOLEAN
    /\ resurrect \in BOOLEAN /\ revokeIntr \in BOOLEAN
    /\ portal \in BOOLEAN /\ oops \in BOOLEAN /\ crossed \in BOOLEAN

\* Every variable has its type, and a thread inside a submission has a
\* descriptor (struct idxd_wq, idxd_desc, idxd_irq_entry).
TypeOK ==
    DescTypeOK /\ ThreadTypeOK /\ CtlTypeOK /\ QueueTypeOK /\ FlagTypeOK

(* Where a descriptor can be.  A thread holds the one it has allocated until *)
(* it is published on the pending list, and again once it has taken it back. *)

HoldingPcs == {"prepped", "submit", "tryget", "resurrect", "retry", "publish",
               "abort3", "abort4", "fail_eio", "fail_enxio", "fail_eagain"}
Holds(p, d) == pc[p] \in HoldingPcs /\ desc[p] = d
Held == {d \in Desc : \E p \in Procs : Holds(p, d)}
IrqHeld == irqList \cup (IF irqPc = "addwork" THEN {irqCur} ELSE {})
CtlHeld == {d \in Desc : \E k \in Ctl : d \in kList[k]}
AbortHeld == {d \in Desc : \E p \in Procs : d \in flist[p]}
Queued == pending \cup workList \cup IrqHeld
Located == Held \cup Queued \cup resubmit \cup CtlHeld \cup AbortHeld

\* A descriptor is in at most one place: no two threads work on it, it is on
\* one list only, and a thread that holds it has left no trace of it on a list
\* the interrupt thread, the revoke worker or the flush will complete and free
\* (idxd_submit_desc, llist_abort_desc, irq_process_work_list,
\* irq_process_pending_llist, idxd_flush_pending_descs).
ExclusiveOwner ==
    /\ \A p, q \in Procs, d \in Desc : Holds(p, d) /\ Holds(q, d) => p = q
    /\ \A k, l \in Ctl : k # l => kList[k] \cap kList[l] = {}
    /\ Held \cap (Queued \cup resubmit \cup CtlHeld) = {}
    /\ pending \cap (workList \cup IrqHeld \cup resubmit \cup CtlHeld) = {}
    /\ workList \cap (IrqHeld \cup resubmit \cup CtlHeld) = {}
    /\ IrqHeld \cap (resubmit \cup CtlHeld) = {}
    /\ resubmit \cap CtlHeld = {}
    /\ irqPc = "addwork" => irqCur \notin irqList

\* The allocator's bit is set exactly while somebody is still going to free the
\* descriptor: none leaks and none is freed early (idxd_free_desc and all its
\* callers); and a running device only works on descriptors the interrupt
\* thread can find on a list.
AllocatedIffLocated ==
    /\ busy = Located
    /\ devState = "enabled" => inflight \subseteq Queued

\* A client hears at most once of a transaction, by an error from tx_submit or
\* by a callback, and its descriptor goes back to the allocator only after it
\* has been told, unless idxd_flush_pending_descs drops it (idxd_dma_tx_submit,
\* idxd_dma_complete_txd, idxd_int_handle_resubmit_work).
FreedAfterReport ==
    [][/\ \A d \in Desc : told'[d] <= 1
       /\ \A d \in busy \ busy' : told'[d] = 1 \/ kpc[Remover] = "drop"]_vars

\* The interrupt handle is only replaced while no submitter is between reading
\* it and writing the descriptor to the portal (idxd_int_handle_revoke, "Wait
\* for all submitters quiesce before we change interrupt handle").
HandleSwapSafe ==
    [][intHandle' \notin {intHandle, INVALID_INT_HANDLE}
          => \A p \in Procs : pc[p] # "enqueue"]_vars

\* No submitter is between taking wq_active and writing to the portal when the
\* portal is unmapped (idxd_wqs_unmap_portal, drv_disable_wq after the quiesce).
PortalMapped == \A p \in Procs : pc[p] \in {"publish", "enqueue"} => portal

\* Once every revocation has been dealt with, the queue submits with the handle
\* the device honours, however often it was revoked and however many workers
\* deal with it (idxd_int_handle_revoke).  Nothing keeps two workers apart
\* between their request for a handle and the lock under which they store it:
\* when the last request was made while another worker still had a handle to
\* store, the older one may be stored last, and then it stays.
HandleCurrent ==
    /\ ~revokeIntr /\ revokeWork = 0 /\ intHandle # INVALID_INT_HANDLE
    /\ \A k \in Revokers : kpc[k] = "idle"
    /\ kpc[Misc] = "idle" /\ RefLive
    => intHandle = devHandle \/ crossed

\* Every descriptor put on the pending list is eventually completed and freed,
\* whatever interrupt handles are revoked meanwhile, as long as the driver is not
\* unbound (idxd_wq_thread, idxd_int_handle_revoke_drain,
\* idxd_int_handle_resubmit_work).
EventuallyFreed ==
    \A d \in Desc : d \in pending ~> (d \notin busy \/ kpc[Remover] # "idle")

\* No submitter waits for wq_resurrect for ever while the driver is bound
\* (idxd_submit_desc).
NoStuckSubmitter ==
    \A p \in Procs : pc[p] = "resurrect" ~> (pc[p] # "resurrect" \/ kpc[Remover] # "idle")

\* Unbinding the driver ends, with no descriptor left on its lists, or the kernel
\* has oopsed meanwhile (idxd_dmaengine_drv_remove, idxd_wq_flush_descs).  After a
\* halt that has quiesced the queue it need not: this is of runs without a halt.
RemoveEnds ==
    kpc[Remover] = "qlock" ~>
        (oops \/ (kpc[Remover] = "done" /\ pending \cup workList = {}))

=============================================================================
