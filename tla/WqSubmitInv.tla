---------------------------- MODULE WqSubmitInv ----------------------------
(***************************************************************************)
(* Inductive strengthenings of the invariants of WqSubmit.                 *)
(***************************************************************************)
EXTENDS WqSubmit

\* Submitters between percpu_ref_tryget_live and percpu_ref_put.
RefPcs == {"publish", "enqueue", "put", "enqfail"}
InRef == {p \in Procs : pc[p] \in RefPcs}

\* Control threads between percpu_ref_kill and the end of their wait for
\* wq_dead.
WaitPcs == {"rdead", "qwake", "qdead"}
Waiter == \E k \in Ctl : kpc[k] \in WaitPcs

LockPcs == {"rkill", "rdead", "rrevive", "rwake", "qkill", "qwake", "qdead"}
TearPcs == {"unmap", "drain", "free_irq", "flush", "drop", "reset"}

\* wq_lock is held from the kill of wq_active to the end of the wait for
\* wq_dead, and by the unbinding thread to its end.
LockInv ==
    \A k \in Ctl :
       kpc[k] \in LockPcs \/ (k = Remover /\ kpc[k] \in TearPcs) => wqLock = k

\* The reference counts the submitters inside the gate.  A first kill completes
\* wq_dead once when the last of them leaves; a second kill of the same queue
\* makes the count negative, and whoever did it waits for ever under wq_lock.
RefInv ==
    /\ refKills \in 0 .. 2
    /\ refHolders = InRef
    /\ refKills = 0 => wqDead = 0 /\ ~Waiter
                          /\ \A k \in Ctl : kpc[k] # "rrevive"
    /\ refKills = 1 => IF Waiter
                       THEN wqDead = IF refHolders = {} THEN 1 ELSE 0
                       ELSE wqDead = 0 /\ refHolders = {}
    /\ refKills = 2 => wqDead = 0 /\ refHolders = {} /\ Waiter

\* From the end of a halt's or an unbinding's quiesce on, nobody is inside the
\* gate and nobody will open it again.
Gone == ~portal \/ kpc[Misc] \in {"unmap", "clear"} \/ kpc[Remover] \in TearPcs

GoneInv ==
    /\ Gone => \/ refKills = 2
               \/ /\ refKills = 1 /\ ~Waiter
                  /\ \A k \in Ctl : kpc[k] # "rrevive"
    /\ ~KernelWq => ~portal
    /\ kpc[Misc] = "clear" => ~portal
    /\ kpc[Remover] \in (TearPcs \ {"unmap"}) \cup {"done"} => ~portal

\* The gate of a work queue: wq_lock, wq_active and wq_dead of struct idxd_wq
\* agree with the program counters of every thread that uses them.
GateInv == LockInv /\ RefInv /\ GoneInv
\* The gate has been closed for good.
Closed ==
    \/ refKills = 2
    \/ refKills = 1 /\ ~Waiter /\ \A k \in Ctl : kpc[k] # "rrevive"

SwapPcs == {"rlock", "rkill", "rdead"}
QuiescePcs == {"qlock", "qkill", "qwake", "qdead"}
Quiescing == \E k \in Revokers \cup {Misc} : kpc[k] \in QuiescePcs
RevokeDue == revokeIntr \/ revokeWork > 0 \/ Quiescing \/ Closed

\* A handle that is not the device's will be replaced by it, or nobody will
\* submit with it any more; a worker that stores a handle the device does not
\* honour will be followed by one that asks for another, unless the two crossed.
HandleInv ==
    /\ intHandle \notin {devHandle, INVALID_INT_HANDLE} =>
          \/ RevokeDue \/ crossed
          \/ \E k \in Revokers : kpc[k] \in SwapPcs \cup {"request"}
    /\ \A k \in Revokers : kpc[k] \in SwapPcs /\ kHandle[k] # devHandle =>
          \/ RevokeDue \/ crossed
          \/ \E l \in Revokers : kpc[l] = "request"
    /\ intHandle = INVALID_INT_HANDLE => Quiescing \/ Closed

-----------------------------------------------------------------------------
(* The ownership of descriptors on a dedicated queue, whose submissions are *)
(* never refused, so that nobody runs llist_abort_desc.                    *)

AbortPcs == {"enqfail", "abort1", "abort2", "abort3", "abort4", "fail_eagain"}

IrqHas(d) == d \in irqList \/ (irqPc = "addwork" /\ irqCur = d)
OnLists(d) == d \in pending \/ d \in workList \/ IrqHas(d)
CtlHas(d) == \E k \in Ctl : d \in kList[k]

\* A control thread takes descriptors only to complete them.
CtlListInv == \A k \in Ctl : kpc[k] \notin {"inval", "drop"} => kList[k] = {}

\* A refused submission does not happen.
NeverRefused == \A p \in Procs : pc[p] \notin AbortPcs /\ flist[p] = {}

\* The interrupt thread starts a list only when it is through with the last one.
IrqInv ==
    /\ irqPc \in {"idle", "scan"} => irqList = {}
    /\ irqPc = "walk" => \A d \in irqList : status[d] # "none"
    /\ irqPc = "addwork" => irqCur \notin irqList

\* Each place excludes the ones after it.
ApartInv ==
    /\ \A p, q \in Procs : pc[p] \in HoldingPcs /\ pc[q] \in HoldingPcs /\ desc[p] = desc[q]
                              => p = q
    /\ \A p \in Procs : pc[p] \in HoldingPcs =>
          ~OnLists(desc[p]) /\ desc[p] \notin resubmit /\ ~CtlHas(desc[p])
    /\ \A d \in pending : d \notin workList /\ ~IrqHas(d) /\ d \notin resubmit /\ ~CtlHas(d)
    /\ \A d \in workList : ~IrqHas(d) /\ d \notin resubmit /\ ~CtlHas(d)
    /\ \A d \in Desc : IrqHas(d) => d \notin resubmit /\ ~CtlHas(d)
    /\ \A d \in resubmit : ~CtlHas(d)
    /\ \A k, l \in Ctl : k # l => kList[k] \cap kList[l] = {}

\* A descriptor is allocated exactly while it is in one of the places.
BusyInv ==
    \A d \in Desc :
       d \in busy <=> (\E p \in Procs : Holds(p, d)) \/ OnLists(d) \/ d \in resubmit \/ CtlHas(d)

\* A descriptor on its way to the portal, or at a running device, is on a list
\* and has no completion record yet: nobody will free it under the device.
DeviceInv ==
    /\ \A p \in Procs : pc[p] \in HoldingPcs => status[desc[p]] = "none"
    /\ \A p \in Procs : pc[p] = "enqueue" =>
          /\ OnLists(desc[p]) /\ status[desc[p]] = "none"
          /\ devState = "enabled" => desc[p] \notin inflight
          /\ \A q \in Procs : pc[q] = "enqueue" /\ desc[p] = desc[q] => p = q
    /\ devState = "enabled" =>
          \A d \in inflight : OnLists(d) /\ status[d] = "none"
    /\ devState = "enabled" /\ kpc[Remover] \in {"free_irq", "flush", "drop", "reset", "done"}
          => inflight = {}
    /\ devState # "disabled" /\ kpc[Remover] # "done" => wqState = "enabled"

\* The client of an allocated descriptor has not been told anything, and can be.
ToldInv ==
    /\ \A d \in Desc : told[d] <= 1 /\ (d \in busy => told[d] = 0)
    /\ \A d \in busy : d \in cookie \/ \E p \in Procs : pc[p] = "prepped" /\ desc[p] = d

\* Ownership on a dedicated queue: every descriptor is in one place or free, the
\* device's are on a list, and the client hears of each exactly once.
OwnInv == NeverRefused /\ IrqInv /\ ApartInv /\ BusyInv /\ DeviceInv /\ ToldInv
=============================================================================
