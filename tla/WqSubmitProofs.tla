--------------------------- MODULE WqSubmitProofs ---------------------------
(* Proofs about WqSubmit for any number of descriptors, threads and         *)
(* revocations: types, the gate in front of the portal, and who owns a      *)
(* descriptor of a dedicated queue.                                         *)
EXTENDS WqSubmitInv, FiniteSetTheorems, TLAPS

(* Types. *)

LEMMA InitType == Init => TypeOK
<1> SUFFICES ASSUME Init PROVE TypeOK
  OBVIOUS
<1> USE ParametersAssumption DEF Init, Handles, INVALID_INT_HANDLE
<1>1. DescTypeOK
  BY DEF DescTypeOK, Statuses
<1>2. ThreadTypeOK
  BY DEF ThreadTypeOK, ProcPcs
<1>3. CtlTypeOK
  BY DEF CtlTypeOK, CtlPcs
<1>4. QueueTypeOK
  BY DEF QueueTypeOK
<1>5. FlagTypeOK
  BY Zenon DEF FlagTypeOK
<1> QED BY <1>1, <1>2, <1>3, <1>4, <1>5 DEF TypeOK

LEMMA StutterType == TypeOK /\ UNCHANGED vars => TypeOK'
  BY DEF TypeOK, DescTypeOK, ThreadTypeOK, CtlTypeOK, QueueTypeOK, FlagTypeOK,
         vars, descVars, listVars, procVars, irqVars, refVars, ctlVars, wqVars,
         handleVars, hwVars

LEMMA CallType ==
  ASSUME TypeOK, NEW p \in Procs, ClientCall(p) \/ TxStep(p) \/ ResubmitStep(p)
  PROVE  TypeOK'
<1> USE DEF TypeOK
<1>0. CtlTypeOK' /\ QueueTypeOK' /\ FlagTypeOK'
  BY DEF ClientCall, TxStep, ResubmitStep, CallFrame, ThreadFrame, CtlTypeOK,
         QueueTypeOK, FlagTypeOK, listVars, irqVars, refVars, ctlVars, wqVars
<1> USE DEF CallFrame, ThreadFrame, DescTypeOK, ThreadTypeOK, Statuses, ProcPcs,
            descVars, listVars, irqVars, Goto
<1>1. CASE ClientCall(p)
  BY <1>0, <1>1 DEF ClientCall, Prep, AllocWake, GetDesc
<1>2. CASE TxStep(p)
  BY <1>0, <1>2 DEF TxStep, TxSubmit, TxSubmitFailed, Report
<1>3. CASE ResubmitStep(p)
  BY <1>0, <1>3 DEF ResubmitStep, ResubmitStart, ResubmitFailed, Report
<1> QED BY <1>1, <1>2, <1>3

LEMMA SubmitType ==
  ASSUME TypeOK, NEW p \in Procs, SubmitStep(p)
  PROVE  TypeOK'
<1> USE DEF TypeOK
<1>0. CtlTypeOK'
  BY DEF SubmitStep, GateStep, PortalStep, AbortStep, ThreadFrame, CtlTypeOK,
         ctlVars
<1> USE DEF ThreadFrame, descVars, listVars, irqVars, refVars, ctlVars, wqVars
<1>1. CASE GateStep(p)
  <2>1. DescTypeOK'
    BY <1>1 DEF GateStep, DescTypeOK
  <2>2. ThreadTypeOK'
    BY <1>1 DEF GateStep, ThreadTypeOK, ProcPcs, Goto, SubmitCheck, SubmitTryGet,
                TryGet, WaitResurrect, SubmitRetry, SubmitPut
  <2>3. QueueTypeOK'
    BY <1>1 DEF GateStep, QueueTypeOK, SubmitCheck, SubmitTryGet, TryGet, RefGet,
                WaitResurrect, SubmitRetry, SubmitPut, RefPut, idxd_wq_ref_release
  <2>4. FlagTypeOK'
    BY <1>1, Zenon DEF GateStep, FlagTypeOK, SubmitCheck, SubmitTryGet, TryGet,
       RefGet, WaitResurrect, SubmitRetry, SubmitPut, RefPut
  <2> QED BY <1>0, <2>1, <2>2, <2>3, <2>4
<1>2. CASE PortalStep(p)
  <2>1. QueueTypeOK' /\ FlagTypeOK'
    BY <1>2 DEF PortalStep, QueueTypeOK, FlagTypeOK
  <2> QED
    BY <1>0, <1>2, <2>1 DEF PortalStep, Publish, Enqueue, Goto, DescTypeOK,
       ThreadTypeOK, CtlTypeOK, ProcPcs
<1>3. CASE AbortStep(p)
  <2>1. QueueTypeOK'
    BY <1>3 DEF AbortStep, QueueTypeOK
  <2>2. FlagTypeOK'
    BY <1>3, Zenon DEF AbortStep, AbortMark, AbortTake, AbortFound, AbortFlist,
       Relink, FlagTypeOK
  <2> USE DEF AbortStep, DescTypeOK, ThreadTypeOK, Statuses, ProcPcs, Goto
  <2>3. CASE AbortMark(p)
    BY <1>0, <1>3, <2>1, <2>2, <2>3 DEF AbortMark
  <2>4. CASE AbortTake(p)
    BY <1>0, <1>3, <2>1, <2>2, <2>4 DEF AbortTake, Relink
  <2>5. CASE AbortFound(p)
    BY <1>0, <1>3, <2>1, <2>2, <2>5 DEF AbortFound, idxd_dma_complete_txd, Report
  <2>6. CASE AbortFlist(p)
    <3>1. DescTypeOK'
      BY <1>3, <2>6 DEF AbortFlist, idxd_dma_complete_txd, Report
    <3>2. CASE flist[p] = {}
      BY <1>0, <1>3, <2>1, <2>2, <2>6, <3>1, <3>2 DEF AbortFlist
    <3>3. CASE flist[p] # {}
      BY <1>0, <1>3, <2>1, <2>2, <2>6, <3>1, <3>3, ZenonT(60) DEF AbortFlist
    <3> QED BY <3>2, <3>3
  <2> QED BY <1>3, <2>3, <2>4, <2>5, <2>6 DEF AbortStep
<1> QED BY <1>1, <1>2, <1>3 DEF SubmitStep

LEMMA IrqType ==
  ASSUME TypeOK, IrqStep
  PROVE  TypeOK'
<1> USE DEF TypeOK, IrqStep, ThreadFrame, listVars, procVars, refVars, ctlVars,
            wqVars
<1>1. CtlTypeOK' /\ QueueTypeOK'
  BY DEF CtlTypeOK, QueueTypeOK
<1>2. FlagTypeOK'
  BY Zenon DEF FlagTypeOK, IrqStart, IrqScanWorkList, IrqWalk, IrqAdvance,
     IrqTakePending, IrqExamine, IrqAddWork, IrqDone
<1> USE DEF DescTypeOK, ThreadTypeOK, Statuses
<1>3. CASE IrqStart \/ IrqScanWorkList \/ IrqAdvance \/ IrqTakePending
             \/ IrqAddWork \/ IrqDone
  BY <1>1, <1>2, <1>3 DEF IrqStart, IrqScanWorkList, IrqAdvance,
     IrqTakePending, IrqAddWork, IrqDone
<1>4. CASE IrqWalk
  BY <1>1, <1>2, <1>4 DEF IrqWalk, IrqComplete, idxd_dma_complete_txd, Report
<1>5. CASE IrqExamine
  BY <1>1, <1>2, <1>5 DEF IrqExamine, IrqComplete, idxd_dma_complete_txd, Report
<1> QED BY <1>3, <1>4, <1>5

LEMMA DeviceType ==
  ASSUME TypeOK, (\E d \in Desc : DevStep(d)) \/ DrainStep \/ RevokeEvent
  PROVE  TypeOK'
<1> USE DEF TypeOK, DevFrame, listVars, procVars, irqVars, refVars, wqVars, hwVars
<1>1. CASE \E d \in Desc : DevStep(d)
  <2> PICK d \in Desc : DevStep(d)
    BY <1>1
  <2>1. DescTypeOK' /\ ThreadTypeOK' /\ CtlTypeOK'
    BY DEF DevStep, DevComplete, DescTypeOK, ThreadTypeOK, CtlTypeOK, Statuses
  <2>2. QueueTypeOK'
    BY DEF DevStep, DevComplete, QueueTypeOK
  <2>3. FlagTypeOK'
    BY Zenon DEF DevStep, DevComplete, FlagTypeOK
  <2> QED BY <2>1, <2>2, <2>3
<1>2. CASE DrainStep
  <2>1. DescTypeOK' /\ ThreadTypeOK' /\ CtlTypeOK' /\ QueueTypeOK'
    BY <1>2 DEF DrainStep, DevDrain, DescTypeOK, ThreadTypeOK, CtlTypeOK,
                QueueTypeOK
  <2>2. FlagTypeOK'
    BY <1>2, Zenon DEF DrainStep, DevDrain, FlagTypeOK
  <2> QED BY <2>1, <2>2
<1>3. CASE RevokeEvent
  <2>1. DescTypeOK' /\ ThreadTypeOK' /\ QueueTypeOK'
    BY <1>3 DEF RevokeEvent, DevRevoke, DescTypeOK, ThreadTypeOK, QueueTypeOK
  <2>2. CtlTypeOK'
    BY <1>3, ParametersAssumption
       DEF RevokeEvent, DevRevoke, CtlTypeOK, Handles, INVALID_INT_HANDLE
  <2>3. FlagTypeOK'
    BY <1>3, Zenon DEF RevokeEvent, DevRevoke, FlagTypeOK
  <2> QED BY <2>1, <2>2, <2>3
<1> QED BY <1>1, <1>2, <1>3

LEMMA ExitType == RefExited \in BOOLEAN
  BY DEF RefExited

LEMMA LockType ==
  ASSUME TypeOK, NEW k \in Ctl, QuiesceStep(k) \/ SwapStep(k)
  PROVE  TypeOK'
<1> USE DEF TypeOK, QuiesceStep, SwapStep, LockFrame, CtlFrame, listVars, procVars,
            irqVars, wqVars
<1>1. DescTypeOK' /\ ThreadTypeOK'
  BY DEF DescTypeOK, ThreadTypeOK
<1>2. CtlTypeOK'
  BY DEF CtlTypeOK, CtlPcs, CtlGoto, QuiesceLock, QuiesceKill, QuiesceWake,
         QuiesceDead, RevokeLock, RevokeKill, RevokeSwap, RevokeRevive, RevokeWake
<1>3. QueueTypeOK'
  BY DEF QueueTypeOK, QuiesceLock, QuiesceKill, QuiesceWake, QuiesceDead,
         RevokeLock, RevokeKill, RevokeSwap, RevokeRevive, RevokeWake, RefKill,
         idxd_wq_ref_release, WaitDead
<1>4. FlagTypeOK'
  <2>1. oops' \in {oops, RefExited}
    BY Zenon DEF QuiesceKill, RevokeKill, RefKill
  <2>2. resurrect' \in BOOLEAN /\ oops' \in BOOLEAN
    <3>1. resurrect' \in BOOLEAN
      BY Zenon DEF FlagTypeOK, QuiesceLock, QuiesceKill, QuiesceWake, QuiesceDead,
         RevokeLock, RevokeKill, RevokeSwap, RevokeRevive, RevokeWake, RefKill
    <3>2. oops' \in BOOLEAN
      BY <2>1, ExitType, Zenon DEF FlagTypeOK
    <3> QED BY <3>1, <3>2
  <2> QED BY <2>2, Zenon DEF FlagTypeOK
<1> QED BY <1>1, <1>2, <1>3, <1>4

LEMMA RevokeType ==
  ASSUME TypeOK, NEW k \in Ctl, RevokeWorkStep(k)
  PROVE  TypeOK'
<1> USE DEF TypeOK, RevokeWorkStep, CtlFrame, listVars, procVars, refVars, wqVars
<1>1. ThreadTypeOK'
  BY DEF ThreadTypeOK
<1>2. FlagTypeOK'
  <2>1. (\E l \in Revokers \ {k} : Swapping(l)) \in BOOLEAN
    OBVIOUS
  <2> DEFINE others == \E l \in Revokers \ {k} : Swapping(l)
  <2>2. crossed' \in {crossed, others}
    BY Zenon DEF RevokeStart, RevokeRequest, RevokeDrain, InvalScan, InvalAbort
  <2>3. others \in BOOLEAN
    BY <2>1
  <2>4. crossed' \in BOOLEAN
    <3> HIDE DEF others
    <3> QED BY <2>2, <2>3, Zenon DEF FlagTypeOK
  <2>5. /\ irqTorn' \in BOOLEAN /\ irqPending' \in BOOLEAN /\ irqOn' \in BOOLEAN
        /\ resurrect' \in BOOLEAN /\ revokeIntr' \in BOOLEAN
        /\ portal' \in BOOLEAN /\ oops' \in BOOLEAN
    BY Zenon DEF FlagTypeOK, RevokeStart, RevokeRequest, RevokeDrain, InvalScan,
       Relink, InvalAbort
  <2> QED BY <2>4, <2>5, Zenon DEF FlagTypeOK
<1>3. DescTypeOK'
  <2>1. CASE ~InvalAbort(k)
    BY <2>1 DEF DescTypeOK, RevokeStart, RevokeRequest, RevokeDrain, InvalScan
  <2>2. CASE InvalAbort(k)
    BY <2>2 DEF DescTypeOK, InvalAbort, CtlTypeOK, idxd_dma_complete_txd, Report
  <2> QED BY <2>1, <2>2
<1>4. CtlTypeOK'
  <2> USE DEF DescTypeOK, CtlTypeOK, CtlPcs, CtlGoto
  <2>1. CASE RevokeStart(k)
    BY <2>1 DEF RevokeStart
  <2>2. CASE RevokeRequest(k)
    BY <2>2 DEF RevokeRequest
  <2>3. CASE RevokeDrain(k)
    BY <2>3 DEF RevokeDrain
  <2>4. CASE InvalScan(k)
    BY <2>4 DEF InvalScan
  <2>5. CASE InvalAbort(k)
    BY <2>5 DEF InvalAbort
  <2> QED BY <2>1, <2>2, <2>3, <2>4, <2>5
<1>5. QueueTypeOK'
  <2>1. drains' \in SUBSET [handle : Handles \cup {INVALID_INT_HANDLE},
                            wait : SUBSET Desc]
    <3>1. CASE RevokeDrain(k)
      BY <3>1 DEF RevokeDrain, QueueTypeOK, CtlTypeOK, DescTypeOK
    <3>2. CASE ~RevokeDrain(k)
      BY <3>2 DEF RevokeStart, RevokeRequest, InvalScan, InvalAbort, QueueTypeOK
    <3> QED BY <3>1, <3>2
  <2> QED BY <2>1 DEF QueueTypeOK
<1> QED BY <1>1, <1>2, <1>3, <1>4, <1>5

LEMMA MiscType ==
  ASSUME TypeOK, MiscRevoke \/ MiscHalt \/ MiscUnmap \/ MiscClear, MiscFrame
  PROVE  TypeOK'
<1> USE DEF TypeOK, MiscFrame, CtlFrame, listVars, procVars, irqVars, hwVars,
            refVars, MiscRevoke, MiscHalt, MiscUnmap, MiscClear
<1>1. DescTypeOK' /\ ThreadTypeOK' /\ QueueTypeOK'
  BY DEF DescTypeOK, ThreadTypeOK, QueueTypeOK
<1>2. CtlTypeOK'
  BY DEF CtlTypeOK, CtlPcs, CtlGoto, Ctl
<1>3. FlagTypeOK'
  BY Zenon DEF FlagTypeOK
<1> QED BY <1>1, <1>2, <1>3

LEMMA RemoveType ==
  ASSUME TypeOK, RemoveFrame,
         RemoveStart \/ RemoveUnmap \/ RemoveDrain \/ RemoveFreeIrq
           \/ FlushScan \/ FlushDrop \/ RemoveReset
  PROVE  TypeOK'
<1> USE DEF TypeOK, RemoveFrame, CtlFrame, listVars, procVars, irqVars, refVars,
            RemoveStart, RemoveUnmap, RemoveDrain, RemoveFreeIrq, FlushScan,
            FlushDrop, RemoveReset
<1>1. ThreadTypeOK' /\ QueueTypeOK'
  BY DEF ThreadTypeOK, QueueTypeOK
<1>2. DescTypeOK'
  <2>1. CASE FlushDrop
    <3>1. Remover \in Ctl
      BY DEF Ctl
    <3>2. CASE kList[Remover] = {}
      BY <2>1, <3>2 DEF DescTypeOK
    <3>3. CASE kList[Remover] # {}
      BY <2>1, <3>1, <3>3 DEF DescTypeOK, CtlTypeOK, idxd_dma_complete_txd, Report
    <3> QED BY <3>2, <3>3
  <2>2. CASE ~FlushDrop
    BY <2>2 DEF DescTypeOK
  <2> QED BY <2>1, <2>2
<1>3. CtlTypeOK'
  BY ZenonT(60) DEF CtlTypeOK, DescTypeOK, CtlPcs, CtlGoto, Ctl
<1>4. FlagTypeOK'
  BY Zenon DEF FlagTypeOK
<1> QED BY <1>1, <1>2, <1>3, <1>4

\* Every reachable state is well typed, whatever the number of descriptors and
\* threads and whatever the device does (all the structures of WqSubmit).
THEOREM TypeCorrect == Spec => []TypeOK
<1>1. TypeOK /\ [Next]_vars => TypeOK'
  <2> SUFFICES ASSUME TypeOK, [Next]_vars PROVE TypeOK'
    OBVIOUS
  <2>1. ASSUME NEW c \in Clients, ClientCall(c) \/ ClientStep(c) PROVE TypeOK'
    BY <2>1, CallType, SubmitType DEF ClientStep, Procs
  <2>2. ASSUME NEW w \in Workers, WorkerStep(w) PROVE TypeOK'
    BY <2>2, CallType, SubmitType DEF WorkerStep, Procs
  <2>3. ASSUME NEW k \in Revokers, RevokeStep(k) PROVE TypeOK'
    BY <2>3, LockType, RevokeType DEF RevokeStep, Ctl
  <2>4. CASE MiscStep \/ HaltEvent
    BY <2>4, LockType, MiscType DEF MiscStep, HaltEvent, Ctl
  <2>5. CASE RemoveStep \/ UnbindEvent
    BY <2>5, LockType, RemoveType DEF RemoveStep, UnbindEvent, Ctl
  <2> QED
    BY <2>1, <2>2, <2>3, <2>4, <2>5, IrqType, DeviceType, StutterType DEF Next
<1> QED BY InitType, <1>1, PTL DEF Spec

-----------------------------------------------------------------------------
(* The gate of a work queue. *)

LEMMA HolderCount ==
  ASSUME NEW S \in SUBSET Procs
  PROVE  Cardinality(S) \in Nat /\ (Cardinality(S) = 0 <=> S = {})
<1>1. IsFiniteSet(S)
  BY ThreadsAssumption, FS_Subset
<1> QED BY <1>1, FS_CardinalityType, FS_EmptySet

LEMMA InitGate == Init => GateInv
  BY DEF Init, GateInv, LockInv, RefInv, GoneInv, Gone, Waiter, InRef, RefPcs,
         WaitPcs, LockPcs, TearPcs, KernelWq, Ctl

\* A step that leaves the gate alone.
LEMMA GateFrame ==
  ASSUME GateInv, InRef' = InRef,
         UNCHANGED <<kpc, wqLock, refKills, refHolders, wqDead, portal, wqState,
                     wqType>>
  PROVE  GateInv'
  BY DEF GateInv, LockInv, RefInv, GoneInv, Gone, Waiter, KernelWq

\* A control thread moves outside the critical section.
LEMMA GateMove ==
  ASSUME TypeOK, GateInv, UNCHANGED <<pc, wqLock, refKills, refHolders, wqDead, portal,
                              wqState, wqType>>,
         NEW k \in Ctl, NEW l \in CtlPcs, kpc' = [kpc EXCEPT ![k] = l],
         kpc[k] \notin LockPcs \cup TearPcs \cup {"clear"},
         l \notin LockPcs \cup TearPcs \cup {"clear", "done"}
  PROVE  GateInv'
<1> USE DEF TypeOK, CtlTypeOK
<1>1. LockInv'
  BY DEF GateInv, LockInv
<1>2. Waiter' = Waiter /\ (\A j \in Ctl : kpc'[j] = "rrevive" <=> kpc[j] = "rrevive")
  BY DEF Waiter, WaitPcs, LockPcs
<1>3. RefInv'
  BY <1>2 DEF GateInv, RefInv, InRef
<1>4. GoneInv'
  BY <1>2 DEF GateInv, GoneInv, Gone, KernelWq, Ctl, TearPcs
<1> QED BY <1>1, <1>3, <1>4 DEF GateInv

LEMMA SubmitGate ==
  ASSUME TypeOK, GateInv, NEW p \in Procs,
         ClientCall(p) \/ TxStep(p) \/ ResubmitStep(p) \/ SubmitStep(p)
  PROVE  GateInv'
<1> USE DEF TypeOK, ThreadTypeOK, Goto, ThreadFrame, ctlVars, wqVars, refVars
<1>1. CASE ClientCall(p) \/ TxStep(p) \/ ResubmitStep(p)
  <2>1. InRef' = InRef
    BY <1>1 DEF InRef, RefPcs, ClientCall, TxStep, ResubmitStep, Prep, AllocWake,
                GetDesc, TxSubmit, TxSubmitFailed, ResubmitStart, ResubmitFailed
  <2> QED
    BY <1>1, <2>1, GateFrame DEF ClientCall, TxStep, ResubmitStep, CallFrame
<1>2. CASE PortalStep(p)
  <2>1. InRef' = InRef
    BY <1>2 DEF InRef, RefPcs, PortalStep, Publish, Enqueue
  <2> QED BY <1>2, <2>1, GateFrame DEF PortalStep
<1>3. CASE AbortStep(p)
  <2>1. InRef' = InRef
    BY <1>3 DEF InRef, RefPcs, AbortStep, AbortMark, AbortTake, AbortFound, AbortFlist
  <2> QED BY <1>3, <2>1, GateFrame DEF AbortStep
<1>4. CASE GateStep(p)
  <2> USE <1>4 DEF GateStep
  <2>1. CASE UNCHANGED refVars
    <3>1. InRef' = InRef
      BY <2>1 DEF InRef, RefPcs, SubmitCheck, SubmitTryGet, TryGet, RefGet,
                  WaitResurrect, SubmitRetry, SubmitPut, RefPut, GateInv, RefInv
    <3> QED BY <2>1, <3>1, GateFrame
  <2>2. CASE RefGet(p) /\ RefLive /\ Goto(p, "publish")
    <3>1. InRef' = InRef \cup {p}
      BY <2>2 DEF InRef, RefPcs
    <3>2. LockInv' /\ GoneInv'
      BY <2>2 DEF GateInv, LockInv, GoneInv, Gone, Waiter, KernelWq, RefGet
    <3>3. RefInv'
      BY <2>2, <3>1 DEF GateInv, RefInv, Waiter, RefGet, RefLive
    <3> QED BY <3>2, <3>3 DEF GateInv
  <2>3. CASE SubmitPut(p)
    <3> USE <2>3 DEF SubmitPut, RefPut, idxd_wq_ref_release, RefCount
    <3>1. InRef' = InRef \ {p} /\ p \in InRef
      BY DEF InRef, RefPcs
    <3>2. LockInv' /\ GoneInv'
      BY DEF GateInv, LockInv, GoneInv, Gone, Waiter, KernelWq
    <3>3. /\ Cardinality(refHolders \ {p}) \in Nat
          /\ Cardinality(refHolders \ {p}) = 0 <=> refHolders \ {p} = {}
      <4>1. refHolders \ {p} \in SUBSET Procs
        BY DEF QueueTypeOK
      <4> QED BY <4>1, HolderCount
    <3>4. p \in refHolders /\ refKills \in {0, 1}
      BY <3>1 DEF GateInv, RefInv
    <3>5. Waiter' = Waiter /\ kpc' = kpc /\ refKills' = refKills
      BY DEF Waiter
    <3>6. refHolders' = refHolders \ {p} /\ refHolders' = InRef'
      BY <3>1 DEF GateInv, RefInv
    <3>7. wqDead' = IF refKills = 1 /\ refHolders' = {} THEN wqDead + 1 ELSE wqDead
      BY <3>3, <3>4, <3>6
    <3>8. RefInv'
      <4> HIDE DEF SubmitPut, RefPut, idxd_wq_ref_release, RefCount, GateStep
      <4> QED
        BY <3>4, <3>5, <3>6, <3>7 DEF GateInv, RefInv
    <3> QED BY <3>2, <3>8 DEF GateInv
  <2> QED
    BY <2>1, <2>2, <2>3 DEF SubmitCheck, SubmitTryGet, TryGet, WaitResurrect,
       SubmitRetry
<1> QED BY <1>1, <1>2, <1>3, <1>4 DEF SubmitStep

LEMMA IdleGate ==
  ASSUME TypeOK, GateInv,
         IrqStep \/ (\E d \in Desc : DevStep(d)) \/ DrainStep \/ RevokeEvent
  PROVE  GateInv'
<1>1. InRef' = InRef
  BY DEF InRef, IrqStep, DevStep, DrainStep, RevokeEvent, DevFrame, procVars
<1> QED
  BY <1>1, GateFrame DEF IrqStep, DevStep, DrainStep, RevokeEvent, DevFrame,
     ThreadFrame, ctlVars, wqVars, refVars

\* percpu_ref_kill by the holder of wq_lock.
LEMMA KillGate ==
  ASSUME TypeOK, GateInv, NEW k \in Ctl, kpc[k] \in {"qkill", "rkill"},
         RefKill, NEW l \in WaitPcs, kpc' = [kpc EXCEPT ![k] = l],
         UNCHANGED <<pc, wqLock, portal, wqState, wqType>>
  PROVE  GateInv'
<1> USE DEF TypeOK, CtlTypeOK
<1>1. /\ wqLock = k
      /\ \A j \in Ctl : j # k => kpc[j] \notin LockPcs
      /\ kpc[Remover] \in TearPcs => k = Remover
  BY DEF GateInv, LockInv, LockPcs, Ctl
<1>2. ~Waiter /\ \A j \in Ctl : kpc[j] # "rrevive" /\ kpc'[j] # "rrevive"
  BY <1>1 DEF Waiter, WaitPcs, LockPcs
<1>3. Waiter' /\ InRef' = InRef
  BY DEF Waiter, InRef
<1>4. refKills \in {0, 1} /\ wqDead = 0 /\ (refKills = 1 => refHolders = {})
  BY <1>2 DEF GateInv, RefInv
<1>5. /\ Cardinality(refHolders) \in Nat
      /\ Cardinality(refHolders) = 0 <=> refHolders = {}
  BY HolderCount DEF QueueTypeOK
<1>6. /\ refKills' = refKills + 1 /\ refHolders' = refHolders
      /\ wqDead' = IF refKills = 0 /\ refHolders = {} THEN 1 ELSE 0
  BY <1>4, <1>5 DEF RefKill, idxd_wq_ref_release, RefCount
<1>7. LockInv'
  BY <1>1 DEF GateInv, LockInv, WaitPcs, LockPcs, TearPcs
<1>8. RefInv'
  BY <1>3, <1>4, <1>6 DEF GateInv, RefInv
<1>9. GoneInv'
  <2>1. Gone' => Gone
    BY DEF Gone, WaitPcs, TearPcs, Ctl
  <2>2. Gone => refKills' = 2
    BY <1>4, <1>6 DEF GateInv, GoneInv
  <2>3. /\ kpc'[Misc] = "clear" => kpc[Misc] = "clear"
        /\ kpc'[Remover] \in TearPcs \cup {"done"} => kpc'[Remover] = kpc[Remover]
    BY DEF WaitPcs, TearPcs, Ctl
  <2> QED BY <2>1, <2>2, <2>3 DEF GateInv, GoneInv, KernelWq
<1> QED BY <1>7, <1>8, <1>9 DEF GateInv

\* The holder of wq_lock has seen wq_dead complete.
LEMMA DeadGate ==
  ASSUME TypeOK, GateInv, NEW k \in Ctl, kpc[k] \in {"qdead", "rdead"},
         wqDead > 0, wqDead' = wqDead - 1,
         NEW l \in CtlPcs \ (WaitPcs \cup {"clear", "done"}),
         l \in TearPcs => l = "unmap",
         kpc' = [kpc EXCEPT ![k] = l],
         wqLock' = wqLock \/ (l \notin LockPcs /\ (k = Remover => l \notin TearPcs)),
         UNCHANGED <<pc, refKills, refHolders, portal, wqState, wqType>>
  PROVE  GateInv' /\ InRef = {}
<1> USE DEF TypeOK, CtlTypeOK
<1>1. /\ wqLock = k
      /\ \A j \in Ctl : j # k => kpc[j] \notin LockPcs
      /\ kpc[Remover] \in TearPcs => k = Remover
  BY DEF GateInv, LockInv, LockPcs, Ctl
<1>2. Waiter
  BY DEF Waiter, WaitPcs
<1>3. refKills = 1 /\ wqDead = 1 /\ refHolders = {} /\ InRef = {}
  BY <1>2 DEF GateInv, RefInv
<1>4. ~Waiter' /\ InRef' = {} /\ \A j \in Ctl : j # k => kpc'[j] # "rrevive"
  BY <1>1, <1>3 DEF Waiter, WaitPcs, LockPcs, InRef
<1>5. LockInv'
  BY <1>1 DEF GateInv, LockInv, WaitPcs, LockPcs, TearPcs
<1>6. RefInv'
  BY <1>3, <1>4 DEF RefInv
<1>7. ~Gone
  BY <1>2, <1>3 DEF GateInv, GoneInv
<1>8. GoneInv'
  BY <1>1, <1>3, <1>4, <1>7 DEF GateInv, GoneInv, Gone, KernelWq, Ctl, TearPcs
<1> QED BY <1>3, <1>5, <1>6, <1>8 DEF GateInv

\* wq_lock is taken.
LEMMA AcquireGate ==
  ASSUME TypeOK, GateInv, NEW k \in Ctl, kpc[k] \in {"qlock", "rlock"},
         wqLock = NoThread, wqLock' = k,
         NEW l \in {"qkill", "rkill"}, kpc' = [kpc EXCEPT ![k] = l],
         UNCHANGED <<pc, refKills, refHolders, wqDead, portal, wqState, wqType>>
  PROVE  GateInv'
<1> USE DEF TypeOK, CtlTypeOK
<1>1. /\ \A j \in Ctl : kpc[j] \notin LockPcs
      /\ kpc[Remover] \notin TearPcs
  BY ThreadsAssumption DEF GateInv, LockInv, Ctl
<1>2. LockInv'
  BY <1>1 DEF LockInv, LockPcs, TearPcs, Ctl
<1>3. ~Waiter /\ ~Waiter' /\ \A j \in Ctl : kpc[j] # "rrevive" /\ kpc'[j] # "rrevive"
  BY <1>1 DEF Waiter, WaitPcs, LockPcs
<1>4. RefInv'
  BY <1>3 DEF GateInv, RefInv, InRef
<1>5. GoneInv'
  BY <1>1, <1>3 DEF GateInv, GoneInv, Gone, KernelWq, Ctl, TearPcs
<1> QED BY <1>2, <1>4, <1>5 DEF GateInv

LEMMA LockGate ==
  ASSUME TypeOK, GateInv, NEW k \in Ctl, QuiesceStep(k) \/ SwapStep(k)
  PROVE  GateInv'
<1> USE DEF QuiesceStep, SwapStep, LockFrame, CtlFrame, procVars, wqVars, CtlGoto,
            TypeOK, CtlTypeOK
<1>1. CASE QuiesceLock(k) \/ RevokeLock(k)
  BY <1>1, AcquireGate DEF QuiesceLock, RevokeLock
<1>2. CASE QuiesceKill(k) \/ RevokeKill(k)
  BY <1>2, KillGate DEF QuiesceKill, RevokeKill, WaitPcs
<1>3. CASE QuiesceWake(k)
  <2> USE <1>3 DEF QuiesceWake
  <2>1. Waiter /\ Waiter' /\ \A j \in Ctl : kpc'[j] = "rrevive" => kpc[j] = "rrevive"
    BY DEF Waiter, WaitPcs
  <2>2. LockInv'
    BY DEF GateInv, LockInv, LockPcs, TearPcs
  <2>3. RefInv'
    BY <2>1 DEF GateInv, RefInv, InRef
  <2>4. GoneInv'
    BY <2>1 DEF GateInv, GoneInv, Gone, KernelWq, Ctl, TearPcs
  <2> QED BY <2>2, <2>3, <2>4 DEF GateInv
<1>4. CASE QuiesceDead(k)
  <2>1. PICK l \in {"scan", "unmap", "idle"} :
           /\ kpc' = [kpc EXCEPT ![k] = l]
           /\ k = Remover => l = "unmap"
           /\ l = "unmap" => k \in {Misc, Remover}
    BY <1>4, ThreadsAssumption DEF QuiesceDead, Ctl
  <2>2. wqLock = k
    BY <1>4 DEF QuiesceDead, GateInv, LockInv, LockPcs
  <2>3. wqLock' = wqLock \/ (l \notin LockPcs /\ (k = Remover => l \notin TearPcs))
    BY <1>4, <2>1, <2>2 DEF QuiesceDead, LockPcs
  <2> QED
    BY <1>4, <2>1, <2>3, DeadGate DEF QuiesceDead, WaitDead, CtlPcs, WaitPcs, TearPcs
<1>5. CASE RevokeSwap(k)
  BY <1>5, DeadGate DEF RevokeSwap, WaitDead, CtlPcs, WaitPcs, TearPcs
<1>6. CASE RevokeRevive(k)
  <2> USE <1>6 DEF RevokeRevive
  <2>1. /\ wqLock = k
        /\ \A j \in Ctl : j # k => kpc[j] \notin LockPcs
    BY DEF GateInv, LockInv, LockPcs, Ctl
  <2>2. ~Waiter /\ ~Waiter' /\ \A j \in Ctl : kpc'[j] # "rrevive"
    BY <2>1 DEF Waiter, WaitPcs, LockPcs
  <2>3. refKills = 1 /\ ~Gone
    BY <2>2 DEF GateInv, RefInv, GoneInv
  <2>4. LockInv'
    BY DEF GateInv, LockInv, LockPcs, TearPcs
  <2>5. RefInv'
    BY <2>2, <2>3 DEF GateInv, RefInv, InRef
  <2>6. GoneInv'
    BY <2>3 DEF GateInv, GoneInv, Gone, KernelWq, Ctl, TearPcs
  <2> QED BY <2>4, <2>5, <2>6 DEF GateInv
<1>7. CASE RevokeWake(k)
  <2> USE <1>7 DEF RevokeWake
  <2>1. /\ wqLock = k
        /\ \A j \in Ctl : j # k => kpc[j] \notin LockPcs
        /\ kpc'[Remover] \notin TearPcs
    BY DEF GateInv, LockInv, LockPcs, TearPcs, Ctl
  <2>2. ~Waiter /\ ~Waiter' /\ \A j \in Ctl : kpc'[j] # "rrevive" /\ kpc[j] # "rrevive"
    BY <2>1 DEF Waiter, WaitPcs, LockPcs
  <2>3. LockInv'
    BY <2>1 DEF LockInv, LockPcs
  <2>4. RefInv'
    BY <2>2 DEF GateInv, RefInv, InRef
  <2>5. GoneInv'
    BY <2>2 DEF GateInv, GoneInv, Gone, KernelWq, Ctl, TearPcs
  <2> QED BY <2>3, <2>4, <2>5 DEF GateInv
<1> QED BY <1>1, <1>2, <1>3, <1>4, <1>5, <1>6, <1>7

LEMMA RevokeGate ==
  ASSUME TypeOK, GateInv, NEW k \in Revokers, RevokeWorkStep(k)
  PROVE  GateInv'
<1> USE DEF RevokeWorkStep, CtlFrame, procVars, refVars, wqVars, CtlGoto
<1>1. CASE kpc' = kpc
  <2>1. InRef' = InRef
    BY DEF InRef
  <2> QED BY <1>1, <2>1, GateFrame
<1>2. CASE kpc' # kpc
  <2>1. PICK l \in {"idle", "request", "qlock", "rlock", "inval"} :
           kpc' = [kpc EXCEPT ![k] = l]
    BY <1>2 DEF RevokeStart, RevokeRequest, RevokeDrain, InvalScan, InvalAbort
  <2>2. kpc[k] \in {"idle", "request", "rdrain", "scan", "inval"}
    BY DEF RevokeStart, RevokeRequest, RevokeDrain, InvalScan, InvalAbort
  <2> QED
    BY <2>1, <2>2, GateMove DEF LockPcs, TearPcs, CtlPcs, Ctl
<1> QED BY <1>1, <1>2

LEMMA MiscGate ==
  ASSUME TypeOK, GateInv, MiscRevoke \/ MiscHalt \/ MiscUnmap \/ MiscClear, MiscFrame
  PROVE  GateInv'
<1> USE ThreadsAssumption DEF MiscFrame, CtlFrame, procVars, refVars, CtlGoto
<1>0. Misc \in Ctl /\ Remover \in Ctl /\ InRef' = InRef
  BY DEF Ctl, InRef
<1>1. CASE MiscRevoke /\ kpc' = kpc
  BY <1>0, <1>1, GateFrame DEF MiscRevoke
<1>2. CASE kpc[Misc] = "idle" /\ ~(MiscHalt /\ ~KernelWq) /\ kpc' # kpc
  <2>1. PICK l \in {"idle", "qlock"} : kpc' = [kpc EXCEPT ![Misc] = l]
    BY <1>2 DEF MiscRevoke, MiscHalt, MiscUnmap, MiscClear
  <2>2. UNCHANGED <<portal, wqState, wqType>>
    BY <1>2 DEF MiscRevoke, MiscHalt, MiscUnmap, MiscClear
  <2> QED
    BY <1>0, <1>2, <2>1, <2>2, GateMove DEF LockPcs, TearPcs, CtlPcs
<1>3. CASE (MiscHalt /\ ~KernelWq) \/ MiscUnmap \/ MiscClear
  <2> USE <1>3 DEF MiscHalt, MiscUnmap, MiscClear, TypeOK, CtlTypeOK
  <2>1. Gone /\ (kpc'[Misc] = "clear" => ~portal') /\ (~KernelWq' => ~portal')
    BY <1>0 DEF GateInv, GoneInv, Gone, KernelWq
  <2>2. PICK l \in {"unmap", "clear", "idle"} : kpc' = [kpc EXCEPT ![Misc] = l]
    OBVIOUS
  <2>3. kpc[Misc] \in {"idle", "unmap", "clear"}
    OBVIOUS
  <2>4. Waiter' = Waiter /\ \A j \in Ctl : kpc'[j] = "rrevive" <=> kpc[j] = "rrevive"
    BY <1>0, <2>2, <2>3 DEF Waiter, WaitPcs
  <2>5. LockInv'
    BY <1>0, <2>2 DEF GateInv, LockInv, LockPcs
  <2>6. RefInv'
    BY <1>0, <2>4 DEF GateInv, RefInv
  <2>7. kpc'[Remover] = kpc[Remover] /\ (~portal => ~portal')
    BY <1>0, <2>2
  <2>8. GoneInv'
    BY <2>1, <2>4, <2>7 DEF GateInv, GoneInv
  <2> QED BY <2>5, <2>6, <2>8 DEF GateInv
<1>4. MiscRevoke \/ MiscHalt => kpc[Misc] = "idle"
  BY DEF MiscRevoke, MiscHalt
<1>5. MiscHalt => kpc' # kpc
  BY <1>0 DEF MiscHalt, TypeOK, CtlTypeOK
<1> QED BY <1>1, <1>2, <1>3, <1>4, <1>5

LEMMA RemoveGate ==
  ASSUME TypeOK, GateInv, RemoveFrame,
         RemoveStart \/ RemoveUnmap \/ RemoveDrain \/ RemoveFreeIrq
           \/ FlushScan \/ FlushDrop \/ RemoveReset
  PROVE  GateInv'
<1> USE ThreadsAssumption DEF RemoveFrame, CtlFrame, procVars, refVars, CtlGoto
<1>0. Misc \in Ctl /\ Remover \in Ctl /\ InRef' = InRef
  BY DEF Ctl, InRef
<1>1. CASE RemoveStart
  BY <1>0, <1>1, GateMove DEF RemoveStart, LockPcs, TearPcs, CtlPcs
<1>2. CASE FlushDrop /\ kpc' = kpc
  BY <1>0, <1>2, GateFrame DEF FlushDrop
<1>3. CASE ~RemoveStart /\ kpc' # kpc
  <2> USE <1>3 DEF RemoveUnmap, RemoveDrain, RemoveFreeIrq, FlushScan, FlushDrop,
                   RemoveReset, TypeOK, CtlTypeOK
  <2>1. PICK l \in {"drain", "free_irq", "flush", "drop", "reset", "done"} :
           kpc' = [kpc EXCEPT ![Remover] = l]
    OBVIOUS
  <2>2. kpc[Remover] \in TearPcs /\ (kpc[Remover] = "unmap" => ~portal')
    BY DEF TearPcs
  <2>3. ~portal'
    BY <2>2 DEF GateInv, GoneInv
  <2>4. Waiter' = Waiter /\ \A j \in Ctl : kpc'[j] = "rrevive" <=> kpc[j] = "rrevive"
    BY <1>0, <2>1, <2>2 DEF Waiter, WaitPcs, TearPcs
  <2>5. LockInv'
    <3>1. wqLock = Remover /\ \A j \in Ctl : j # Remover => kpc[j] \notin LockPcs
      BY <1>0, <2>2 DEF GateInv, LockInv
    <3>2. wqLock' = wqLock \/ kpc'[Remover] = "done"
      BY <1>0
    <3> QED
      BY <1>0, <2>1, <3>1, <3>2 DEF GateInv, LockInv, LockPcs, TearPcs
  <2>6. RefInv'
    BY <1>0, <2>4 DEF GateInv, RefInv
  <2>7. Gone
    BY <2>2 DEF Gone
  <2>8. GoneInv'
    BY <2>3, <2>4, <2>7 DEF GateInv, GoneInv
  <2> QED BY <2>5, <2>6, <2>8 DEF GateInv
<1>4. RemoveUnmap \/ RemoveDrain \/ RemoveFreeIrq \/ FlushScan \/ RemoveReset
        => kpc' # kpc /\ ~RemoveStart
  BY <1>0 DEF RemoveUnmap, RemoveDrain, RemoveFreeIrq, FlushScan, RemoveReset,
     RemoveStart, TypeOK, CtlTypeOK
<1>5. FlushDrop => ~RemoveStart
  BY DEF FlushDrop, RemoveStart
<1> QED BY <1>1, <1>2, <1>3, <1>4, <1>5

\* The gate invariant holds in every reachable state: any number of submitters,
\* revocations, halts and an unbinding, dedicated or shared queue
\* (idxd_submit_desc, __idxd_wq_quiesce, idxd_int_handle_revoke).
THEOREM GateHolds == Spec => []GateInv
<1>1. TypeOK /\ GateInv /\ [Next]_vars => GateInv'
  <2> SUFFICES ASSUME TypeOK, GateInv, [Next]_vars PROVE GateInv'
    OBVIOUS
  <2>1. ASSUME NEW c \in Clients, ClientCall(c) \/ ClientStep(c) PROVE GateInv'
    BY <2>1, SubmitGate DEF ClientStep, Procs
  <2>2. ASSUME NEW w \in Workers, WorkerStep(w) PROVE GateInv'
    BY <2>2, SubmitGate DEF WorkerStep, Procs
  <2>3. ASSUME NEW k \in Revokers, RevokeStep(k) PROVE GateInv'
    BY <2>3, LockGate, RevokeGate DEF RevokeStep, Ctl
  <2>4. CASE MiscStep \/ HaltEvent
    BY <2>4, LockGate, MiscGate DEF MiscStep, HaltEvent, Ctl
  <2>5. CASE RemoveStep \/ UnbindEvent
    BY <2>5, LockGate, RemoveGate DEF RemoveStep, UnbindEvent, Ctl
  <2>6. CASE UNCHANGED vars
    <3>1. InRef' = InRef
      BY <2>6 DEF InRef, vars, procVars
    <3> QED BY <2>6, <3>1, GateFrame DEF vars, ctlVars, refVars, wqVars
  <2> QED
    BY <2>1, <2>2, <2>3, <2>4, <2>5, <2>6, IdleGate DEF Next
<1> QED BY InitGate, TypeCorrect, <1>1, PTL DEF Spec

LEMMA GatePortal == TypeOK /\ GateInv => PortalMapped
  BY DEF GateInv, RefInv, GoneInv, Gone, InRef, RefPcs, PortalMapped

\* No submitter writes to an unmapped portal.
THEOREM PortalMappedHolds == Spec => []PortalMapped
  BY GatePortal, GateHolds, TypeCorrect, PTL

\* The interrupt handle is not replaced under a submitter that has read it and
\* not yet written the portal (idxd_int_handle_revoke, idxd_submit_desc).
THEOREM HandleSwapSafeHolds == Spec => HandleSwapSafe
<1> DEFINE Safe == intHandle' \notin {intHandle, INVALID_INT_HANDLE}
                     => \A p \in Procs : pc[p] # "enqueue"
<1>1. TypeOK /\ GateInv /\ [Next]_vars => [Safe]_vars
  <2> SUFFICES ASSUME TypeOK, GateInv, Next,
                      intHandle' \notin {intHandle, INVALID_INT_HANDLE}
               PROVE  InRef = {}
    BY DEF InRef, RefPcs
  <2>1. ASSUME NEW p \in Procs,
               ClientCall(p) \/ TxStep(p) \/ ResubmitStep(p) \/ SubmitStep(p)
        PROVE  FALSE
    BY <2>1 DEF ClientCall, TxStep, ResubmitStep, CallFrame, SubmitStep, GateStep,
       PortalStep, AbortStep, ThreadFrame
  <2>2. ASSUME IrqStep \/ (\E d \in Desc : DevStep(d)) \/ DrainStep \/ RevokeEvent
        PROVE  FALSE
    BY <2>2 DEF IrqStep, ThreadFrame, DevStep, DrainStep, RevokeEvent, DevFrame
  <2>3. ASSUME NEW k \in Ctl, QuiesceStep(k) PROVE FALSE
    BY <2>3 DEF QuiesceStep, QuiesceLock, QuiesceKill, QuiesceWake, QuiesceDead
  <2>4. ASSUME NEW k \in Revokers, SwapStep(k) PROVE InRef = {}
    <3>1. RevokeSwap(k) /\ LockFrame
      BY <2>4 DEF SwapStep, RevokeLock, RevokeKill, RevokeRevive, RevokeWake
    <3>2. Waiter /\ k \in Ctl
      BY <3>1 DEF Waiter, WaitPcs, RevokeSwap, Ctl
    <3> QED BY <3>1, <3>2 DEF RevokeSwap, WaitDead, GateInv, RefInv
  <2>5. ASSUME NEW k \in Revokers, RevokeWorkStep(k) PROVE InRef = {}
    <3>1. RevokeRequest(k) /\ ~KernelWq
      BY <2>5 DEF RevokeWorkStep, RevokeStart, RevokeRequest, RevokeDrain,
         InvalScan, InvalAbort
    <3> QED BY <3>1 DEF GateInv, GoneInv, Gone, RefInv
  <2>6. ASSUME MiscFrame PROVE FALSE
    BY <2>6 DEF MiscFrame
  <2>7. ASSUME RemoveUnmap \/ RemoveDrain \/ RemoveFreeIrq \/ FlushScan \/ FlushDrop
                 \/ RemoveReset \/ RemoveStart
        PROVE  FALSE
    BY <2>7 DEF RemoveUnmap, RemoveDrain, RemoveFreeIrq, FlushScan, FlushDrop,
       RemoveReset, RemoveStart
  <2> QED
    BY <2>1, <2>2, <2>3, <2>4, <2>5, <2>6, <2>7 DEF Next, ClientStep, WorkerStep,
       RevokeStep, MiscStep, HaltEvent, RemoveStep, UnbindEvent, Procs, Ctl
<1> QED BY <1>1, GateHolds, TypeCorrect, PTL DEF Spec, HandleSwapSafe

\* A gate closed for good stays closed: a second killer waits for ever.
LEMMA ClosedStays ==
  ASSUME TypeOK, GateInv, Closed, [Next]_vars
  PROVE  Closed'
<1> USE DEF TypeOK, CtlTypeOK, CtlGoto
<1>1. ASSUME NEW k \in Ctl, QuiesceStep(k) \/ SwapStep(k) PROVE Closed'
  <2> USE <1>1 DEF QuiesceStep, SwapStep
  <2>1. CASE QuiesceLock(k) \/ RevokeLock(k) \/ QuiesceWake(k) \/ RevokeWake(k)
    BY <2>1 DEF QuiesceLock, RevokeLock, QuiesceWake, RevokeWake, Closed, Waiter, WaitPcs
  <2>2. CASE QuiesceKill(k) \/ RevokeKill(k)
    <3>1. ~Waiter
      BY <2>2 DEF QuiesceKill, RevokeKill, GateInv, LockInv, LockPcs, WaitPcs, Waiter
    <3>2. refKills = 1
      BY <3>1 DEF Closed, GateInv, RefInv
    <3> QED BY <2>2, <3>2 DEF QuiesceKill, RevokeKill, RefKill, Closed
  <2>3. CASE QuiesceDead(k) \/ RevokeSwap(k)
    BY <2>3 DEF QuiesceDead, RevokeSwap, WaitDead, Closed, GateInv, RefInv, Waiter, WaitPcs
  <2>4. CASE RevokeRevive(k)
    <3>1. ~Waiter
      BY <2>4 DEF RevokeRevive, GateInv, LockInv, LockPcs, WaitPcs, Waiter
    <3> QED BY <2>4, <3>1 DEF RevokeRevive, Closed, GateInv, RefInv
  <2> QED BY <2>1, <2>2, <2>3, <2>4
<1>2. ASSUME refKills' = refKills,
             \A j \in Ctl : kpc'[j] \in WaitPcs \cup {"rrevive"} <=> kpc[j] \in WaitPcs \cup {"rrevive"},
             \A j \in Ctl : kpc'[j] = "rrevive" <=> kpc[j] = "rrevive"
      PROVE  Closed'
  BY <1>2 DEF Closed, Waiter, WaitPcs
<1>3. ASSUME NEW k \in Revokers, RevokeWorkStep(k) PROVE Closed'
  BY <1>2, <1>3 DEF RevokeWorkStep, refVars, RevokeStart, RevokeRequest, RevokeDrain, InvalScan,
     InvalAbort, WaitPcs, Ctl
<1>4. ASSUME MiscFrame, MiscRevoke \/ MiscUnmap \/ MiscClear \/ MiscHalt PROVE Closed'
  BY <1>2, <1>4 DEF MiscFrame, refVars, MiscRevoke, MiscUnmap, MiscClear, MiscHalt, WaitPcs, Ctl
<1>5. ASSUME RemoveFrame, RemoveStart \/ RemoveUnmap \/ RemoveDrain \/ RemoveFreeIrq \/ FlushScan
               \/ FlushDrop \/ RemoveReset
      PROVE  Closed'
  BY <1>2, <1>5 DEF RemoveFrame, refVars, RemoveStart, RemoveUnmap, RemoveDrain, RemoveFreeIrq,
     FlushScan, FlushDrop, RemoveReset, WaitPcs, Ctl
<1>6. ASSUME NEW p \in Procs,
             ClientCall(p) \/ TxStep(p) \/ ResubmitStep(p) \/ SubmitStep(p)
      PROVE  Closed'
  <2>1. kpc' = kpc
    BY <1>6 DEF ClientCall, TxStep, ResubmitStep, CallFrame, SubmitStep, GateStep,
       PortalStep, AbortStep, ThreadFrame, ctlVars
  <2>2. refKills' = refKills
    BY <1>6 DEF ClientCall, TxStep, ResubmitStep, CallFrame, SubmitStep, GateStep, PortalStep,
       AbortStep, refVars, SubmitCheck, SubmitTryGet, TryGet, RefGet, WaitResurrect, SubmitRetry,
       SubmitPut, RefPut
  <2> QED BY <1>2, <2>1, <2>2
<1>7. ASSUME IrqStep \/ (\E d \in Desc : DevStep(d)) \/ DrainStep \/ RevokeEvent \/ UNCHANGED vars
      PROVE  Closed'
  BY <1>2, <1>7 DEF IrqStep, ThreadFrame, DevStep, DrainStep, RevokeEvent, DevFrame, vars, ctlVars,
     refVars
<1> QED
  BY <1>1, <1>3, <1>4, <1>5, <1>6, <1>7 DEF Next, ClientStep, WorkerStep, RevokeStep,
     MiscStep, HaltEvent, RemoveStep, UnbindEvent, Procs, Ctl

\* When the misc thread has quiesced the queue, or the queue has gone, the gate is
\* closed for good.
LEMMA ClosedAfter ==
  ASSUME TypeOK, GateInv, GateInv'
  PROVE  /\ \A k \in Ctl : QuiesceDead(k) /\ LockFrame => Closed'
         /\ Gone => Closed
         /\ ~KernelWq => Closed
<1>1. ASSUME NEW k \in Ctl, QuiesceDead(k), LockFrame PROVE Closed'
  <2> USE <1>1 DEF QuiesceDead, TypeOK, CtlTypeOK, CtlGoto
  <2>1. Waiter /\ \A j \in Ctl : j # k => kpc[j] \notin LockPcs
    BY DEF GateInv, LockInv, LockPcs, Waiter, WaitPcs
  <2>2. refKills' = 1
    BY <2>1 DEF WaitDead, GateInv, RefInv
  <2>3. kpc'[k] \in {"scan", "unmap", "idle"}
    OBVIOUS
  <2>4. \A j \in Ctl : kpc'[j] \notin WaitPcs \cup {"rrevive"}
    BY <2>1, <2>3 DEF LockPcs, WaitPcs
  <2> QED BY <2>2, <2>4 DEF Closed, Waiter
<1>2. /\ Gone => Closed
      /\ ~KernelWq => Closed
  BY DEF GateInv, GoneInv, Gone, Closed
<1> QED BY <1>1, <1>2

LEMMA HandleStep ==
  ASSUME TypeOK, GateInv, GateInv', HandleInv, [Next]_vars
  PROVE  HandleInv'
<1> USE DEF TypeOK, CtlTypeOK, CtlGoto
<1>0. (Closed => Closed') /\ (~KernelWq => Closed)
  BY ClosedStays, ClosedAfter
<1> DEFINE Asked == \E k \in Revokers : kpc[k] \in SwapPcs \cup {"request"}
\* Steps that leave handles, revokers and the revoke queue alone.
<1>1. ASSUME UNCHANGED <<intHandle, devHandle, kHandle, revokeIntr, revokeWork, crossed>>,
             Quiescing => Quiescing' \/ Closed',
             \A k \in Revokers : kpc'[k] = kpc[k]
      PROVE  HandleInv'
  BY <1>0, <1>1 DEF HandleInv, RevokeDue
<1>2. ASSUME NEW k \in Ctl, QuiesceStep(k) PROVE HandleInv'
  <2> USE <1>2 DEF QuiesceStep, LockFrame, CtlFrame, QuiesceLock, QuiesceKill, QuiesceWake, QuiesceDead
  <2>1. UNCHANGED <<intHandle, devHandle, kHandle, revokeIntr, revokeWork, crossed>>
    OBVIOUS
  <2>2. Quiescing => Quiescing' \/ Closed'
    <3>1. CASE QuiesceDead(k)
      BY <3>1, ClosedAfter
    <3>2. CASE ~QuiesceDead(k)
      <4>1. kpc[k] \in QuiescePcs => kpc'[k] \in QuiescePcs
        BY <3>2 DEF QuiescePcs
      <4>2. \A j \in Ctl : j # k => kpc'[j] = kpc[j]
        BY <3>2
      <4> QED BY <4>1, <4>2 DEF Quiescing, Ctl
    <3> QED BY <3>1, <3>2
  <2>3. \A j \in Revokers : /\ kpc[j] \notin SwapPcs \cup {"request"} => kpc'[j] \notin SwapPcs \cup {"request"}
                            /\ kpc[j] \in SwapPcs \cup {"request"} => kpc'[j] = kpc[j]
    BY DEF SwapPcs, Ctl
  <2>4. /\ RevokeDue => RevokeDue'
        /\ Asked => Asked'
        /\ (\E l \in Revokers : kpc[l] = "request") => (\E l \in Revokers : kpc'[l] = "request")
    BY <1>0, <2>1, <2>2, <2>3 DEF RevokeDue
  <2>5. Quiescing \/ Closed => Quiescing' \/ Closed'
    BY <1>0, <2>2
  <2> HIDE <1>2 DEF QuiesceStep, LockFrame, CtlFrame, QuiesceLock, QuiesceKill, QuiesceWake, QuiesceDead
  <2> QED BY <2>1, <2>3, <2>4, <2>5 DEF HandleInv
<1>3. ASSUME NEW k \in Revokers, SwapStep(k) PROVE HandleInv'
  <2> USE <1>3 DEF SwapStep, LockFrame, CtlFrame, RevokeLock, RevokeKill, RevokeSwap, RevokeRevive,
                   RevokeWake
  <2>0. k \in Ctl /\ (\A j \in Ctl : j # k => kpc'[j] = kpc[j])
    BY DEF Ctl
  <2>1. Quiescing => Quiescing'
    <3>1. kpc[k] \notin QuiescePcs
      BY DEF QuiescePcs
    <3> QED BY <2>0, <3>1 DEF Quiescing, Ctl
  <2>3. RevokeDue => RevokeDue'
    BY <1>0, <2>1 DEF RevokeDue
  <2>2. CASE RevokeLock(k) \/ RevokeKill(k)
    BY <1>0, <2>0, <2>1, <2>2, <2>3 DEF HandleInv, SwapPcs, Ctl
  <2>4. CASE RevokeSwap(k) \/ RevokeRevive(k) \/ RevokeWake(k)
    BY <1>0, <2>0, <2>1, <2>3, <2>4 DEF HandleInv, SwapPcs, Ctl, Handles, INVALID_INT_HANDLE
  <2> QED BY <2>2, <2>4
<1>4. ASSUME NEW k \in Revokers, RevokeWorkStep(k) PROVE HandleInv'
  <2> USE <1>4 DEF RevokeWorkStep, CtlFrame, ctlVars
  <2>0. k \in Ctl /\ (\A j \in Ctl : j # k => kpc'[j] = kpc[j])
    BY DEF RevokeStart, RevokeRequest, RevokeDrain, InvalScan, InvalAbort, Ctl
  <2>1. Quiescing => Quiescing'
    <3>1. kpc[k] \notin QuiescePcs
      BY DEF RevokeStart, RevokeRequest, RevokeDrain, InvalScan, InvalAbort, QuiescePcs
    <3> QED BY <2>0, <3>1 DEF Quiescing, Ctl
  <2>2. CASE RevokeStart(k)
    BY <1>0, <2>0, <2>1, <2>2 DEF RevokeStart, HandleInv, RevokeDue, SwapPcs, Ctl
  <2>3. CASE RevokeRequest(k)
    <3> USE <2>3 DEF RevokeRequest
    <3>1. CASE kpc'[k] = "qlock"
      BY <3>1 DEF HandleInv, RevokeDue, Quiescing, QuiescePcs
    <3>2. CASE kpc'[k] # "qlock"
      <4>1. /\ kHandle' = [kHandle EXCEPT ![k] = devHandle]
            /\ crossed' = (\E l \in Revokers \ {k} : Swapping(l))
            /\ intHandle' = IF KernelWq THEN intHandle ELSE devHandle
            /\ kpc'[k] = IF KernelWq /\ intHandle # devHandle THEN "rlock" ELSE "idle"
            /\ UNCHANGED <<devHandle, revokeIntr, revokeWork>>
        BY <2>0, <3>2
      <4>2. \A j \in Revokers : kpc'[j] \in SwapPcs /\ kHandle'[j] # devHandle' => crossed'
        BY <2>0, <4>1 DEF Swapping, SwapPcs, Ctl
      <4>3. intHandle' \notin {devHandle', INVALID_INT_HANDLE} => kpc'[k] \in SwapPcs
        BY <4>1 DEF SwapPcs
      <4>4. intHandle' = INVALID_INT_HANDLE => Quiescing' \/ Closed'
        BY <1>0, <2>1, <4>1 DEF HandleInv, Handles, INVALID_INT_HANDLE
      <4> QED BY <4>2, <4>3, <4>4 DEF HandleInv
    <3> QED BY <3>1, <3>2
  <2>4. CASE RevokeDrain(k) \/ InvalScan(k) \/ InvalAbort(k)
    <3>1. UNCHANGED <<intHandle, devHandle, kHandle, revokeIntr, revokeWork, crossed>>
      BY <2>4 DEF RevokeDrain, InvalScan, InvalAbort
    <3>2. kpc[k] \notin SwapPcs \cup {"request"} /\ kpc'[k] \notin SwapPcs \cup {"request"}
      BY <2>4 DEF RevokeDrain, InvalScan, InvalAbort, SwapPcs
    <3>3. \A j \in Revokers :
             /\ kpc'[j] \in SwapPcs <=> kpc[j] \in SwapPcs
             /\ kpc'[j] = "request" <=> kpc[j] = "request"
      BY <2>0, <3>2 DEF Ctl
    <3> HIDE <1>4, <2>4 DEF RevokeWorkStep, CtlFrame, ctlVars
    <3> QED BY <1>0, <2>1, <3>1, <3>3 DEF HandleInv, RevokeDue
  <2> QED BY <2>2, <2>3, <2>4
<1>5. ASSUME MiscFrame, MiscRevoke \/ MiscUnmap \/ MiscClear \/ MiscHalt PROVE HandleInv'
  <2> USE <1>5 DEF MiscFrame, CtlFrame
  <2>0. Misc \in Ctl /\ \A k \in Revokers : kpc'[k] = kpc[k]
    BY ThreadsAssumption DEF MiscRevoke, MiscUnmap, MiscClear, MiscHalt, Ctl
  <2>3. Quiescing => Quiescing'
    BY <2>0 DEF Quiescing, QuiescePcs, MiscRevoke, MiscUnmap, MiscClear, MiscHalt
  <2>1. CASE MiscRevoke
    <3>1. RevokeDue'
      BY <1>0, <2>0, <2>1 DEF MiscRevoke, RevokeDue, Quiescing, QuiescePcs
    <3> QED BY <1>0, <2>0, <2>3, <3>1 DEF HandleInv
  <2>2. CASE MiscUnmap \/ MiscClear \/ MiscHalt
    <3>1. UNCHANGED <<revokeIntr, revokeWork>>
      BY <2>2 DEF MiscUnmap, MiscClear, MiscHalt
    <3> QED BY <1>1, <2>0, <2>3, <3>1
  <2> QED BY <1>5, <2>1, <2>2
<1>6. ASSUME RemoveFrame, RemoveStart \/ RemoveUnmap \/ RemoveDrain \/ RemoveFreeIrq \/ FlushScan
               \/ FlushDrop \/ RemoveReset
      PROVE  HandleInv'
  <2> USE <1>6 DEF RemoveFrame, CtlFrame
  <2>1. \A k \in Ctl : k # Remover => kpc'[k] = kpc[k]
    BY DEF RemoveStart, RemoveUnmap, RemoveDrain, RemoveFreeIrq, FlushScan, FlushDrop, RemoveReset
  <2>2. (\A k \in Revokers : kpc'[k] = kpc[k]) /\ Quiescing' = Quiescing
    BY <2>1, ThreadsAssumption DEF Quiescing, Ctl
  <2>3. intHandle' = intHandle \/ (intHandle' = INVALID_INT_HANDLE /\ Closed)
    <3>1. FlushDrop => Gone
      BY DEF FlushDrop, Gone, TearPcs
    <3> QED
      BY <3>1, ClosedAfter
         DEF RemoveStart, RemoveUnmap, RemoveDrain, RemoveFreeIrq, FlushScan, FlushDrop, RemoveReset
  <2> QED BY <1>0, <2>2, <2>3 DEF HandleInv, RevokeDue
<1>7. ASSUME NEW p \in Procs,
             ClientCall(p) \/ TxStep(p) \/ ResubmitStep(p) \/ SubmitStep(p)
      PROVE  HandleInv'
  <2>1. UNCHANGED <<intHandle, devHandle, kHandle, revokeIntr, revokeWork, crossed, kpc>>
    BY <1>7 DEF ClientCall, TxStep, ResubmitStep, CallFrame, SubmitStep, GateStep,
       PortalStep, AbortStep, ThreadFrame, ctlVars
  <2> QED BY <1>1, <2>1 DEF Quiescing
<1>8. CASE IrqStep \/ (\E d \in Desc : DevStep(d)) \/ DrainStep \/ UNCHANGED vars
  <2>1. UNCHANGED <<intHandle, devHandle, kHandle, revokeIntr, revokeWork, crossed, kpc>>
    BY <1>8 DEF IrqStep, ThreadFrame, DevStep, DevComplete, DrainStep, DevDrain, DevFrame, vars,
       ctlVars, handleVars
  <2> QED BY <1>1, <2>1 DEF Quiescing
<1>9. CASE RevokeEvent
  BY <1>0, <1>9 DEF RevokeEvent, DevRevoke, HandleInv, RevokeDue, Quiescing, DevFrame, ctlVars
<1> QED
  BY <1>2, <1>3, <1>4, <1>5, <1>6, <1>7, <1>8, <1>9 DEF Next, ClientStep, WorkerStep, RevokeStep,
     MiscStep, HaltEvent, RemoveStep, UnbindEvent, Procs, Ctl

\* The newest interrupt handle wins unless its request crossed the storing of an
\* older one, with any number of revocations and of workers that deal with them,
\* failures, a halt and an unbinding (idxd_int_handle_revoke,
\* process_misc_interrupts).
THEOREM HandleCurrentHolds == Spec => []HandleCurrent
<1>1. Init => HandleInv
  BY DEF Init, HandleInv, SwapPcs, Ctl, INVALID_INT_HANDLE
<1>2. TypeOK /\ GateInv /\ GateInv' /\ HandleInv /\ [Next]_vars => HandleInv'
  BY HandleStep
<1>3. TypeOK /\ HandleInv => HandleCurrent
  BY DEF HandleInv, HandleCurrent, RevokeDue, RefLive, Closed, Quiescing, QuiescePcs, SwapPcs,
         TypeOK, CtlTypeOK
<1> QED BY <1>1, <1>2, <1>3, TypeCorrect, GateHolds, PTL DEF Spec

-----------------------------------------------------------------------------
(* Who owns a descriptor of a dedicated queue. *)

LEMMA InitOwn == Init => OwnInv
  BY DEF Init, OwnInv, NeverRefused, IrqInv, ApartInv, BusyInv, DeviceInv, ToldInv,
         IrqHas, OnLists, CtlHas, Holds, HoldingPcs, AbortPcs, Ctl

\* A step that touches nothing ownership depends on.
LEMMA OwnFrame ==
  ASSUME OwnInv,
         UNCHANGED <<pc, desc, flist, irqPc, irqList, irqCur, status, pending, workList,
                     resubmit, kList, busy, cookie, told, inflight, devState, wqState>>,
         kpc'[Remover] = kpc[Remover]
  PROVE  OwnInv'
  BY DEF OwnInv, NeverRefused, IrqInv, ApartInv, BusyInv, DeviceInv, ToldInv,
         IrqHas, OnLists, CtlHas, Holds

LEMMA GetDescOwn ==
  ASSUME TypeOK, OwnInv, NEW p \in Procs, pc[p] \in {"idle", "allocwait"},
         NEW d \in Desc \ busy, GetDesc(p, d), CallFrame, UNCHANGED resubmit
  PROVE  OwnInv'
<1> USE DEF TypeOK, DescTypeOK, ThreadTypeOK, GetDesc, Goto, CallFrame, ThreadFrame, listVars, irqVars,
            ctlVars, wqVars
<1>1. /\ pc' = [pc EXCEPT ![p] = "prepped"] /\ desc' = [desc EXCEPT ![p] = d]
      /\ \A q \in Procs : q # p => pc'[q] = pc[q] /\ desc'[q] = desc[q]
      /\ pc'[p] = "prepped" /\ desc'[p] = d
  OBVIOUS
<1>2. ~OnLists(d) /\ d \notin resubmit /\ ~CtlHas(d) /\ \A q \in Procs : ~Holds(q, d)
  BY DEF OwnInv, BusyInv
<1>3. NeverRefused' /\ IrqInv'
  BY <1>1, <1>2 DEF OwnInv, NeverRefused, IrqInv, AbortPcs, OnLists, IrqHas
<1>4. ApartInv'
  BY <1>1, <1>2 DEF OwnInv, ApartInv, IrqHas, OnLists, CtlHas, Holds, HoldingPcs
<1>5. BusyInv'
  BY <1>1, <1>2 DEF OwnInv, BusyInv, IrqHas, OnLists, CtlHas, Holds, HoldingPcs
<1>6. DeviceInv'
  BY <1>1, <1>2 DEF OwnInv, DeviceInv, IrqHas, OnLists
<1>7. ToldInv'
  BY <1>1, <1>2 DEF OwnInv, ToldInv
<1> QED BY <1>3, <1>4, <1>5, <1>6, <1>7 DEF OwnInv

\* A thread that holds a descriptor moves on with it, or one that holds none ends.
LEMMA MoveOwn ==
  ASSUME TypeOK, OwnInv, NEW p \in Procs, NEW l \in ProcPcs, Goto(p, l),
         pc[p] # "prepped" \/ desc[p] \in cookie',
         l \notin AbortPcs \cup {"enqueue", "prepped"},
         desc'[p] = desc[p], \A q \in Procs : q # p => desc'[q] = desc[q],
         pc[p] \in HoldingPcs <=> l \in HoldingPcs,
         cookie' \in {cookie, cookie \cup {desc[p]}},
         UNCHANGED <<flist, irqPc, irqList, irqCur, status, pending, workList,
                     resubmit, kList, busy, told, inflight, devState, wqState, kpc>>
  PROVE  OwnInv'
<1> USE DEF TypeOK, DescTypeOK, ThreadTypeOK, Goto
<1>1. pc'[p] = l /\ \A q \in Procs : q # p => pc'[q] = pc[q]
  OBVIOUS
<1>2. \A q \in Procs : desc'[q] = desc[q] /\ (pc'[q] \in HoldingPcs <=> pc[q] \in HoldingPcs)
  BY <1>1
<1>3. NeverRefused' /\ IrqInv'
  BY <1>1 DEF OwnInv, NeverRefused, IrqInv, AbortPcs
<1>4. ApartInv'
  BY <1>1, <1>2 DEF OwnInv, ApartInv, IrqHas, OnLists, CtlHas
<1>5. BusyInv'
  BY <1>1, <1>2 DEF OwnInv, BusyInv, IrqHas, OnLists, CtlHas, Holds
<1>6. DeviceInv'
  BY <1>1, <1>2 DEF OwnInv, DeviceInv, IrqHas, OnLists
<1>7. ToldInv'
  BY <1>1, <1>2 DEF OwnInv, ToldInv, HoldingPcs
<1> QED BY <1>3, <1>4, <1>5, <1>6, <1>7 DEF OwnInv

\* A thread that holds no descriptor ends or gives up waiting.
LEMMA EndOwn ==
  ASSUME TypeOK, OwnInv, NEW p \in Procs, NEW l \in {"idle", "allocwait"}, Goto(p, l),
         pc[p] \notin HoldingPcs, \A q \in Procs : q # p => desc'[q] = desc[q],
         UNCHANGED <<flist, irqPc, irqList, irqCur, status, pending, workList, cookie,
                     resubmit, kList, busy, told, inflight, devState, wqState, kpc>>
  PROVE  OwnInv'
<1> USE DEF TypeOK, DescTypeOK, ThreadTypeOK, Goto
<1>1. pc'[p] = l /\ \A q \in Procs : q # p => pc'[q] = pc[q]
  OBVIOUS
<1>2. /\ l \notin HoldingPcs \cup AbortPcs \cup {"prepped", "enqueue"}
      /\ pc[p] # "prepped"
  BY DEF HoldingPcs, AbortPcs
<1>3. NeverRefused' /\ IrqInv'
  BY <1>1, <1>2 DEF OwnInv, NeverRefused, IrqInv
<1>4. ApartInv'
  BY <1>1, <1>2 DEF OwnInv, ApartInv, IrqHas, OnLists, CtlHas
<1>5. BusyInv'
  BY <1>1, <1>2 DEF OwnInv, BusyInv, IrqHas, OnLists, CtlHas, Holds
<1>6. DeviceInv'
  BY <1>1, <1>2 DEF OwnInv, DeviceInv, IrqHas, OnLists
<1>7. ToldInv'
  BY <1>1, <1>2 DEF OwnInv, ToldInv, HoldingPcs
<1> QED BY <1>3, <1>4, <1>5, <1>6, <1>7 DEF OwnInv

\* A failed submission: the thread frees the descriptor it holds.
LEMMA FailOwn ==
  ASSUME TypeOK, OwnInv, NEW p \in Procs, pc[p] \in HoldingPcs, pc[p] # "prepped",
         Goto(p, "idle"), desc' = [desc EXCEPT ![p] = NoDesc],
         busy' = busy \ {desc[p]}, told' = Report(desc[p]),
         cookie' \in {cookie, cookie \ {desc[p]}},
         status' \in {status, [status EXCEPT ![desc[p]] = "abort"]},
         UNCHANGED <<flist, irqPc, irqList, irqCur, pending, workList,
                     resubmit, kList, inflight, devState, wqState, kpc>>
  PROVE  OwnInv'
<1> DEFINE d == desc[p]
<1> USE DEF TypeOK, DescTypeOK, ThreadTypeOK, Goto
<1>1. /\ \A q \in Procs : q # p => pc'[q] = pc[q] /\ desc'[q] = desc[q]
      /\ pc'[p] = "idle" /\ desc'[p] = NoDesc /\ d \in Desc
      /\ \A e \in Desc : e # d => told'[e] = told[e] /\ status'[e] = status[e]
      /\ \A e \in Desc : e # d /\ e \in cookie => e \in cookie'
  BY DEF Report, HoldingPcs
<1>2. /\ ~OnLists(d) /\ d \notin resubmit /\ ~CtlHas(d) /\ Holds(p, d)
      /\ \A q \in Procs : Holds(q, d) => q = p
  BY <1>1 DEF OwnInv, ApartInv, Holds
<1>3. told'[d] = 1
  BY <1>1, <1>2 DEF OwnInv, ToldInv, BusyInv, Report
<1> HIDE DEF d
<1>4. NeverRefused' /\ IrqInv'
  BY <1>1, <1>2 DEF OwnInv, NeverRefused, IrqInv, AbortPcs, OnLists, IrqHas
<1>5. ApartInv'
  BY <1>1, <1>2 DEF OwnInv, ApartInv, IrqHas, OnLists, CtlHas, HoldingPcs
<1>6. BusyInv'
  BY <1>1, <1>2 DEF OwnInv, BusyInv, IrqHas, OnLists, CtlHas, Holds, HoldingPcs, d
<1>7. DeviceInv'
  BY <1>1, <1>2 DEF OwnInv, DeviceInv, IrqHas, OnLists, Holds, HoldingPcs
<1>8. ToldInv'
  BY <1>1, <1>2, <1>3 DEF OwnInv, ToldInv, d
<1> QED BY <1>4, <1>5, <1>6, <1>7, <1>8 DEF OwnInv

LEMMA ResubmitStartOwn ==
  ASSUME TypeOK, OwnInv, NEW w \in Procs, ResubmitStart(w), CallFrame
  PROVE  OwnInv'
<1> USE DEF TypeOK, DescTypeOK, ThreadTypeOK, ResubmitStart, Goto, CallFrame, ThreadFrame,
            listVars, irqVars, ctlVars, wqVars
<1>0. PICK d \in resubmit : /\ resubmit' = resubmit \ {d}
                            /\ status' = [status EXCEPT ![d] = "none"]
                            /\ desc' = [desc EXCEPT ![w] = d]
  OBVIOUS
<1>1. /\ \A q \in Procs : q # w => pc'[q] = pc[q] /\ desc'[q] = desc[q]
      /\ pc'[w] = "submit" /\ desc'[w] = d /\ d \in Desc /\ pc[w] = "idle"
      /\ \A e \in Desc : e # d => status'[e] = status[e]
  BY <1>0
<1>2. ~OnLists(d) /\ ~CtlHas(d) /\ (\A q \in Procs : ~Holds(q, d)) /\ d \in busy
  BY <1>0, <1>1 DEF OwnInv, ApartInv, BusyInv, Holds, OnLists
<1>3. NeverRefused' /\ IrqInv'
  BY <1>0, <1>1, <1>2 DEF OwnInv, NeverRefused, IrqInv, AbortPcs, OnLists, IrqHas
<1>4. ApartInv'
  BY <1>0, <1>1, <1>2 DEF OwnInv, ApartInv, IrqHas, OnLists, CtlHas, HoldingPcs, Holds
<1>5. BusyInv'
  BY <1>0, <1>1, <1>2 DEF OwnInv, BusyInv, IrqHas, OnLists, CtlHas, Holds, HoldingPcs
<1>6. DeviceInv'
  BY <1>0, <1>1, <1>2 DEF OwnInv, DeviceInv, IrqHas, OnLists
<1>7. ToldInv'
  BY <1>0, <1>1, <1>2 DEF OwnInv, ToldInv
<1> QED BY <1>3, <1>4, <1>5, <1>6, <1>7 DEF OwnInv

\* Clients and workers outside idxd_submit_desc.
LEMMA CallOwn ==
  ASSUME TypeOK, OwnInv, NEW p \in Procs, ClientCall(p) \/ TxStep(p) \/ ResubmitStep(p)
  PROVE  OwnInv'
<1> USE DEF CallFrame, ThreadFrame, descVars, listVars, irqVars, ctlVars, wqVars
<1>1. CASE ClientCall(p)
  <2>1. CASE \E d \in Desc \ busy : GetDesc(p, d)
    BY <1>1, <2>1, GetDescOwn DEF ClientCall, Prep, AllocWake
  <2>2. CASE \E l \in {"idle", "allocwait"} : Goto(p, l) /\ UNCHANGED <<descVars, desc>>
    BY <1>1, <2>2, EndOwn DEF ClientCall, Prep, AllocWake, HoldingPcs
  <2> QED BY <1>1, <2>1, <2>2 DEF ClientCall, Prep, AllocWake
<1>2. CASE TxStep(p)
  <2>1. CASE TxSubmit(p)
    BY <1>2, <2>1, MoveOwn DEF TxStep, TxSubmit, HoldingPcs, AbortPcs, ProcPcs
  <2>2. CASE TxSubmitFailed(p)
    BY <1>2, <2>2, FailOwn DEF TxStep, TxSubmitFailed, HoldingPcs
  <2> QED BY <1>2, <2>1, <2>2 DEF TxStep
<1>3. CASE ResubmitStep(p)
  <2>1. CASE ResubmitStart(p)
    BY <1>3, <2>1, ResubmitStartOwn DEF ResubmitStep
  <2>2. CASE ResubmitFailed(p)
    <3>1. pc[p] \in {"fail_eio", "fail_enxio"}
      BY <2>2 DEF ResubmitFailed, OwnInv, NeverRefused, AbortPcs
    <3>2. desc[p] \in Desc
      BY <3>1 DEF TypeOK, ThreadTypeOK
    <3>3. desc[p] \in busy /\ ~\E q \in Procs : pc[q] = "prepped" /\ desc[q] = desc[p]
      BY <3>1, <3>2 DEF OwnInv, BusyInv, ApartInv, Holds, HoldingPcs
    <3>4. desc[p] \in cookie
      BY <3>3 DEF OwnInv, ToldInv
    <3> QED
      BY <1>3, <2>2, <3>1, <3>4, FailOwn DEF ResubmitStep, ResubmitFailed, HoldingPcs
  <2> QED BY <1>3, <2>1, <2>2 DEF ResubmitStep
<1> QED BY <1>1, <1>2, <1>3

LEMMA PublishOwn ==
  ASSUME TypeOK, OwnInv, NEW p \in Procs, Publish(p), PortalStep(p)
  PROVE  OwnInv'
<1> DEFINE d == desc[p]
<1> USE DEF TypeOK, DescTypeOK, ThreadTypeOK, Publish, Goto, PortalStep, ThreadFrame,
            descVars, irqVars, ctlVars, wqVars
<1>1. /\ \A q \in Procs : q # p => pc'[q] = pc[q]
      /\ pc'[p] = "enqueue" /\ d \in Desc /\ pc[p] = "publish" /\ desc' = desc
      /\ pending' = pending \cup {d}
  OBVIOUS
<1>2. /\ ~OnLists(d) /\ d \notin resubmit /\ ~CtlHas(d) /\ Holds(p, d)
      /\ \A q \in Procs : Holds(q, d) => q = p
  BY <1>1 DEF OwnInv, ApartInv, Holds, HoldingPcs
<1>3. status[d] = "none"
  BY <1>1 DEF OwnInv, DeviceInv, HoldingPcs
<1> HIDE DEF d
<1>4. NeverRefused' /\ IrqInv'
  BY <1>1, <1>2 DEF OwnInv, NeverRefused, IrqInv, AbortPcs, OnLists, IrqHas, HoldingPcs
<1>5. ApartInv'
  BY <1>1, <1>2 DEF OwnInv, ApartInv, IrqHas, OnLists, CtlHas, HoldingPcs, Holds, d
<1>6. BusyInv'
  BY <1>1, <1>2 DEF OwnInv, BusyInv, IrqHas, OnLists, CtlHas, Holds, HoldingPcs, d
<1>7. DeviceInv'
  BY <1>1, <1>2, <1>3 DEF OwnInv, DeviceInv, HoldingPcs, IrqHas, OnLists, d
<1>8. ToldInv'
  BY <1>1, <1>2 DEF OwnInv, ToldInv, d
<1> QED BY <1>4, <1>5, <1>6, <1>7, <1>8 DEF OwnInv

LEMMA EnqueueOwn ==
  ASSUME TypeOK, GateInv, OwnInv, Dedicated, NEW p \in Procs, Enqueue(p), PortalStep(p)
  PROVE  OwnInv'
<1> DEFINE d == desc[p]
<1> USE DEF TypeOK, DescTypeOK, ThreadTypeOK, Enqueue, Goto, PortalStep, ThreadFrame,
            descVars, irqVars, ctlVars, wqVars
<1>1. /\ \A q \in Procs : q # p => pc'[q] = pc[q]
      /\ pc'[p] = "put" /\ d \in Desc /\ pc[p] = "enqueue" /\ desc' = desc
      /\ inflight' = inflight \cup {d}
  OBVIOUS
<1>2. OnLists(d) /\ status[d] = "none"
  BY <1>1 DEF OwnInv, DeviceInv
<1>3. kpc[Remover] \notin {"free_irq", "flush", "drop", "reset", "done"}
  BY <1>1, GatePortal DEF GateInv, GoneInv, PortalMapped, TearPcs
<1> HIDE DEF d
<1>4. NeverRefused' /\ IrqInv'
  BY <1>1 DEF OwnInv, NeverRefused, IrqInv, AbortPcs
<1>5. ApartInv'
  BY <1>1, <1>2 DEF OwnInv, ApartInv, IrqHas, OnLists, CtlHas, HoldingPcs
<1>6. BusyInv'
  BY <1>1, <1>2 DEF OwnInv, BusyInv, IrqHas, OnLists, CtlHas, Holds, HoldingPcs
<1>7. DeviceInv'
  BY <1>1, <1>2, <1>3 DEF OwnInv, DeviceInv, HoldingPcs, IrqHas, OnLists, d
<1>8. ToldInv'
  BY <1>1, <1>2 DEF OwnInv, ToldInv
<1> QED BY <1>4, <1>5, <1>6, <1>7, <1>8 DEF OwnInv

\* idxd_submit_desc.
LEMMA SubmitOwn ==
  ASSUME TypeOK, GateInv, OwnInv, Dedicated, NEW p \in Procs, SubmitStep(p)
  PROVE  OwnInv'
<1>1. CASE GateStep(p)
  <2> USE DEF GateStep, ThreadFrame, descVars, listVars, irqVars, ctlVars, wqVars
  <2>1. CASE SubmitPut(p)
    <3>1. pc[p] = "put"
      BY <2>1 DEF SubmitPut, OwnInv, NeverRefused, AbortPcs
    <3>2. \A q \in Procs : q # p => desc'[q] = desc[q]
      BY <2>1, <3>1 DEF SubmitPut, TypeOK, ThreadTypeOK
    <3> QED
      BY <1>1, <2>1, <3>1, <3>2, EndOwn DEF SubmitPut, HoldingPcs
  <2>2. CASE ~SubmitPut(p)
    <3>1. PICK l \in {"tryget", "fail_eio", "publish", "resurrect", "retry", "fail_enxio"} : Goto(p, l)
      BY <1>1, <2>2 DEF SubmitCheck, SubmitTryGet, TryGet, WaitResurrect, SubmitRetry
    <3>2. pc[p] \in {"submit", "tryget", "resurrect", "retry"} /\ desc' = desc
      BY <1>1, <2>2 DEF SubmitCheck, SubmitTryGet, TryGet, WaitResurrect, SubmitRetry
    <3> QED
      BY <1>1, <3>1, <3>2, MoveOwn DEF HoldingPcs, AbortPcs, ProcPcs
  <2> QED BY <2>1, <2>2
<1>2. CASE PortalStep(p)
  BY <1>2, PublishOwn, EnqueueOwn DEF PortalStep
<1>3. CASE AbortStep(p)
  BY <1>3 DEF AbortStep, AbortMark, AbortTake, AbortFound, AbortFlist, OwnInv, NeverRefused, AbortPcs
<1> QED BY <1>1, <1>2, <1>3 DEF SubmitStep

\* idxd_dma_complete_txd frees a descriptor the interrupt thread or a control
\* thread has, or leaves it to a resubmit worker.
LEMMA CompleteOwn ==
  ASSUME TypeOK, OwnInv, NEW d \in Desc, d \in irqList \/ CtlHas(d),
         status[d] # "none" \/ CtlHas(d),
         NEW abort \in BOOLEAN, NEW callback \in BOOLEAN,
         idxd_dma_complete_txd(d, abort, callback, TRUE),
         irqList' = irqList \ {d}, irqPc' = irqPc,
         irqPc = "addwork" => irqCur' = irqCur,
         \A k \in Ctl : kList'[k] = kList[k] \ {d},
         UNCHANGED <<pc, desc, flist, status, pending, workList, inflight, devState,
                     wqState>>,
         kpc'[Remover] = kpc[Remover]
  PROVE  OwnInv'
<1> USE DEF TypeOK, DescTypeOK, ThreadTypeOK
<1>1. /\ d \notin pending /\ d \notin workList /\ d \notin resubmit
      /\ irqPc = "addwork" => irqCur # d
      /\ \A q \in Procs : ~Holds(q, d)
  BY DEF OwnInv, ApartInv, IrqInv, IrqHas, OnLists, Holds
<1>2. d \in busy
  BY DEF OwnInv, BusyInv, OnLists, IrqHas
<1>3. \/ resubmit' = resubmit \cup {d} /\ UNCHANGED <<busy, cookie, told>>
      \/ /\ busy' = busy \ {d} /\ resubmit' = resubmit
         /\ \A e \in Desc : e # d => told'[e] = told[e] /\ (e \in cookie => e \in cookie')
         /\ told'[d] <= 1
  BY <1>2 DEF idxd_dma_complete_txd, OwnInv, ToldInv, Report
<1>4. /\ ~IrqHas(d)' /\ ~CtlHas(d)'
      /\ \A e \in Desc : e # d => IrqHas(e)' = IrqHas(e) /\ CtlHas(e)' = CtlHas(e)
  BY <1>1 DEF IrqHas, CtlHas
<1>5. NeverRefused' /\ IrqInv'
  BY DEF OwnInv, NeverRefused, IrqInv
<1>6. ApartInv'
  BY <1>1, <1>3, <1>4 DEF OwnInv, ApartInv, OnLists, HoldingPcs, Holds
<1>7. BusyInv'
  BY <1>1, <1>2, <1>3, <1>4 DEF OwnInv, BusyInv, OnLists, Holds
<1>8. DeviceInv'
  <2>1. \A q \in Procs : pc[q] = "enqueue" => desc[q] # d
    BY <1>1 DEF OwnInv, DeviceInv, ApartInv, OnLists, IrqHas
  <2>2. devState = "enabled" => d \notin inflight
    BY <1>1 DEF OwnInv, DeviceInv, ApartInv, OnLists, IrqHas
  <2> QED BY <1>4, <2>1, <2>2 DEF OwnInv, DeviceInv, OnLists
<1>9. ToldInv'
  BY <1>2, <1>3 DEF OwnInv, ToldInv
<1> QED BY <1>5, <1>6, <1>7, <1>8, <1>9 DEF OwnInv

\* Descriptors move from list to list: nothing but the lists changes, each
\* descriptor on a list stays on one, and no list takes another's.
LEMMA ListsOwn ==
  ASSUME TypeOK, OwnInv,
         \A d \in Desc : OnLists(d)' = OnLists(d),
         \A d \in pending' : d \notin workList' /\ ~IrqHas(d)',
         \A d \in workList' : ~IrqHas(d)', IrqInv',
         pending' \subseteq Desc, workList' \subseteq Desc,
         UNCHANGED <<pc, desc, flist, status, resubmit, kList, busy, cookie, told,
                     inflight, devState, wqState>>,
         kpc'[Remover] = kpc[Remover]
  PROVE  OwnInv'
<1> USE DEF TypeOK, DescTypeOK, ThreadTypeOK
<1>1. NeverRefused' /\ ToldInv'
  BY DEF OwnInv, NeverRefused, ToldInv
<1>2. \A d \in Desc : CtlHas(d)' = CtlHas(d)
  BY DEF CtlHas
<1>3. \A p \in Procs : pc[p] \in HoldingPcs \cup {"enqueue"} => desc[p] \in Desc
  BY DEF HoldingPcs
<1>4. ApartInv'
  <2>1. \A d \in Desc : OnLists(d) => d \notin resubmit /\ ~CtlHas(d)
    BY DEF OwnInv, ApartInv, OnLists
  <2>2. \A d \in Desc : (d \in pending' \/ d \in workList' \/ IrqHas(d)') => OnLists(d)
    BY DEF OnLists
  <2> QED BY <1>2, <1>3, <2>1, <2>2 DEF OwnInv, ApartInv
<1>5. BusyInv'
  BY <1>2 DEF OwnInv, BusyInv, Holds
<1>6. DeviceInv'
  BY <1>3 DEF OwnInv, DeviceInv
<1> QED BY <1>1, <1>4, <1>5, <1>6 DEF OwnInv

LEMMA IrqOwn ==
  ASSUME TypeOK, OwnInv, IrqStep
  PROVE  OwnInv'
<1> USE DEF IrqStep, ThreadFrame, procVars, ctlVars, wqVars
<1>1. CASE IrqStart \/ IrqDone
  <2>1. IrqInv' /\ \A d : IrqHas(d)' = IrqHas(d)
    BY <1>1 DEF IrqStart, IrqDone, OwnInv, IrqInv, IrqHas
  <2> QED
    BY <1>1, <2>1, ListsOwn DEF IrqStart, IrqDone, listVars, OnLists, OwnInv, ApartInv,
       TypeOK, DescTypeOK
<1>2. CASE IrqAdvance
  <2>1. IrqInv' /\ \A d : IrqHas(d)' = IrqHas(d)
    BY <1>2 DEF IrqAdvance, OwnInv, IrqInv, IrqHas
  <2> QED
    BY <1>2, <2>1, ListsOwn DEF IrqAdvance, listVars, OnLists, OwnInv, ApartInv,
       TypeOK, DescTypeOK
<1>3. CASE IrqScanWorkList
  BY <1>3, ListsOwn DEF IrqScanWorkList, OnLists, OwnInv, ApartInv, IrqInv, IrqHas,
     TypeOK, DescTypeOK
<1>4. CASE IrqTakePending
  BY <1>4, ListsOwn DEF IrqTakePending, OnLists, OwnInv, ApartInv, IrqInv, IrqHas,
     TypeOK, DescTypeOK
<1>5. CASE IrqAddWork
  BY <1>5, ListsOwn DEF IrqAddWork, OnLists, OwnInv, ApartInv, IrqInv, IrqHas,
     TypeOK, DescTypeOK, ThreadTypeOK
<1>6. CASE IrqWalk
  <2>1. PICK d \in irqList : IrqComplete(d) /\ irqList' = irqList \ {d}
    BY <1>6 DEF IrqWalk
  <2>2. d \in Desc /\ status[d] # "none" /\ \A k \in Ctl : kList[k] = kList[k] \ {d}
    BY <1>6, <2>1 DEF IrqWalk, TypeOK, ThreadTypeOK, CtlTypeOK, OwnInv, IrqInv, ApartInv,
       IrqHas, CtlHas
  <2> QED
    BY <1>6, <2>1, <2>2, CompleteOwn DEF IrqWalk, IrqComplete, listVars
<1>7. CASE IrqExamine
  <2>1. PICK d \in irqList :
           /\ irqList' = irqList \ {d}
           /\ \/ /\ status[d] # "none"
                 /\ IrqComplete(d)
                 /\ UNCHANGED <<irqPc, irqCur>>
              \/ /\ status[d] = "none"
                 /\ irqPc' = "addwork"
                 /\ irqCur' = d
                 /\ UNCHANGED <<busy, cookie, told, resubmit>>
    BY <1>7 DEF IrqExamine
  <2>2. d \in Desc /\ \A k \in Ctl : kList[k] = kList[k] \ {d}
    BY <1>7, <2>1 DEF TypeOK, ThreadTypeOK, CtlTypeOK, OwnInv, ApartInv, IrqHas, CtlHas
  <2>3. CASE status[d] # "none"
    BY <1>7, <2>1, <2>2, <2>3, CompleteOwn DEF IrqExamine, IrqComplete, listVars
  <2>4. CASE status[d] = "none"
    <3>1. IrqInv' /\ \A e \in Desc : IrqHas(e)' = IrqHas(e)
      BY <1>7, <2>1, <2>4 DEF IrqExamine, IrqInv, IrqHas
    <3> QED
      BY <1>7, <2>1, <2>4, <3>1, ListsOwn DEF IrqExamine, listVars, OnLists, OwnInv,
         ApartInv, TypeOK, DescTypeOK
  <2> QED BY <2>3, <2>4
<1> QED BY <1>1, <1>2, <1>3, <1>4, <1>5, <1>6, <1>7

LEMMA DeviceOwn ==
  ASSUME TypeOK, OwnInv, (\E d \in Desc : DevStep(d)) \/ DrainStep \/ RevokeEvent
  PROVE  OwnInv'
<1> USE DEF DevFrame, listVars, procVars, irqVars, wqVars, hwVars
<1>1. ASSUME NEW d \in Desc, DevStep(d) PROVE OwnInv'
  <2> USE <1>1 DEF DevStep, DevComplete, TypeOK, DescTypeOK, ThreadTypeOK
  <2>1. /\ d \in inflight /\ inflight' = inflight \ {d} /\ devState = "enabled"
        /\ status'[d] # "none" /\ \A e \in Desc : e # d => status'[e] = status[e]
    OBVIOUS
  <2>2. /\ OnLists(d) /\ \A p \in Procs : pc[p] = "enqueue" => desc[p] # d
        /\ \A p \in Procs : pc[p] \in HoldingPcs => desc[p] # d
    BY <2>1 DEF OwnInv, DeviceInv, ApartInv
  <2>3. NeverRefused' /\ BusyInv' /\ ApartInv' /\ ToldInv'
    BY DEF OwnInv, NeverRefused, BusyInv, ApartInv, ToldInv, Holds, OnLists, IrqHas, CtlHas
  <2>4. IrqInv'
    BY <2>1 DEF OwnInv, IrqInv
  <2>5. DeviceInv'
    BY <2>1, <2>2 DEF OwnInv, DeviceInv, OnLists, IrqHas, HoldingPcs
  <2> QED BY <2>3, <2>4, <2>5 DEF OwnInv
<1>2. CASE DrainStep \/ RevokeEvent
  BY <1>2, OwnFrame DEF DrainStep, DevDrain, RevokeEvent, DevRevoke
<1> QED BY <1>1, <1>2

\* Ownership depends on the unbinding only through its last steps.
LEMMA UnbindOwn ==
  ASSUME OwnInv,
         UNCHANGED <<pc, desc, flist, irqPc, irqList, irqCur, status, pending, workList,
                     resubmit, kList, busy, cookie, told, inflight, devState>>,
         devState = "enabled" /\ kpc'[Remover] \in {"free_irq", "flush", "drop", "reset", "done"}
            => inflight = {},
         devState # "disabled" /\ kpc'[Remover] # "done" => wqState' = "enabled"
  PROVE  OwnInv'
  BY DEF OwnInv, NeverRefused, IrqInv, ApartInv, BusyInv, DeviceInv, ToldInv,
         IrqHas, OnLists, CtlHas, Holds

LEMMA LockOwn ==
  ASSUME TypeOK, OwnInv, NEW k \in Ctl,
         QuiesceStep(k) \/ (k \in Revokers /\ SwapStep(k))
  PROVE  OwnInv'
<1> USE DEF LockFrame, CtlFrame, listVars, procVars, irqVars, wqVars
<1>1. CASE k = Remover
  <2>1. k \notin Revokers /\ kpc'[Remover] \notin {"free_irq", "flush", "drop", "reset", "done"}
    BY <1>1, ThreadsAssumption DEF QuiesceStep, QuiesceLock, QuiesceKill, QuiesceWake,
       QuiesceDead, CtlGoto, TypeOK, CtlTypeOK, Ctl
  <2>2. kpc[Remover] # "done"
    BY <1>1, <2>1 DEF QuiesceStep, QuiesceLock, QuiesceKill, QuiesceWake, QuiesceDead
  <2>3. devState # "disabled" /\ kpc'[Remover] # "done" => wqState' = "enabled"
    BY <1>1, <2>2 DEF OwnInv, DeviceInv, QuiesceStep, SwapStep
  <2> QED BY <1>1, <2>1, <2>3, UnbindOwn DEF QuiesceStep
<1>2. CASE k # Remover
  <2>1. kpc'[Remover] = kpc[Remover]
    BY <1>2 DEF QuiesceStep, QuiesceLock, QuiesceKill, QuiesceWake, QuiesceDead, SwapStep,
       RevokeLock, RevokeKill, RevokeSwap, RevokeRevive, RevokeWake, CtlGoto, TypeOK,
       CtlTypeOK, Ctl
  <2> QED BY <2>1, OwnFrame DEF QuiesceStep, SwapStep
<1> QED BY <1>1, <1>2

LEMMA CtlListHolds == Spec => []CtlListInv
<1>1. Init => CtlListInv
  BY DEF Init, CtlListInv
<1>2. TypeOK /\ CtlListInv /\ [Next]_vars => CtlListInv'
  <2> SUFFICES ASSUME TypeOK, CtlListInv, [Next]_vars PROVE CtlListInv'
    OBVIOUS
  <2> USE DEF CtlListInv, TypeOK, CtlTypeOK, CtlGoto
  <2>1. CASE UNCHANGED <<kpc, kList>>
    BY <2>1
  <2>2. ASSUME NEW k \in Ctl, QuiesceStep(k) \/ SwapStep(k) PROVE CtlListInv'
    BY <2>2 DEF QuiesceStep, SwapStep, LockFrame, QuiesceLock, QuiesceKill, QuiesceWake,
       QuiesceDead, RevokeLock, RevokeKill, RevokeSwap, RevokeRevive, RevokeWake
  <2>3. ASSUME NEW k \in Ctl, RevokeWorkStep(k) PROVE CtlListInv'
    BY <2>3 DEF RevokeWorkStep, RevokeStart, RevokeRequest, RevokeDrain, InvalScan, InvalAbort
  <2>4. ASSUME MiscFrame, MiscRevoke \/ MiscUnmap \/ MiscClear \/ MiscHalt PROVE CtlListInv'
    BY <2>4 DEF MiscFrame, MiscRevoke, MiscUnmap, MiscClear, MiscHalt
  <2>5. ASSUME RemoveStart \/ RemoveUnmap \/ RemoveDrain \/ RemoveFreeIrq \/ FlushScan
                 \/ FlushDrop \/ RemoveReset
        PROVE  CtlListInv'
    BY <2>5 DEF RemoveStart, RemoveUnmap, RemoveDrain, RemoveFreeIrq, FlushScan, FlushDrop,
       RemoveReset
  <2>6. ASSUME NEW p \in Procs,
               ClientCall(p) \/ TxStep(p) \/ ResubmitStep(p) \/ SubmitStep(p)
        PROVE  UNCHANGED <<kpc, kList>>
    BY <2>6 DEF ClientCall, TxStep, ResubmitStep, CallFrame, SubmitStep, GateStep,
       PortalStep, AbortStep, ThreadFrame, ctlVars
  <2>7. ASSUME IrqStep \/ (\E d \in Desc : DevStep(d)) \/ DrainStep \/ RevokeEvent \/ UNCHANGED vars
        PROVE  UNCHANGED <<kpc, kList>>
    BY <2>7 DEF IrqStep, ThreadFrame, DevStep, DrainStep, RevokeEvent, DevFrame, vars, ctlVars
  <2> QED
    BY <2>1, <2>2, <2>3, <2>4, <2>5, <2>6, <2>7 DEF Next, ClientStep, WorkerStep, RevokeStep,
       MiscStep, HaltEvent, RemoveStep, UnbindEvent, Procs, Ctl
<1> QED BY <1>1, <1>2, TypeCorrect, PTL DEF Spec

\* A control thread takes descriptors off the lists the interrupt thread does not
\* have, to complete them: the invalid ones, or at the end of an unbinding all.
LEMMA TakeOwn ==
  ASSUME TypeOK, OwnInv, NEW k \in Ctl, kList[k] = {}, NEW taken \in SUBSET (pending \cup workList),
         pending' = {}, workList' = (pending \cup workList) \ taken,
         kList' = [kList EXCEPT ![k] = taken],
         \A d \in taken : (devState = "enabled" => d \notin inflight)
                          /\ \A p \in Procs : pc[p] = "enqueue" => desc[p] # d,
         UNCHANGED <<irqPc, irqList, irqCur, pc, desc, flist, status, resubmit, busy,
                     cookie, told, inflight, devState, wqState>>,
         devState = "enabled" /\ kpc'[Remover] \in {"free_irq", "flush", "drop", "reset", "done"}
            => inflight = {},
         kpc'[Remover] = "done" <=> kpc[Remover] = "done"
  PROVE  OwnInv'
<1> USE DEF TypeOK, DescTypeOK, ThreadTypeOK, CtlTypeOK
<1>1. kList'[k] = taken /\ \A l \in Ctl : l # k => kList'[l] = kList[l]
  OBVIOUS
<1>2. /\ \A d : IrqHas(d)' = IrqHas(d)
      /\ \A d : CtlHas(d)' <=> CtlHas(d) \/ d \in taken
      /\ \A d : OnLists(d)' <=> OnLists(d) /\ d \notin taken
  <2>1. \A d \in pending \cup workList : ~IrqHas(d)
    BY DEF OwnInv, ApartInv
  <2> QED BY <1>1, <2>1 DEF IrqHas, CtlHas, OnLists
<1>3. NeverRefused' /\ IrqInv' /\ ToldInv'
  BY DEF OwnInv, NeverRefused, IrqInv, ToldInv
<1>4. ApartInv'
  <2>1. \A l, m \in Ctl : l # m => kList'[l] \cap kList'[m] = {}
    BY <1>1 DEF OwnInv, ApartInv, CtlHas
  <2>2. \A d \in Desc : IrqHas(d) => d \notin taken
    BY DEF OwnInv, ApartInv
  <2>3. \A p \in Procs : pc[p] \in HoldingPcs => desc[p] \notin taken
    BY DEF OwnInv, ApartInv, OnLists
  <2>4. \A d \in resubmit : d \notin taken
    BY DEF OwnInv, ApartInv
  <2> QED BY <1>2, <2>1, <2>2, <2>3, <2>4 DEF OwnInv, ApartInv
<1>5. BusyInv'
  BY <1>2 DEF OwnInv, BusyInv, Holds, OnLists
<1>6. DeviceInv'
  BY <1>2 DEF OwnInv, DeviceInv
<1> QED BY <1>3, <1>4, <1>5, <1>6 DEF OwnInv

\* What is taken has a record, so the device and the submitters are through with it.
LEMMA RecordedOwn ==
  ASSUME OwnInv, NEW d, status[d] # "none"
  PROVE  /\ devState = "enabled" => d \notin inflight
         /\ \A p \in Procs : pc[p] = "enqueue" => desc[p] # d
  BY DEF OwnInv, DeviceInv

LEMMA RevokeOwn ==
  ASSUME TypeOK, CtlListInv, OwnInv, NEW k \in Revokers, RevokeWorkStep(k)
  PROVE  OwnInv'
<1> USE DEF RevokeWorkStep, CtlFrame, procVars, wqVars
<1>0. k \in Ctl /\ kpc'[Remover] = kpc[Remover]
  BY ThreadsAssumption DEF RevokeStart, RevokeRequest, RevokeDrain, InvalScan, InvalAbort,
     CtlGoto, TypeOK, CtlTypeOK, Ctl
<1>1. CASE RevokeStart(k) \/ RevokeRequest(k) \/ RevokeDrain(k)
  BY <1>0, <1>1, OwnFrame DEF RevokeStart, RevokeRequest, RevokeDrain, listVars
<1>2. CASE InvalScan(k)
  <2> DEFINE bad == {d \in workList \cup pending : status[d] = "inval"}
  <2>1. /\ pending' = {} /\ workList' = (pending \cup workList) \ bad
        /\ kList' = [kList EXCEPT ![k] = bad]
        /\ UNCHANGED <<irqPc, irqList, irqCur, pc, desc, flist, status, resubmit, busy,
                       cookie, told, inflight, devState, wqState>>
    BY <1>2 DEF InvalScan
  <2>2. bad \in SUBSET (pending \cup workList) /\ \A d \in bad : status[d] # "none"
    OBVIOUS
  <2>3. kList[k] = {}
    BY <1>0, <1>2 DEF InvalScan, CtlListInv
  <2>4. devState = "enabled" /\ kpc[Remover] \in {"free_irq", "flush", "drop", "reset", "done"}
            => inflight = {}
    BY DEF OwnInv, DeviceInv
  <2> HIDE DEF bad
  <2> QED BY <1>0, <2>1, <2>2, <2>3, <2>4, RecordedOwn, TakeOwn, ZenonT(60)
<1>3. CASE InvalAbort(k)
  <2>1. CASE kList[k] = {}
    BY <1>0, <1>3, <2>1, OwnFrame DEF InvalAbort, listVars
  <2>2. CASE kList[k] # {}
    <3>1. PICK d \in kList[k] : /\ idxd_dma_complete_txd(d, TRUE, TRUE, TRUE)
                                /\ kList' = [kList EXCEPT ![k] = @ \ {d}]
      BY <1>3, <2>2 DEF InvalAbort
    <3>2. d \in Desc /\ CtlHas(d)
      BY <1>0 DEF TypeOK, CtlTypeOK, CtlHas
    <3>3. irqList = irqList \ {d} /\ \A l \in Ctl : kList'[l] = kList[l] \ {d}
      BY <1>0, <3>1, <3>2 DEF TypeOK, CtlTypeOK, OwnInv, ApartInv, IrqHas
    <3> QED
      BY <1>0, <1>3, <3>1, <3>2, <3>3, CompleteOwn DEF InvalAbort, listVars
  <2> QED BY <2>1, <2>2
<1> QED BY <1>1, <1>2, <1>3

LEMMA MiscOwn ==
  ASSUME TypeOK, OwnInv, MiscFrame, MiscRevoke \/ MiscUnmap \/ MiscClear \/ MiscHalt
  PROVE  OwnInv'
<1> USE DEF MiscFrame, CtlFrame, listVars, procVars, irqVars, hwVars
<1>0. kpc'[Remover] = kpc[Remover]
  BY ThreadsAssumption DEF MiscRevoke, MiscUnmap, MiscClear, MiscHalt, CtlGoto, TypeOK,
     CtlTypeOK, Ctl
<1>1. CASE MiscRevoke \/ MiscUnmap
  BY <1>0, <1>1, OwnFrame DEF MiscRevoke, MiscUnmap
<1>2. CASE MiscClear \/ MiscHalt
  <2>1. devState' # "enabled" /\ (MiscHalt => devState = "enabled" /\ wqState' = wqState)
        /\ (MiscClear => devState' = "disabled")
    BY <1>2 DEF MiscClear, MiscHalt
  <2>2. DeviceInv'
    BY <1>0, <1>2, <2>1 DEF OwnInv, DeviceInv, OnLists, IrqHas
  <2> QED
    BY <2>2 DEF OwnInv, NeverRefused, IrqInv, ApartInv, BusyInv, ToldInv, IrqHas, OnLists,
       CtlHas, Holds
<1> QED BY <1>1, <1>2

LEMMA RemoveOwn ==
  ASSUME TypeOK, GateInv, CtlListInv, OwnInv, RemoveFrame,
         RemoveStart \/ RemoveUnmap \/ RemoveDrain \/ RemoveFreeIrq
           \/ FlushScan \/ FlushDrop \/ RemoveReset
  PROVE  OwnInv'
<1> USE DEF RemoveFrame, CtlFrame, procVars, irqVars
<1>0. Remover \in Ctl
  BY DEF Ctl
<1> DEFINE Late == {"free_irq", "flush", "drop", "reset", "done"}
<1>1. /\ devState = "enabled" /\ kpc[Remover] \in Late => inflight = {}
      /\ devState # "disabled" /\ kpc[Remover] # "done" => wqState = "enabled"
  BY DEF OwnInv, DeviceInv
<1>2. CASE RemoveStart \/ RemoveUnmap \/ RemoveDrain \/ RemoveFreeIrq \/ RemoveReset
  <2>1. devState = "enabled" /\ kpc'[Remover] \in Late => inflight = {}
    BY <1>0, <1>1, <1>2 DEF RemoveStart, RemoveUnmap, RemoveDrain, RemoveFreeIrq, RemoveReset,
       CtlGoto, TypeOK, CtlTypeOK
  <2>2. devState # "disabled" /\ kpc'[Remover] # "done" => wqState' = "enabled"
    BY <1>0, <1>1, <1>2 DEF RemoveStart, RemoveUnmap, RemoveDrain, RemoveFreeIrq, RemoveReset,
       CtlGoto, TypeOK, CtlTypeOK
  <2>3. UNCHANGED <<pending, workList, resubmit, kList, busy, cookie, told, inflight, devState>>
    BY <1>2 DEF RemoveStart, RemoveUnmap, RemoveDrain, RemoveFreeIrq, RemoveReset, listVars
  <2> QED BY <2>1, <2>2, <2>3, UnbindOwn
<1>3. CASE FlushScan
  <2>1. /\ kpc[Remover] = "flush" /\ kpc'[Remover] = "drop" /\ kList[Remover] = {}
        /\ kList' = [kList EXCEPT ![Remover] = pending \cup workList]
        /\ pending' = {} /\ workList' = {}
        /\ UNCHANGED <<resubmit, busy, cookie, told, wqState>>
    BY <1>0, <1>3 DEF FlushScan, CtlListInv, CtlGoto, TypeOK, CtlTypeOK
  <2>2. \A p \in Procs : pc[p] # "enqueue"
    BY <2>1, GatePortal DEF GateInv, GoneInv, PortalMapped, TearPcs
  <2>3. devState = "enabled" => inflight = {}
    BY <1>1, <2>1
  <2> QED BY <1>0, <2>1, <2>2, <2>3, TakeOwn
<1>4. CASE FlushDrop
  <2>1. kpc[Remover] = "drop"
    BY <1>4 DEF FlushDrop
  <2>2. CASE kList[Remover] = {}
    <3>1. /\ kpc'[Remover] = "reset"
          /\ UNCHANGED <<pending, workList, resubmit, kList, busy, cookie, told, wqState>>
      BY <1>0, <1>4, <2>2 DEF FlushDrop, CtlGoto, TypeOK, CtlTypeOK, listVars
    <3> QED BY <1>1, <2>1, <3>1, UnbindOwn
  <2>3. CASE kList[Remover] # {}
    <3>1. PICK d \in kList[Remover] :
             /\ idxd_dma_complete_txd(d, status[d] = "none", FALSE, TRUE)
             /\ kList' = [kList EXCEPT ![Remover] = @ \ {d}]
      BY <1>4, <2>3 DEF FlushDrop
    <3>2. d \in Desc /\ CtlHas(d)
      BY <1>0 DEF TypeOK, CtlTypeOK, CtlHas
    <3>3. irqList = irqList \ {d} /\ \A l \in Ctl : kList'[l] = kList[l] \ {d}
      BY <1>0, <3>1, <3>2 DEF TypeOK, CtlTypeOK, OwnInv, ApartInv, IrqHas
    <3>4. UNCHANGED <<pending, workList, wqState, kpc>>
      BY <1>4, <2>3 DEF FlushDrop, listVars
    <3> QED BY <3>1, <3>2, <3>3, <3>4, CompleteOwn
  <2> QED BY <2>2, <2>3
<1> QED BY <1>2, <1>3, <1>4

LEMMA NextOwn ==
  ASSUME TypeOK, GateInv, CtlListInv, OwnInv, Dedicated, [Next]_vars
  PROVE  OwnInv'
<1>1. ASSUME NEW c \in Clients, ClientCall(c) \/ ClientStep(c) PROVE OwnInv'
  BY <1>1, CallOwn, SubmitOwn DEF ClientStep, Procs
<1>2. ASSUME NEW w \in Workers, WorkerStep(w) PROVE OwnInv'
  BY <1>2, CallOwn, SubmitOwn DEF WorkerStep, Procs
<1>3. ASSUME NEW k \in Revokers, RevokeStep(k) PROVE OwnInv'
  BY <1>3, LockOwn, RevokeOwn DEF RevokeStep, Ctl
<1>4. CASE MiscStep \/ HaltEvent
  BY <1>4, LockOwn, MiscOwn DEF MiscStep, HaltEvent, Ctl
<1>5. CASE RemoveStep \/ UnbindEvent
  BY <1>5, LockOwn, RemoveOwn DEF RemoveStep, UnbindEvent, Ctl
<1>6. CASE UNCHANGED vars
  BY <1>6, OwnFrame DEF vars, descVars, listVars, procVars, irqVars, ctlVars, wqVars, hwVars
<1> QED BY <1>1, <1>2, <1>3, <1>4, <1>5, <1>6, IrqOwn, DeviceOwn DEF Next

\* The inductive invariant of ownership: on a dedicated queue every allocated
\* descriptor is in exactly one place, those of the device are on a list and have
\* no completion record, and no client has heard of its descriptor twice.
THEOREM OwnHolds ==
  ASSUME Dedicated
  PROVE  Spec => []OwnInv
<1>1. TypeOK /\ GateInv /\ CtlListInv /\ OwnInv /\ [Next]_vars => OwnInv'
  BY NextOwn
<1> QED BY InitOwn, <1>1, TypeCorrect, GateHolds, CtlListHolds, PTL DEF Spec

\* On a dedicated queue no two threads or lists have the same descriptor, whatever
\* is revoked, fails, halts or is unbound meanwhile (idxd_submit_desc,
\* irq_process_work_list, irq_process_pending_llist, idxd_flush_pending_descs).
THEOREM ExclusiveOwnerHolds ==
  ASSUME Dedicated
  PROVE  Spec => []ExclusiveOwner
<1>1. TypeOK /\ OwnInv => ExclusiveOwner
  <2> SUFFICES ASSUME TypeOK, OwnInv PROVE ExclusiveOwner
    OBVIOUS
  <2> USE DEF TypeOK, DescTypeOK, ThreadTypeOK, CtlTypeOK
  <2>1. \A d \in Desc : d \in IrqHeld <=> IrqHas(d)
    BY DEF IrqHeld, IrqHas
  <2>2. \A d \in Desc : d \in CtlHeld <=> CtlHas(d)
    BY DEF CtlHeld, CtlHas
  <2>3. \A d \in Desc : d \in Queued <=> OnLists(d)
    BY <2>1 DEF Queued, OnLists
  <2>4. Held \cap (Queued \cup resubmit \cup CtlHeld) = {}
    BY <2>2, <2>3 DEF Held, Holds, OwnInv, ApartInv
  <2>5. \A p, q \in Procs, d \in Desc : Holds(p, d) /\ Holds(q, d) => p = q
    BY DEF Holds, OwnInv, ApartInv
  <2>6. /\ pending \cap (workList \cup IrqHeld \cup resubmit \cup CtlHeld) = {}
        /\ workList \cap (IrqHeld \cup resubmit \cup CtlHeld) = {}
        /\ resubmit \cap CtlHeld = {}
    BY <2>1, <2>2 DEF OwnInv, ApartInv
  <2>7. IrqHeld \subseteq Desc
    BY DEF IrqHeld
  <2>8. IrqHeld \cap (resubmit \cup CtlHeld) = {}
    BY <2>1, <2>2, <2>7 DEF OwnInv, ApartInv
  <2>9. /\ \A k, l \in Ctl : k # l => kList[k] \cap kList[l] = {}
        /\ irqPc = "addwork" => irqCur \notin irqList
    BY DEF OwnInv, ApartInv, IrqInv
  <2> QED BY <2>4, <2>5, <2>6, <2>8, <2>9 DEF ExclusiveOwner
<1> QED BY <1>1, OwnHolds, TypeCorrect, PTL

\* On a dedicated queue no descriptor leaks and none is freed early: a bit of the
\* allocator is set exactly while somebody is going to clear it, and a running
\* device only has descriptors the interrupt thread can find (idxd_free_desc).
THEOREM AllocatedIffLocatedHolds ==
  ASSUME Dedicated
  PROVE  Spec => []AllocatedIffLocated
<1>1. TypeOK /\ OwnInv => AllocatedIffLocated
  <2> SUFFICES ASSUME TypeOK, OwnInv PROVE AllocatedIffLocated
    OBVIOUS
  <2> USE DEF TypeOK, DescTypeOK, ThreadTypeOK, CtlTypeOK
  <2>1. \A d \in Desc : d \in Queued <=> OnLists(d)
    BY DEF Queued, OnLists, IrqHeld, IrqHas
  <2>2. \A d \in Desc : /\ d \in CtlHeld <=> CtlHas(d)
                        /\ d \in Held <=> \E p \in Procs : Holds(p, d)
                        /\ d \notin AbortHeld
    BY DEF CtlHeld, CtlHas, Held, AbortHeld, OwnInv, NeverRefused
  <2>3. Located \subseteq Desc
    BY DEF Located, Held, Queued, IrqHeld, CtlHeld, AbortHeld
  <2>4. \A d \in Desc : d \in busy <=> d \in Located
    BY <2>1, <2>2 DEF Located, OwnInv, BusyInv
  <2>5. devState = "enabled" => inflight \subseteq Queued
    BY <2>1 DEF OwnInv, DeviceInv
  <2> QED BY <2>3, <2>4, <2>5 DEF AllocatedIffLocated
<1> QED BY <1>1, OwnHolds, TypeCorrect, PTL

\* On a dedicated queue a client hears of its transaction exactly once, before the
\* descriptor is free for the next one; only the flush of an unbinding is silent.
THEOREM FreedAfterReportHolds ==
  ASSUME Dedicated
  PROVE  Spec => FreedAfterReport
<1> DEFINE Reported == /\ \A d \in Desc : told'[d] <= 1
                       /\ \A d \in busy \ busy' : told'[d] = 1 \/ kpc[Remover] = "drop"
<1>1. TypeOK /\ OwnInv /\ OwnInv' /\ [Next]_vars => [Reported]_vars
  <2> SUFFICES ASSUME TypeOK, OwnInv, OwnInv', Next PROVE Reported
    BY DEF OwnInv, ToldInv
  <2>1. \A d \in Desc : told'[d] <= 1
    BY DEF OwnInv, ToldInv
  <2> SUFFICES ASSUME NEW d \in busy \ busy', kpc[Remover] # "drop" PROVE told'[d] = 1
    BY <2>1
  <2>2. d \in Desc /\ told[d] = 0 /\ (d \in cookie \/ \E p \in Procs : pc[p] = "prepped" /\ desc[p] = d)
    BY DEF TypeOK, DescTypeOK, OwnInv, ToldInv
  <2> USE DEF TypeOK, DescTypeOK, ThreadTypeOK, Report
  <2>3. ASSUME NEW p \in Procs, ClientCall(p) \/ TxStep(p) PROVE told'[d] = 1
    BY <2>2, <2>3 DEF ClientCall, Prep, AllocWake, GetDesc, descVars, TxStep, TxSubmit,
       TxSubmitFailed
  <2>4. ASSUME NEW p \in Procs, ResubmitStep(p) PROVE told'[d] = 1
    <3>1. ResubmitFailed(p) /\ d = desc[p] /\ pc[p] \in {"fail_eio", "fail_enxio"}
      BY <2>4 DEF ResubmitStep, ResubmitStart, ResubmitFailed, OwnInv, NeverRefused, AbortPcs
    <3>2. d \in cookie
      BY <2>2, <3>1 DEF OwnInv, ApartInv, HoldingPcs
    <3> QED BY <2>2, <3>1, <3>2 DEF ResubmitFailed
  <2>5. ASSUME NEW p \in Procs, SubmitStep(p) PROVE FALSE
    BY <2>5 DEF SubmitStep, GateStep, PortalStep, AbortStep, descVars, AbortMark, AbortTake,
       AbortFound, AbortFlist, OwnInv, NeverRefused, AbortPcs
  <2>6. ASSUME NEW e, NEW a \in BOOLEAN, idxd_dma_complete_txd(e, a, TRUE, TRUE),
               e \in irqList \/ CtlHas(e), status[e] # "none" \/ a
        PROVE  told'[d] = 1
    <3>1. e = d
      BY <2>6 DEF idxd_dma_complete_txd
    <3>2. d \in cookie
      BY <2>2, <2>6, <3>1 DEF OwnInv, ApartInv, HoldingPcs, OnLists, IrqHas
    <3> QED BY <2>2, <2>6, <3>1, <3>2 DEF idxd_dma_complete_txd
  <2>7. ASSUME IrqStep PROVE told'[d] = 1
    <3>1. CASE IrqWalk
      BY <2>6, <3>1 DEF IrqWalk, IrqComplete, OwnInv, IrqInv
    <3>2. CASE IrqExamine
      BY <2>6, <3>2 DEF IrqExamine, IrqComplete
    <3> QED
      BY <2>7, <3>1, <3>2 DEF IrqStep, IrqStart, IrqScanWorkList, IrqAdvance, IrqTakePending,
         IrqAddWork, IrqDone
  <2>8. ASSUME NEW k \in Ctl, RevokeWorkStep(k) PROVE told'[d] = 1
    <3>1. CASE InvalAbort(k)
      <4>1. PICK e \in kList[k] : idxd_dma_complete_txd(e, TRUE, TRUE, TRUE)
        BY <3>1 DEF InvalAbort
      <4> QED BY <2>6, <4>1 DEF CtlHas
    <3> QED
      BY <2>8, <3>1 DEF RevokeWorkStep, RevokeStart, RevokeRequest, RevokeDrain, InvalScan
  <2>9. ASSUME (\E e \in Desc : DevStep(e)) \/ DrainStep \/ RevokeEvent PROVE FALSE
    BY <2>9 DEF DevStep, DrainStep, RevokeEvent, DevFrame
  <2>10. ASSUME NEW k \in Ctl, QuiesceStep(k) \/ SwapStep(k) PROVE FALSE
    BY <2>10 DEF QuiesceStep, SwapStep, LockFrame
  <2>11. ASSUME MiscFrame PROVE FALSE
    BY <2>11 DEF MiscFrame
  <2>12. ASSUME RemoveUnmap \/ RemoveDrain \/ RemoveFreeIrq \/ FlushScan \/ FlushDrop
                  \/ RemoveReset \/ RemoveStart
         PROVE  FALSE
    BY <2>12 DEF RemoveUnmap, RemoveDrain, RemoveFreeIrq, FlushScan, FlushDrop, RemoveReset,
       RemoveStart
  <2> QED
    BY <2>3, <2>4, <2>5, <2>7, <2>8, <2>9, <2>10, <2>11, <2>12 DEF Next, ClientStep, WorkerStep,
       RevokeStep, MiscStep, HaltEvent, RemoveStep, UnbindEvent, Procs, Ctl
<1> QED BY <1>1, OwnHolds, TypeCorrect, PTL DEF Spec, FreedAfterReport
=============================================================================
