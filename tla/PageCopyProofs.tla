--------------------------- MODULE PageCopyProofs ---------------------------
(* The resuming copy programs, for any size, width and number of faults.   *)
EXTENDS PageCopy, TLAPS

LEMMA SingleBag ==
  ASSUME NEW x
  PROVE  /\ EmptyBag (+) SetToBag({x}) = SetToBag({x})
         /\ SetToBag({x}) (-) SetToBag({x}) = EmptyBag
         /\ BagToSet(SetToBag({x})) = {x} /\ BagToSet(EmptyBag) = {}
         /\ EmptyBag # SetToBag({x})
  BY DEF EmptyBag, SetToBag, BagToSet, (+), (-)

LEMMA AnyBag ==
  ASSUME NEW B, IsABag(B), NEW x
  PROVE  /\ IsABag(B (+) SetToBag({x})) /\ BagToSet(B (+) SetToBag({x})) = BagToSet(B) \cup {x}
         /\ IsABag(B (-) SetToBag({x})) /\ BagToSet(B (-) SetToBag({x})) \subseteq BagToSet(B)
  BY DEF SetToBag, BagToSet, (+), (-), IsABag

LEMMA WrapRange ==
  ASSUME NEW n \in Int
  PROVE  /\ Wrapped(n) \in 0 .. 2 ^ Width - 1
         /\ 0 <= n /\ n < 2 ^ Width => Wrapped(n) = n
  BY PageParameters DEF Wrapped

LEMMA InitPage == Init => PageInv
<1> SUFFICES ASSUME Init PROVE PageInv
  OBVIOUS
<1> USE PageParameters DEF Init
<1>1. BagToSet(queue) = {} /\ IsABag(queue)
  BY DEF EmptyBag, SetToBag, BagToSet, IsABag
<1>2. TypeOK
  <2>1. accepted \in BOOLEAN
    BY Zenon
  <2> QED BY <1>1, <2>1 DEF TypeOK, Page
<1>3. ControlInv
  BY <1>1 DEF ControlInv, Reports
<1>4. CoverInv /\ RecordInv
  BY DEF CoverInv, RecordInv
<1> QED BY <1>2, <1>3, <1>4 DEF PageInv

\* Steps that only move the control and the counters.
LEMMA ControlPage ==
  ASSUME PageInv, Prepare \/ StartUser \/ Poll \/ UnmapPages
  PROVE  PageInv'
<1> USE PageParameters DEF hwVars, deviceVars, IsKernel
<1>1. CASE Prepare
  BY <1>1 DEF Prepare, PageInv, TypeOK, ControlInv, Reports, CoverInv, RecordInv, HwDesc
<1>2. CASE StartUser
  <2>1. accepted' \in BOOLEAN
    BY <1>2, Zenon DEF StartUser
  <2>2. TypeOK' /\ ControlInv'
    BY <1>2, <2>1 DEF StartUser, PageInv, TypeOK, ControlInv
  <2>3. CoverInv' /\ RecordInv'
    BY <1>2 DEF StartUser, PageInv, TypeOK, ControlInv, CoverInv, RecordInv, HwDesc
  <2> QED BY <2>2, <2>3 DEF PageInv
<1>3. CASE Poll
  BY <1>3 DEF Poll, PageInv, TypeOK, ControlInv, Reports, CoverInv, RecordInv, HwDesc
<1>4. CASE UnmapPages
  BY <1>4 DEF UnmapPages, PageInv, TypeOK, ControlInv, Reports, CoverInv, RecordInv, HwDesc
<1> QED BY <1>1, <1>2, <1>3, <1>4

\* A descriptor is handed to the device, or refused.
LEMMA SubmitPage ==
  ASSUME PageInv, Enqcmd \/ SubmitKernel
  PROVE  PageInv'
<1> USE PageParameters DEF hwVars, deviceVars, IsKernel
<1>1. /\ IsABag(queue) /\ HwDesc \in Nat \X Nat
      /\ pc \in {"submit", "enqcmd"} /\ HwDesc' = HwDesc
  BY DEF PageInv, TypeOK, HwDesc, Enqcmd, SubmitKernel
<1>2. \/ queue' = queue (+) SetToBag({HwDesc}) /\ accepted' = TRUE
      \/ queue' = queue
  BY DEF Enqcmd, SubmitKernel
<1>3. IsABag(queue') /\ BagToSet(queue') \subseteq Nat \X Nat
  <2>1. BagToSet(queue) \subseteq Nat \X Nat
    BY DEF PageInv, ControlInv
  <2>2. CASE queue' = queue (+) SetToBag({HwDesc})
    <3> DEFINE d == HwDesc
    <3>1. d \in Nat \X Nat /\ queue' = queue (+) SetToBag({d})
      BY <1>1, <2>2
    <3> HIDE DEF d
    <3>2. IsABag(queue') /\ BagToSet(queue') = BagToSet(queue) \cup {d}
      BY <1>1, <3>1, AnyBag
    <3> QED BY <2>1, <3>1, <3>2
  <2> QED BY <1>1, <1>2, <2>1, <2>2
<1>4. queue = EmptyBag => queue' = queue \/ (queue' = SetToBag({HwDesc}) /\ accepted')
  BY <1>2, SingleBag
<1>5. TypeOK'
  <2>1. accepted' \in BOOLEAN
    BY Zenon DEF Enqcmd, SubmitKernel, PageInv, TypeOK
  <2> QED BY <1>3, <2>1 DEF PageInv, TypeOK, ControlInv, Enqcmd, SubmitKernel
<1>6. ControlInv'
  BY <1>3 DEF PageInv, TypeOK, ControlInv, Reports, Enqcmd, SubmitKernel
<1>7. CoverInv => CoverInv'
  BY <1>1, <1>4 DEF CoverInv, Enqcmd, SubmitKernel
<1>8. CoverInv /\ RecordInv => RecordInv'
  BY <1>1, <1>4 DEF PageInv, ControlInv, CoverInv, RecordInv, Enqcmd, SubmitKernel
<1>9. prog' = prog /\ fault' = fault
  BY DEF Enqcmd, SubmitKernel
<1> QED BY <1>5, <1>6, <1>7, <1>8, <1>9 DEF PageInv, TypeOK

LEMMA CheckPage ==
  ASSUME PageInv, Check
  PROVE  PageInv'
<1> USE PageParameters DEF Check, deviceVars, IsKernel
<1>0. /\ offset \in Nat /\ left \in Nat /\ left < 2 ^ Width /\ done \in Nat /\ fault \in Nat
      /\ UNCHANGED <<prog, enq, poll, queue, status, done, copied, stray, accepted>>
  BY DEF PageInv, TypeOK
<1>1. CASE ~LimitHit /\ status = "pagefault"
  <2>1. /\ offset' = offset + done /\ left' = Wrapped(left - done)
        /\ pc' = "submit" /\ report' = report
    BY <1>1 DEF Resume
  <2>2. left' \in 0 .. 2 ^ Width - 1 /\ (done <= left => left' = left - done)
    BY <1>0, <2>1, WrapRange
  <2>3. fault' \in 0 .. FaultMax /\ (IsKernel => fault' = fault + 1) /\ (~IsKernel => fault' = fault)
    BY <1>1 DEF LimitHit, PageInv, TypeOK
  <2>4. TypeOK'
    BY <1>0, <2>1, <2>2, <2>3 DEF PageInv, TypeOK
  <2>5. ControlInv'
    BY <1>0, <1>1, <2>1 DEF PageInv, TypeOK, ControlInv, LimitHit
  <2>6. CoverInv /\ RecordInv => CoverInv'
    BY <1>0, <1>1, <2>1, <2>2 DEF CoverInv, RecordInv
  <2>7. ~IsKernel /\ RecordInv => RecordInv'
    BY <1>0, <1>1, <2>1 DEF PageInv, ControlInv, RecordInv
  <2> QED BY <1>0, <2>3, <2>4, <2>5, <2>6, <2>7 DEF PageInv
<1>2. CASE ~(~LimitHit /\ status = "pagefault")
  <2>1. /\ UNCHANGED hwVars
        /\ pc' = IF IsKernel THEN "unmap" ELSE "returned"
        /\ report' = IF LimitHit THEN "polllimit"
                     ELSE IF status = "success" THEN "success" ELSE "failed"
    BY <1>2
  <2>2. fault' \in 0 .. FaultMax /\ fault' >= fault /\ (~IsKernel => fault' = fault)
    BY DEF LimitHit, PageInv, TypeOK
  <2>3. TypeOK'
    BY <1>0, <2>1, <2>2 DEF PageInv, TypeOK, hwVars
  <2>4. ControlInv'
    BY <1>0, <2>1 DEF PageInv, ControlInv, Reports
  <2>5. CoverInv => CoverInv'
    BY <1>0, <2>1 DEF CoverInv, hwVars, HwDesc
  <2>6. RecordInv => RecordInv'
    BY <1>0, <2>1 DEF RecordInv, hwVars, PageInv, ControlInv
  <2> QED BY <1>0, <2>2, <2>3, <2>4, <2>5, <2>6 DEF PageInv
<1> QED BY <1>1, <1>2

LEMMA DevicePage ==
  ASSUME PageInv, Device
  PROVE  PageInv'
<1> USE PageParameters DEF hwVars, IsKernel
<1>1. PICK q \in BagToSet(queue) : DeviceCompletes(q[1], q[2])
  BY DEF Device
<1> DEFINE o == q[1]
           n == q[2]
<1>2. /\ o \in Nat /\ n \in Nat /\ q = <<o, n>> /\ q \in Nat \X Nat
      /\ queue' = queue (-) SetToBag({q})
      /\ UNCHANGED <<prog, pc, offset, left, enq, poll, fault, accepted, report>>
  <2>1. q \in Nat \X Nat
    BY DEF PageInv, ControlInv
  <2>2. o \in Nat /\ n \in Nat /\ q = <<o, n>>
    BY <2>1
  <2> QED BY <1>1, <2>1, <2>2 DEF DeviceCompletes
<1>3. IsABag(queue') /\ BagToSet(queue') \subseteq Nat \X Nat
  BY <1>2, AnyBag DEF PageInv, TypeOK, ControlInv
<1>4. CoverInv => queue = SetToBag({HwDesc}) /\ q = HwDesc /\ queue' = EmptyBag
                  /\ o = offset /\ n = left
  <2> SUFFICES ASSUME CoverInv
               PROVE  queue = SetToBag({HwDesc}) /\ q = HwDesc /\ queue' = EmptyBag
    BY DEF HwDesc
  <2>1. queue # EmptyBag
    BY SingleBag
  <2>2. queue = SetToBag({HwDesc})
    BY <2>1 DEF CoverInv
  <2>3. q = HwDesc
    BY <2>2, SingleBag, ZenonT(60)
  <2> QED BY <1>2, <2>2, <2>3, SingleBag
<1>5. /\ status' \in {"success", "error", "pagefault"} /\ done' \in 0 .. Reach
      /\ copied \subseteq copied' /\ copied' \subseteq Page
  BY <1>1, <1>2 DEF DeviceCompletes, Touches, PageInv, TypeOK
<1>6. TypeOK' /\ ControlInv'
  BY <1>2, <1>3, <1>5 DEF PageInv, TypeOK, ControlInv
<1>7. CoverInv => CoverInv'
  <2> SUFFICES ASSUME CoverInv PROVE CoverInv'
    OBVIOUS
  <2>1. ~stray'
    <3>1. \A k \in Nat : k <= n => Range(o, k) \ Page = {}
      BY <1>2, <1>4 DEF Range, Page, CoverInv
    <3>2. \A k \in Nat : k <= n /\ Touches(o, k) => ~stray'
      BY <3>1 DEF Touches, CoverInv
    <3> QED BY <1>1, <1>2, <3>2 DEF DeviceCompletes, CoverInv
  <2> QED BY <1>2, <1>4, <1>5, <2>1 DEF CoverInv
<1>8. CoverInv /\ RecordInv => RecordInv'
  <2> SUFFICES ASSUME CoverInv, RecordInv PROVE RecordInv'
    OBVIOUS
  <2>1. status = "none" /\ pc \notin {"prepare", "submit", "enqcmd"} /\ report # "success"
    BY <1>4, SingleBag DEF CoverInv, RecordInv
  <2>2. status' = "success" => copied' = Page
    <3>1. Range(o, n) \cup (0 .. offset - 1) = Page /\ 0 .. offset - 1 \subseteq copied
      BY <1>2, <1>4 DEF Range, Page, CoverInv
    <3>2. copied \subseteq Page
      BY DEF PageInv, TypeOK
    <3> QED BY <1>1, <3>1, <3>2 DEF DeviceCompletes, Touches
  <2>3. status' = "pagefault" => done' < left /\ offset .. offset + done' - 1 \subseteq copied'
    BY <1>1, <1>2, <1>4 DEF DeviceCompletes, Touches, Range, Page, CoverInv, PageInv, TypeOK
  <2> QED BY <1>2, <1>4, <2>1, <2>2, <2>3 DEF RecordInv
<1> QED BY <1>2, <1>6, <1>7, <1>8 DEF PageInv, TypeOK

\* The inductive invariant of the resuming programs.
THEOREM PageInvHolds == Spec => []PageInv
<1>1. PageInv /\ [Next]_vars => PageInv'
  <2>1. PageInv /\ UNCHANGED vars => PageInv'
    BY DEF PageInv, TypeOK, ControlInv, CoverInv, RecordInv, HwDesc, IsKernel, vars, hwVars,
       deviceVars
  <2> QED BY <2>1, ControlPage, SubmitPage, CheckPage, DevicePage DEF Next, Program
<1> QED BY InitPage, <1>1, PTL DEF Spec

\* After any number of page faults the descriptor covers exactly what is missing;
\* for the kernel program up to its first resumption (dsa_copy and main).
THEOREM ResumesRightHolds == Spec => []ResumesRight
<1>1. PageInv => ResumesRight
  BY DEF PageInv, ResumesRight, ResumesWhereItStopped, KernelTrustsOneRecord, CoverInv, IsKernel
<1> QED BY <1>1, PageInvHolds, PTL

\* The device has one submission at a time, and none when the program returns, but
\* for the limits and stale records the definition names.
THEOREM DeviceQuietHolds == Spec => []DeviceQuiet
<1>1. PageInv => DeviceQuiet
  <2> SUFFICES ASSUME PageInv PROVE DeviceQuiet
    OBVIOUS
  <2>1. OneOutstanding
    <3>1. CASE ~(IsKernel /\ fault > 0)
      <4>1. CoverInv
        BY <3>1 DEF PageInv, TypeOK
      <4>2. ASSUME NEW q \in BagToSet(queue) PROVE queue = SetToBag({q})
        <5>1. queue = SetToBag({HwDesc})
          BY <4>1, SingleBag DEF CoverInv
        <5> QED BY <5>1, SingleBag
      <4> QED BY <4>2 DEF OneOutstanding
    <3> QED BY <3>1 DEF OneOutstanding
  <2>2. QuietAtReturn
    BY DEF PageInv, QuietAtReturn, RecordInv, ControlInv, Reports, IsKernel
  <2> QED BY <2>1, <2>2 DEF DeviceQuiet
<1> QED BY <1>1, PageInvHolds, PTL

\* What a program step does to the promise: it keeps it, or makes it or gives up,
\* and the destination stays as it is.
LEMMA ProgramPromise ==
  ASSUME PageInv, Program
  PROVE  /\ copied' = copied
         /\ \/ Outcome' = Outcome
            \/ Outcome = "running" /\ Outcome' = "gaveup"
            \/ Outcome = "running" /\ Outcome' = "done" /\ copied = Page
<1> USE DEF IsKernel, hwVars, deviceVars
<1>0. /\ report \in Reports /\ (report = "none" <=> pc \notin {"unmap", "returned"})
      /\ fault \in Nat /\ prog' = prog
  BY PageParameters DEF PageInv, TypeOK, ControlInv, Program, Prepare, StartUser, Enqcmd,
     SubmitKernel, Poll, Check, UnmapPages
<1>1. CASE Check
  <2>1. copied' = copied /\ report = "none" /\ fault' \in {fault, fault + 1}
    BY <1>0, <1>1 DEF Check
  <2>2. report' = "success" /\ ~(IsKernel /\ fault > 0) => copied = Page
    BY <1>0, <1>1 DEF Check, PageInv, RecordInv
  <2>3. report' \in Reports
    BY <1>0, <1>1 DEF Check, Reports
  <2> QED BY <1>0, <2>1, <2>2, <2>3 DEF Outcome, Reports
<1>2. CASE Prepare \/ StartUser \/ Enqcmd \/ SubmitKernel \/ Poll \/ UnmapPages
  <2>1. copied' = copied /\ fault' = fault
    BY <1>2 DEF Prepare, StartUser, Enqcmd, SubmitKernel, Poll, UnmapPages
  <2>2. report' = report \/ (report = "none" /\ report' \in Reports \ {"success"})
    BY <1>0, <1>2 DEF Prepare, StartUser, Enqcmd, SubmitKernel, Poll, UnmapPages, Reports
  <2> QED BY <1>0, <2>1, <2>2 DEF Outcome, Reports
<1> QED BY <1>1, <1>2 DEF Program

\* The device adds pages of the area, and never after the promise was made.
LEMMA DevicePromise ==
  ASSUME PageInv, Device
  PROVE  /\ Outcome' = Outcome /\ Outcome # "done"
         /\ copied \subseteq copied' /\ copied' \subseteq copied \cup Page
<1>1. PICK q \in BagToSet(queue) : DeviceCompletes(q[1], q[2])
  BY DEF Device
<1>2. UNCHANGED <<prog, fault, report>>
  BY <1>1 DEF DeviceCompletes
<1>3. copied \subseteq copied' /\ copied' \subseteq copied \cup Page
  BY <1>1 DEF DeviceCompletes, Touches
<1>4. queue # EmptyBag
  BY SingleBag
<1>5. Outcome # "done"
  BY <1>4 DEF Outcome, PageInv, RecordInv
<1> QED BY <1>2, <1>3, <1>5 DEF Outcome, IsKernel

\* The resuming programs implement the copy service: "desc successful" means that
\* every page was copied, over all resumptions, and nothing is written afterwards
\* (dsa_copy until its first resumption, main of the user programs).
THEOREM PageServiceHolds == Spec => ImplementsCopyService
<1>1. Init => Service!Init
  BY DEF Init, Service!Init, Outcome, IsKernel
<1>2. PageInv /\ [Next]_vars => [Service!Next]_(Service!vars)
  <2> SUFFICES ASSUME PageInv, [Next]_vars PROVE [Service!Next]_(Service!vars)
    OBVIOUS
  <2>1. CASE Program
    BY <2>1, ProgramPromise DEF Service!Next, Service!vars, Service!Finish, Service!GiveUp, Page
  <2>2. CASE Device
    <3> DEFINE s == copied' \cap Page
    <3>1. s \in SUBSET Page /\ copied' = copied \cup s
      BY <2>2, DevicePromise
    <3>2. Service!CopyPieces
      BY <2>2, <3>1, DevicePromise DEF Service!CopyPieces
    <3> QED BY <3>2 DEF Service!Next, Page
  <2>3. CASE UNCHANGED vars
    BY <2>3 DEF vars, Service!vars, Outcome, IsKernel, Page, deviceVars
  <2> QED BY <2>1, <2>2, <2>3 DEF Next
<1> QED BY <1>1, <1>2, PageInvHolds, PTL DEF Spec, ImplementsCopyService, Service!Spec
=============================================================================
