----------------------------- MODULE MiscProofs -----------------------------
(* What the misc interrupt thread of idxd serves: the character device of a *)
(* user queue and its event log, for any number of files, processes, PASIDs,*)
(* log entries and bindings; and the command interface, for any number of   *)
(* threads and work queues.                                                 *)
EXTENDS CmdExec, Cdev, FiniteSetTheorems, WellFoundedInduction, TLAPS

-----------------------------------------------------------------------------
(* The ring.                                                               *)

LEMMA Sizes == /\ NumFiles \in Nat \ {0} /\ NumPasids \in Nat \ {0}
               /\ EvlSize \in Nat \ {0} /\ MaxBinds \in Nat \ {0}
  BY CdevParameters

\* What the remainder of the numbers next to the ring is.
LEMMA Wrap ==
  ASSUME NEW n \in Nat \ {0}, NEW a \in Int, -n < a, a < 2 * n
  PROVE  a % n = IF a < 0 THEN a + n ELSE IF a < n THEN a ELSE a - n
<1>0. a % n \in 0 .. n - 1 /\ a \div n \in Int
  BY SMT
<1>1. a = n * (a \div n) + (a % n)
  BY SMT
<1> DEFINE q == a \div n
           r == a % n
<1>2. q \in Int /\ r \in 0 .. n - 1 /\ a = n * q + r
  BY <1>0, <1>1
<1> HIDE DEF q, r
<1>3. q < -1 => n * q <= -(2 * n)
  BY <1>2, SMT
<1>4. q >= 2 => n * q >= 2 * n
  BY <1>2, SMT
<1>5. q = -1 \/ q = 0 \/ q = 1
  BY <1>2, <1>3, <1>4
<1>6. q = -1 => n * q = -n
  BY <1>2
<1>7. q = 0 => n * q = 0
  BY <1>2
<1>8. q = 1 => n * q = n
  BY <1>2
<1>9. r = IF a < 0 THEN a + n ELSE IF a < n THEN a ELSE a - n
  BY <1>2, <1>5, <1>6, <1>7, <1>8
<1> QED BY <1>9 DEF r

\* The distance from one slot to another, and the next slot.
Dist(i, h) == IF i >= h THEN i - h ELSE i - h + EvlSize
After(i) == IF i = EvlSize - 1 THEN 0 ELSE i + 1

LEMMA Ring ==
  ASSUME NEW i \in Slots, NEW h \in Slots
  PROVE  /\ (i - h) % EvlSize = Dist(i, h) /\ (i + 1) % EvlSize = After(i)
         /\ Dist(i, h) \in 0 .. EvlSize - 1 /\ After(i) \in Slots
<1>1. EvlSize \in Nat \ {0} /\ i \in 0 .. EvlSize - 1 /\ h \in 0 .. EvlSize - 1
  BY Sizes DEF Slots
<1> DEFINE a == i - h
           b == i + 1
<1>2. /\ a \in Int /\ -EvlSize < a /\ a < 2 * EvlSize /\ a < EvlSize
      /\ b \in Int /\ -EvlSize < b /\ b < 2 * EvlSize /\ ~(b < 0)
  BY <1>1
<1> HIDE DEF a, b
<1>3. a % EvlSize = IF a < 0 THEN a + EvlSize ELSE a
  BY <1>1, <1>2, Wrap, Zenon
<1>4. b % EvlSize = IF b < EvlSize THEN b ELSE b - EvlSize
  BY <1>1, <1>2, Wrap, Zenon
<1> QED BY <1>1, <1>2, <1>3, <1>4 DEF a, b, Dist, After, Slots

\* Distances from one slot.
LEMMA Distances ==
  ASSUME NEW h \in Slots, NEW i \in Slots, NEW j \in Slots
  PROVE  /\ Dist(i, h) \in 0 .. EvlSize - 1 /\ Dist(h, h) = 0
         /\ Dist(i, h) = Dist(j, h) => i = j
         /\ Dist(j, h) <= Dist(i, h) => Dist(i, j) = Dist(i, h) - Dist(j, h)
         /\ IF After(i) = h THEN Dist(i, h) = EvlSize - 1 ELSE Dist(After(i), h) = Dist(i, h) + 1
<1>1. EvlSize \in Nat \ {0} /\ i \in 0 .. EvlSize - 1 /\ j \in 0 .. EvlSize - 1 /\ h \in 0 .. EvlSize - 1
  BY Sizes DEF Slots
<1> QED BY <1>1 DEF Dist, After

\* The cursors of the log, with the remainders as distances.
LEMMA RingTypes ==
  ASSUME TypeOK, EvlInv
  PROVE  /\ hwTail \in Slots /\ hwHead \in Slots /\ swHead \in Slots
         /\ irq.h \in Slots /\ irq.t \in Slots /\ bmap \subseteq Slots
         /\ \A i \in Slots : Span(i) = Dist(i, swHead)
<1>1. /\ hwTail \in Slots /\ hwHead \in Slots /\ swHead \in Slots
      /\ irq.h \in Slots /\ irq.t \in Slots /\ bmap \subseteq Slots
  BY DEF TypeOK
<1> QED BY <1>1, Ring DEF Span

-----------------------------------------------------------------------------
(* The event log is serviced.                                              *)

EvlFrame == UNCHANGED <<evlVars, works>>

LEMMA EvlUnchanged ==
  ASSUME EvlInv, EvlFrame
  PROVE  EvlInv'
  BY DEF EvlInv, EvlFrame, EvlServiced, evlVars, Used, Span

LEMMA EvlMark ==
  ASSUME TypeOK, EvlInv, CtxInv, NEW f \in Files, MarkEvl(f)
  PROVE  EvlInv'
<1>1. /\ UNCHANGED <<log, works, hwTail, hwHead, swHead, intPending, cause, irq>>
      /\ bmap' = bmap \cup {i \in Unread : Marks(i, f)}
      /\ file[f] = "drained"
  BY DEF MarkEvl, workVars, Stage
<1>2. pasid[f] \in Pasids
  BY <1>1 DEF CtxInv, Live
<1>3. ASSUME NEW i \in Slots, Marks(i, f) PROVE Used(i)
  <2>1. log[i] \in Entry \cup {NoEntry} /\ log[i].pasid \in Pasids
    BY <1>2, <1>3 DEF EvlInv, Marks
  <2>2. NoEntry.pasid \notin Pasids
    BY DEF NoEntry, Pasids, None
  <2>3. log[i] \in Entry
    BY <2>1, <2>2
  <2> QED BY <2>3 DEF Used, Entry, Kinds
<1>4. \A i \in bmap' : Used(i)
  BY <1>1, <1>3 DEF EvlInv, Unread
<1>5. (\A i \in bmap : Used(i))'
  BY <1>1, <1>4 DEF Used
<1> QED BY <1>1, <1>5 DEF EvlInv, EvlServiced, Used, Span

\* The new entry goes to the tail, which was behind all used slots.
LEMMA EvlLog ==
  ASSUME TypeOK, EvlInv, CtxInv, NEW f \in Files, NEW kind \in Kinds, DevLog(f, kind)
  PROVE  EvlInv'
<1>0. PICK rcr \in BOOLEAN : log' = [log EXCEPT ![hwTail] = [file |-> f, pasid |-> pasid[f], kind |-> kind, rcr |-> rcr]]
  BY DEF DevLog
<1> DEFINE new == [file |-> f, pasid |-> pasid[f], kind |-> kind, rcr |-> rcr]
<1>1. /\ UNCHANGED <<bmap, hwHead, swHead, irq, works>>
      /\ log' = [log EXCEPT ![hwTail] = new]
      /\ hwTail' = (hwTail + 1) % EvlSize /\ (hwTail + 1) % EvlSize # hwHead
      /\ intPending' = TRUE /\ cause' = (cause \/ ~intPending)
      /\ file[f] = "open"
  BY <1>0 DEF DevLog
<1>2. new \in Entry /\ new.kind # "zero"
  <2>1. pasid[f] \in Pasids
    BY <1>1 DEF CtxInv, Live
  <2> QED BY <2>1 DEF Entry, Kinds
<1> HIDE DEF new
<1>3. /\ hwTail \in Slots /\ swHead \in Slots /\ irq.h \in Slots /\ irq.t \in Slots
      /\ bmap \subseteq Slots /\ \A i \in Slots : Span(i) = Dist(i, swHead)
  BY RingTypes
<1>4. hwTail' = After(hwTail) /\ hwTail' \in Slots
  BY <1>1, <1>3, Ring
<1>5. Dist(hwTail', swHead) = Dist(hwTail, swHead) + 1
  <2>1. After(hwTail) # swHead
    BY <1>1, <1>4 DEF EvlInv
  <2> QED BY <1>3, <1>4, <2>1, Distances
<1>6. log \in [Slots -> Entry \cup {NoEntry}]
  BY DEF EvlInv
<1>7. /\ log' \in [Slots -> Entry \cup {NoEntry}]
      /\ log'[hwTail] = new /\ \A i \in Slots : i # hwTail => log'[i] = log[i]
  BY <1>1, <1>2, <1>3, <1>6
<1>8. \A i \in Slots : (i - swHead') % EvlSize = Dist(i, swHead) /\ Dist(i, swHead) \in Int
  <2> TAKE i \in Slots
  <2>1. (i - swHead) % EvlSize = Dist(i, swHead) /\ Dist(i, swHead) \in 0 .. EvlSize - 1
    BY <1>3, Ring
  <2> QED BY <1>1, <2>1
<1>9. (EvlServiced /\ (intPending => cause \/ irq.at = "evl"))'
  BY <1>1 DEF EvlInv, EvlServiced
<1>10. (irq.at = "locked" => Span(irq.h) <= Span(irq.t) /\ Span(irq.t) <= Span(hwTail))'
  <2>1. irq.at = "locked" => Dist(irq.h, swHead) <= Dist(irq.t, swHead) /\ Dist(irq.t, swHead) <= Dist(hwTail, swHead)
    BY <1>3 DEF EvlInv
  <2>2. /\ (irq.h - swHead') % EvlSize = Dist(irq.h, swHead)
        /\ (irq.t - swHead') % EvlSize = Dist(irq.t, swHead)
        /\ (hwTail' - swHead') % EvlSize = Dist(hwTail, swHead) + 1
        /\ Dist(hwTail, swHead) \in Int /\ Dist(irq.t, swHead) \in Int
    BY <1>3, <1>4, <1>5, <1>8
  <2> QED BY <1>1, <2>1, <2>2 DEF Span
<1>11. (\A i \in Slots : Used(i) => /\ Span(i) < Span(hwTail)
                                    /\ irq.at = "locked" => Span(irq.h) <= Span(i))'
  <2> SUFFICES ASSUME NEW i \in Slots, log'[i].kind # "zero"
               PROVE  /\ Dist(i, swHead) < Dist(hwTail, swHead) + 1
                      /\ irq.at = "locked" => Dist(irq.h, swHead) <= Dist(i, swHead)
    BY <1>1, <1>3, <1>4, <1>5, <1>8 DEF Span, Used
  <2>1. irq.at = "locked" => Dist(irq.h, swHead) <= Dist(hwTail, swHead)
    BY <1>3, <1>8 DEF EvlInv
  <2>2. CASE i = hwTail
    BY <1>8, <2>1, <2>2
  <2>3. CASE i # hwTail
    <3>1. Used(i)
      BY <1>7, <2>3 DEF Used
    <3> QED BY <1>3, <1>8, <3>1 DEF EvlInv
  <2> QED BY <2>2, <2>3
<1>12. (\A i \in bmap : Used(i))'
  BY <1>1, <1>2, <1>3, <1>7 DEF EvlInv, Used
<1>13. works' \in Seq(Entry) /\ irq' \in [at : {"idle", "evl", "cleared", "locked"}, h : Slots, t : Slots] /\ hwHead' = swHead'
  BY <1>1 DEF EvlInv
<1> QED BY <1>7, <1>9, <1>10, <1>11, <1>12, <1>13 DEF EvlInv

LEMMA EvlMisc ==
  ASSUME TypeOK, EvlInv, MiscThread \/ EvlClear
  PROVE  EvlInv'
<1>1. UNCHANGED <<log, works, bmap, hwTail, hwHead, swHead>>
  BY DEF MiscThread, EvlClear, workVars
<1>2. /\ irq' \in [at : {"idle", "evl", "cleared", "locked"}, h : Slots, t : Slots]
      /\ irq'.at # "locked"
      /\ EvlServiced' /\ (intPending' => cause' \/ irq'.at = "evl")
  BY DEF MiscThread, EvlClear, EvlInv, EvlServiced
<1> QED BY <1>1, <1>2 DEF EvlInv, Used, Span

LEMMA EvlReadTail ==
  ASSUME TypeOK, EvlInv, EvlTail
  PROVE  EvlInv'
<1>1. /\ UNCHANGED <<log, works, bmap, hwTail, hwHead, swHead, intPending, cause>>
      /\ irq.at = "cleared" /\ irq' = [at |-> "locked", h |-> swHead, t |-> hwTail]
  BY DEF EvlTail, workVars
<1>2. /\ hwTail \in Slots /\ swHead \in Slots
      /\ \A i \in Slots : (i - swHead) % EvlSize = Dist(i, swHead) /\ Dist(i, swHead) \in 0 .. EvlSize - 1
  BY RingTypes, Ring
<1>3. Dist(swHead, swHead) = 0
  BY <1>2, Sizes DEF Dist, Slots
<1>4. irq' \in [at : {"idle", "evl", "cleared", "locked"}, h : Slots, t : Slots]
  BY <1>1, <1>2
<1>5. EvlServiced' /\ (intPending' => cause' \/ irq'.at = "evl")
  BY <1>1 DEF EvlInv, EvlServiced
<1>6. (irq.at = "locked" => Span(irq.h) <= Span(irq.t) /\ Span(irq.t) <= Span(hwTail))'
  BY <1>1, <1>2, <1>3, Sizes DEF Span
<1>7. (\A i \in Slots : Used(i) => /\ Span(i) < Span(hwTail)
                                   /\ irq.at = "locked" => Span(irq.h) <= Span(i))'
  BY <1>1, <1>2, <1>3, Sizes DEF Span, EvlInv, Used
<1> QED BY <1>1, <1>4, <1>5, <1>6, <1>7 DEF EvlInv, Used

\* The cursor passes one entry, and the slot is empty.
LEMMA EvlPass ==
  ASSUME TypeOK, EvlInv, EvlEntry
  PROVE  EvlInv'
<1> DEFINE e == log[irq.h]
<1>1. /\ irq.at = "locked" /\ irq.h # irq.t
      /\ bmap' = bmap \ {irq.h} /\ log' = [log EXCEPT ![irq.h] = NoEntry]
      /\ irq' = [irq EXCEPT !.h = NextSlot(irq.h)]
      /\ UNCHANGED <<hwTail, hwHead, swHead, intPending, cause>>
      /\ works' = works \/ (works' = Append(works, e) /\ e.kind # "zero")
  BY DEF EvlEntry
<1>2. /\ hwTail \in Slots /\ swHead \in Slots /\ irq.h \in Slots /\ irq.t \in Slots
      /\ bmap \subseteq Slots
      /\ \A i \in Slots : /\ (i - swHead) % EvlSize = Dist(i, swHead)
                          /\ Dist(i, swHead) \in 0 .. EvlSize - 1
                          /\ (i - swHead') % EvlSize = Dist(i, swHead)
  BY <1>1, RingTypes, Ring
<1>3. NextSlot(irq.h) = After(irq.h) /\ After(irq.h) \in Slots
  BY <1>2, Ring DEF NextSlot
<1>4. Dist(irq.h, swHead) <= Dist(irq.t, swHead) /\ Dist(irq.t, swHead) <= Dist(hwTail, swHead)
  BY <1>1, <1>2 DEF EvlInv, Span
<1>5. Dist(After(irq.h), swHead) = Dist(irq.h, swHead) + 1 /\ Dist(irq.h, swHead) < Dist(irq.t, swHead)
  <2>1. Dist(irq.h, swHead) # Dist(irq.t, swHead)
    BY <1>1, <1>2, Distances
  <2>2. Dist(irq.h, swHead) < Dist(irq.t, swHead) /\ Dist(irq.t, swHead) <= EvlSize - 1
    BY <1>2, <1>4, <2>1, Sizes
  <2>3. After(irq.h) # swHead
    BY <1>2, <2>2, Sizes, Distances
  <2> QED BY <1>2, <2>2, <2>3, Distances
<1>6. irq \in [at : {"idle", "evl", "cleared", "locked"}, h : Slots, t : Slots]
  BY DEF EvlInv
<1>7. /\ irq' \in [at : {"idle", "evl", "cleared", "locked"}, h : Slots, t : Slots]
      /\ irq'.at = "locked" /\ irq'.h = After(irq.h) /\ irq'.t = irq.t
  BY <1>1, <1>3, <1>6
<1>8. log \in [Slots -> Entry \cup {NoEntry}]
  BY DEF EvlInv
<1>9. /\ log' \in [Slots -> Entry \cup {NoEntry}]
      /\ log'[irq.h] = NoEntry /\ \A i \in Slots : i # irq.h => log'[i] = log[i]
  BY <1>1, <1>2, <1>8
<1>10. works' \in Seq(Entry)
  <2>1. e.kind # "zero" => e \in Entry
    BY <1>2, <1>8 DEF NoEntry
  <2>2. works \in Seq(Entry)
    BY DEF EvlInv
  <2> HIDE DEF e
  <2> QED BY <1>1, <2>1, <2>2
<1>11. EvlServiced' /\ (intPending' => cause' \/ irq'.at = "evl")
  BY <1>1, <1>7 DEF EvlInv, EvlServiced
<1>12. (irq.at = "locked" => Span(irq.h) <= Span(irq.t) /\ Span(irq.t) <= Span(hwTail))'
  BY <1>1, <1>2, <1>3, <1>4, <1>5, <1>7 DEF Span
<1>13. (\A i \in Slots : Used(i) => /\ Span(i) < Span(hwTail)
                                    /\ irq.at = "locked" => Span(irq.h) <= Span(i))'
  <2> SUFFICES ASSUME NEW i \in Slots, log'[i].kind # "zero"
               PROVE  /\ Dist(i, swHead) < Dist(hwTail, swHead)
                      /\ Dist(irq.h, swHead) + 1 <= Dist(i, swHead)
    BY <1>1, <1>2, <1>3, <1>5, <1>7 DEF Span, Used
  <2>1. i # irq.h /\ Used(i)
    BY <1>9 DEF NoEntry, Used
  <2>2. Dist(i, swHead) < Dist(hwTail, swHead) /\ Dist(irq.h, swHead) <= Dist(i, swHead)
    BY <1>1, <1>2, <2>1 DEF EvlInv, Span
  <2>3. Dist(irq.h, swHead) # Dist(i, swHead)
    BY <1>2, <2>1, Distances
  <2> QED BY <1>2, <2>2, <2>3
<1>14. (\A i \in bmap : Used(i))'
  BY <1>1, <1>2, <1>9 DEF EvlInv, Used
<1>15. hwHead' = swHead'
  BY <1>1 DEF EvlInv
<1> QED BY <1>7, <1>9, <1>10, <1>11, <1>12, <1>13, <1>14, <1>15 DEF EvlInv

\* The head moves to the tail that was read: distances shrink by as much.
LEMMA EvlWriteHead ==
  ASSUME TypeOK, EvlInv, EvlDone
  PROVE  EvlInv'
<1>1. /\ irq.at = "locked" /\ irq.h = irq.t /\ irq' = Idle
      /\ swHead' = irq.h /\ hwHead' = irq.h
      /\ UNCHANGED <<log, works, bmap, hwTail, intPending, cause>>
  BY DEF EvlDone, workVars
<1>2. /\ hwTail \in Slots /\ swHead \in Slots /\ irq.h \in Slots /\ bmap \subseteq Slots
      /\ \A i \in Slots : /\ (i - swHead) % EvlSize = Dist(i, swHead)
                          /\ Dist(i, swHead) \in 0 .. EvlSize - 1
                          /\ (i - swHead') % EvlSize = Dist(i, irq.h)
  BY <1>1, RingTypes, Ring
<1>3. Dist(irq.h, swHead) <= Dist(hwTail, swHead)
  BY <1>1, <1>2 DEF EvlInv, Span
<1>4. ASSUME NEW i \in Slots, Dist(irq.h, swHead) <= Dist(i, swHead)
      PROVE  Dist(i, irq.h) = Dist(i, swHead) - Dist(irq.h, swHead)
  BY <1>2, <1>4, Distances
<1>5. irq' \in [at : {"idle", "evl", "cleared", "locked"}, h : Slots, t : Slots] /\ irq'.at = "idle"
  BY <1>1, Sizes DEF Idle, Slots
<1>6. (\A i \in Slots : Used(i) => /\ Span(i) < Span(hwTail)
                                   /\ irq.at = "locked" => Span(irq.h) <= Span(i))'
  <2> SUFFICES ASSUME NEW i \in Slots, Used(i) PROVE Dist(i, irq.h) < Dist(hwTail, irq.h)
    BY <1>1, <1>2, <1>5 DEF Span, Used
  <2>1. Dist(i, swHead) < Dist(hwTail, swHead) /\ Dist(irq.h, swHead) <= Dist(i, swHead)
    BY <1>1, <1>2 DEF EvlInv, Span
  <2> QED BY <1>2, <1>3, <1>4, <2>1
<1>7. EvlServiced'
  <2>1. hwTail # irq.h => hwTail # swHead
    <3>1. Dist(swHead, swHead) = 0 /\ Dist(irq.h, swHead) \in Nat
      BY <1>2, Distances
    <3>2. hwTail = swHead => Dist(irq.h, swHead) = Dist(swHead, swHead)
      BY <1>3, <3>1
    <3> QED BY <1>2, <3>2, Distances
  <2> QED BY <1>1, <2>1 DEF EvlInv, EvlServiced
<1>8. intPending' => cause' \/ irq'.at = "evl"
  BY <1>1 DEF EvlInv
<1> QED BY <1>1, <1>5, <1>6, <1>7, <1>8 DEF EvlInv, Used

LEMMA EvlWork ==
  ASSUME TypeOK, EvlInv, FaultWork
  PROVE  EvlInv'
<1>1. works' \in Seq(Entry)
  BY DEF FaultWork, EvlInv
<1>2. UNCHANGED evlVars
  BY DEF FaultWork
<1> QED BY <1>1, <1>2 DEF EvlInv, evlVars, EvlServiced, Used, Span

LEMMA EvlStep ==
  ASSUME TypeOK, EvlInv, CtxInv, [Next]_vars
  PROVE  EvlInv'
<1>1. ASSUME NEW f \in Files, \/ OpenFails(f) \/ OpenNoId(f) \/ OpenAddFails(f) \/ OpenSucceeds(f)
                              \/ Unregister(f) \/ CloseDangling(f) \/ DrainWorkqueue(f)
                              \/ SvaUnbind(f) \/ PasidRemove(f) \/ PutWq(f)
      PROVE  EvlFrame
  BY <1>1 DEF OpenFails, OpenNoId, OpenAddFails, OpenSucceeds, Unregister, CloseDangling,
     DrainWorkqueue, SvaUnbind, PasidRemove, PutWq, EvlFrame, workVars
<1>2. UserDrvRemove \/ UserDrvProbe \/ UNCHANGED vars => EvlFrame
  BY DEF UserDrvRemove, UserDrvProbe, vars, EvlFrame, workVars
<1> QED
  BY <1>1, <1>2, EvlUnchanged, EvlMark, EvlLog, EvlMisc, EvlReadTail, EvlPass, EvlWriteHead, EvlWork
     DEF Next, Close, Interrupt, Kinds

-----------------------------------------------------------------------------
(* Contexts and PASIDs.                                                    *)

LEMMA CtxTypes ==
  ASSUME TypeOK
  PROVE  /\ proc \in [Files -> Files] /\ file \in [Files -> Stages] /\ warned \subseteq Files
         /\ pasid \in [Files -> Pasids \cup {None}] /\ xa \in [Pasids -> Files \cup {None}]
         /\ own \in [Pasids -> Files \cup {None}] /\ None \notin Files /\ None \notin Pasids
  BY DEF TypeOK, None, Files, Pasids

CtxFrame == UNCHANGED <<file, pasid, warned, xa, own, proc>>

LEMMA CtxUnchanged ==
  ASSUME CtxInv, CtxFrame
  PROVE  CtxInv'
  BY DEF CtxInv, CtxFrame, CtxLive

\* A file without a context changes its stage.
LEMMA CtxApart ==
  ASSUME TypeOK, CtxInv, NEW f \in Files, NEW to \in Stages \ Live,
         file[f] \notin Live, file' = [file EXCEPT ![f] = to],
         UNCHANGED <<pasid, warned, xa, own, proc>>
  PROVE  CtxInv'
<1>1. \A g \in Files : IF g = f THEN file'[g] = to ELSE file'[g] = file[g]
  BY CtxTypes
<1>2. \A g \in Files : (file'[g] \in Live <=> file[g] \in Live) /\ (file'[g] \in SvaBound <=> file[g] \in SvaBound)
  BY <1>1 DEF SvaBound
<1>3. CtxLive'
  BY <1>2, CtxTypes DEF CtxInv, CtxLive
<1> QED BY <1>2, <1>3, CtxTypes DEF CtxInv

\* The context of a file reaches another stage, and keeps its PASID.
LEMMA CtxStage ==
  ASSUME TypeOK, CtxInv, NEW f \in Files, NEW to \in SvaBound,
         file[f] \in SvaBound, file' = [file EXCEPT ![f] = to],
         UNCHANGED <<pasid, warned, xa, own, proc>>
  PROVE  CtxInv'
<1>1. \A g \in Files : IF g = f THEN file'[g] = to ELSE file'[g] = file[g]
  BY CtxTypes
<1>2. \A g \in Files : (file'[g] \in Live <=> file[g] \in Live) /\ (file'[g] \in SvaBound <=> file[g] \in SvaBound)
  BY <1>1 DEF SvaBound
<1>3. CtxLive'
  BY <1>2, CtxTypes DEF CtxInv, CtxLive
<1> QED BY <1>2, <1>3, CtxTypes DEF CtxInv

LEMMA CtxOpen ==
  ASSUME TypeOK, CtxInv, NEW f \in Files, OpenSucceeds(f) \/ OpenAddFails(f)
  PROVE  CtxInv'
<1>1. PICK p \in PasidsFor(f) :
          /\ own' = [own EXCEPT ![p] = proc[f]]
          /\ pasid' = [pasid EXCEPT ![f] = p]
          /\ xa' = IF xa[p] = None THEN [xa EXCEPT ![p] = f] ELSE xa
          /\ warned' = IF xa[p] = None THEN warned ELSE warned \cup {f}
  BY DEF OpenSucceeds, OpenAddFails, GetsContext
<1>2. PICK to \in {"open", "drained"} :
          file[f] = "new" /\ file' = [file EXCEPT ![f] = to] /\ UNCHANGED proc
  BY DEF OpenSucceeds, OpenAddFails, constVars
<1>3. p \in Pasids /\ (own[p] = proc[f] \/ own[p] = None)
  BY DEF PasidsFor
<1>4. \A g \in Files : IF g = f THEN file'[g] = to /\ pasid'[g] = p
                       ELSE file'[g] = file[g] /\ pasid'[g] = pasid[g]
  BY <1>1, <1>2, CtxTypes
<1>5. \A q \in Pasids : /\ own'[q] = IF q = p THEN proc[f] ELSE own[q]
                        /\ xa'[q] = IF q = p /\ xa[p] = None THEN f ELSE xa[q]
  BY <1>1, <1>3, CtxTypes
<1>6. \A q \in Pasids : xa[q] # None => xa[q] \in Files /\ xa[q] # f
  BY <1>2, CtxTypes DEF CtxInv, CtxLive, Live
<1>7. CtxLive' /\ (\A q \in Pasids : xa[q] # None => pasid[xa[q]] = q)'
  BY <1>3, <1>4, <1>5, <1>6, CtxTypes DEF CtxInv, CtxLive, Live
<1>8. ASSUME NEW g \in Files, file'[g] \in Live
      PROVE  pasid'[g] \in Pasids /\ (g \notin warned' => xa'[pasid'[g]] = g)
  <2>1. CASE g = f
    BY <1>1, <1>3, <1>4, <1>5, <2>1
  <2>2. CASE g # f
    <3>1. pasid[g] \in Pasids /\ (g \notin warned => xa[pasid[g]] = g) /\ g # None
      BY <1>4, <1>8, <2>2, CtxTypes DEF CtxInv
    <3> QED BY <1>1, <1>4, <1>5, <2>2, <3>1
  <2> QED BY <2>1, <2>2
<1>9. ASSUME NEW g \in Files, file'[g] \in SvaBound
      PROVE  own'[pasid'[g]] = proc'[g]
  <2>1. CASE g = f
    BY <1>2, <1>3, <1>4, <1>5, <2>1
  <2>2. CASE g # f
    <3>1. pasid[g] \in Pasids /\ own[pasid[g]] = proc[g] /\ proc[g] # None
      BY <1>4, <1>9, <2>2, CtxTypes DEF CtxInv, SvaBound
    <3> QED BY <1>2, <1>3, <1>4, <1>5, <2>2, <3>1
  <2> QED BY <2>1, <2>2
<1> QED BY <1>7, <1>8, <1>9 DEF CtxInv

LEMMA CtxUnbind ==
  ASSUME TypeOK, CtxInv, NEW f \in Files, SvaUnbind(f)
  PROVE  CtxInv'
<1>1. file[f] = "flushed" /\ file' = [file EXCEPT ![f] = "unbound"]
      /\ UNCHANGED <<pasid, warned, xa, proc>> /\ Disown(f)
  BY DEF SvaUnbind, Stage, constVars
<1>2. \A g \in Files : IF g = f THEN file'[g] = "unbound" ELSE file'[g] = file[g]
  BY <1>1, CtxTypes
<1>3. \A g \in Files : /\ file'[g] \in Live <=> file[g] \in Live
                       /\ file'[g] \in SvaBound <=> file[g] \in SvaBound /\ g # f
  BY <1>1, <1>2 DEF SvaBound, Live
<1>4. CtxLive'
  BY <1>1, <1>3, CtxTypes DEF CtxInv, CtxLive
<1>5. ASSUME NEW g \in Files, file[g] \in SvaBound, g # f
      PROVE  own'[pasid[g]] = proc[g]
  <2>1. pasid[g] \in Pasids /\ own[pasid[g]] = proc[g]
    BY <1>5 DEF CtxInv, SvaBound
  <2>2. CASE own' = own
    BY <2>1, <2>2
  <2>3. CASE /\ ~ \E h \in Files \ {f} : file[h] \in SvaBound /\ proc[h] = proc[f]
             /\ own' = [p \in Pasids |-> IF own[p] = proc[f] THEN None ELSE own[p]]
    BY <1>5, <2>1, <2>3
  <2> QED BY <1>1, <2>2, <2>3 DEF Disown
<1> QED BY <1>1, <1>3, <1>4, <1>5 DEF CtxInv

LEMMA CtxRemove ==
  ASSUME TypeOK, CtxInv, NEW f \in Files, PasidRemove(f)
  PROVE  CtxInv'
<1>1. /\ file[f] = "unbound" /\ file' = [file EXCEPT ![f] = "removed"]
      /\ pasid' = [pasid EXCEPT ![f] = None] /\ warned' = warned \ {f}
      /\ xa' = XaRemoved(f) /\ UNCHANGED <<own, proc>>
  BY DEF PasidRemove, Stage, constVars
<1>2. \A g \in Files : IF g = f THEN file'[g] = "removed"
                       ELSE file'[g] = file[g] /\ pasid'[g] = pasid[g]
  BY <1>1, CtxTypes
<1>3. \A q \in Pasids : xa'[q] = IF xa[q] = f THEN None ELSE xa[q]
  BY <1>1, CtxTypes DEF CtxInv, XaRemoved
<1>4. CtxLive' /\ (\A q \in Pasids : xa[q] # None => pasid[xa[q]] = q)'
  BY <1>2, <1>3, CtxTypes DEF CtxInv, CtxLive
<1>5. \A g \in Files : file'[g] \in Live => g # f /\ file[g] \in Live
  BY <1>2 DEF Live
<1>6. \A g \in Files : file'[g] \in SvaBound => g # f /\ file[g] \in SvaBound
  BY <1>2 DEF Live, SvaBound
<1> QED BY <1>1, <1>2, <1>3, <1>4, <1>5, <1>6, CtxTypes DEF CtxInv

LEMMA CtxStep ==
  ASSUME TypeOK, CtxInv, [Next]_vars
  PROVE  CtxInv'
<1>1. ASSUME NEW f \in Files, OpenFails(f) \/ OpenNoId(f) \/ CloseDangling(f) \/ PutWq(f)
      PROVE  CtxInv'
  <2>1. PICK to \in {"failed", "dangling", "lost", "closed"} :
            file' = [file EXCEPT ![f] = to]
    BY <1>1 DEF OpenFails, OpenNoId, CloseDangling, PutWq, Stage
  <2>2. file[f] \notin Live /\ to \in Stages \ Live
    BY <1>1 DEF OpenFails, OpenNoId, CloseDangling, PutWq, Stage, Live, Stages
  <2>3. UNCHANGED <<pasid, warned, xa, own, proc>>
    BY <1>1 DEF OpenFails, OpenNoId, CloseDangling, PutWq, constVars
  <2> QED BY <2>1, <2>2, <2>3, CtxApart
<1>2. ASSUME NEW f \in Files, Unregister(f) \/ MarkEvl(f) \/ DrainWorkqueue(f)
      PROVE  CtxInv'
  <2>1. PICK to \in {"drained", "marked", "flushed"} : file' = [file EXCEPT ![f] = to]
    BY <1>2 DEF Unregister, MarkEvl, DrainWorkqueue, Stage
  <2>2. file[f] \in SvaBound /\ to \in SvaBound
    BY <1>2 DEF Unregister, MarkEvl, DrainWorkqueue, Stage, SvaBound, Live
  <2>3. UNCHANGED <<pasid, warned, xa, own, proc>>
    BY <1>2 DEF Unregister, MarkEvl, DrainWorkqueue, constVars
  <2> QED BY <2>1, <2>2, <2>3, CtxStage
<1>3. ASSUME NEW f \in Files, NEW kind, DevLog(f, kind) PROVE CtxFrame
  BY <1>3 DEF DevLog, CtxFrame, fileVars, constVars
<1>4. Interrupt \/ FaultWork => CtxFrame
  BY DEF Interrupt, MiscThread, EvlClear, EvlTail, EvlEntry, EvlDone, FaultWork, CtxFrame, fileVars, constVars
<1>5. UserDrvRemove \/ UserDrvProbe \/ UNCHANGED vars => CtxFrame
  BY DEF UserDrvRemove, UserDrvProbe, vars, CtxFrame, fileVars, constVars
<1> QED
  BY <1>1, <1>2, <1>3, <1>4, <1>5, CtxUnchanged, CtxOpen, CtxUnbind, CtxRemove DEF Next, Close

-----------------------------------------------------------------------------
(* Names and clients.                                                      *)

\* A set of naturals that is not empty has a least element.
LEMMA LeastNat ==
  ASSUME NEW S \in SUBSET Nat, S # {}
  PROVE  \E x \in S : \A y \in S : x <= y
<1> DEFINE R == {p \in Nat \X Nat : p[1] < p[2]}
<1>1. IsWellFoundedOn(R, Nat)
  BY NatLessThanWellFounded, Zenon DEF OpToRel
<1> HIDE DEF R
<1>2. PICK x \in S : \A y \in S : ~(<<y, x>> \in R)
  BY <1>1, WFMin
<1>3. ASSUME NEW y \in S PROVE x <= y
  <2>1. x \in Nat /\ y \in Nat
    OBVIOUS
  <2>2. y < x => <<y, x>> \in R
    BY <2>1 DEF R
  <2> QED BY <1>2, <2>1, <2>2
<1> QED BY <1>3

LEMMA FilesFinite == IsFiniteSet(Files) /\ Cardinality(Files) = NumFiles
  BY FS_Interval, Sizes DEF Files

\* Ids in use belong to open files, so that one of NumFiles + 1 is free.
LEMMA FreeId ==
  ASSUME TypeOK, CountInv
  PROVE  NewId \in (1 .. NumFiles + 1) \ ids
<1> DEFINE S == 1 .. NumFiles + 1
<1>1. ASSUME S \subseteq ids PROVE FALSE
  <2> DEFINE holder == [i \in S |-> CHOOSE g \in Files : fid[g] = i]
  <2>1. \A i \in S : \E g \in Files : fid[g] = i
    BY <1>1 DEF CountInv, OpenFiles
  <2>2. holder \in [S -> Files] /\ \A i \in S : fid[holder[i]] = i
    BY <2>1
  <2>3. IsFiniteSet(S) /\ Cardinality(S) = NumFiles + 1
    BY FS_Interval, Sizes
  <2> HIDE DEF holder, S
  <2>4. PICK x, y \in S : x # y /\ holder[x] = holder[y]
    <3>1. Cardinality(Files) < Cardinality(S) /\ IsFiniteSet(Files)
      BY <2>3, FilesFinite, Sizes
    <3> QED BY <2>2, <2>3, <3>1, FS_PigeonHole
  <2> QED BY <2>2, <2>4
<1>2. S \ ids \in SUBSET Nat /\ S \ ids # {}
  BY <1>1, Sizes
<1>3. \E x \in S \ ids : \A y \in S \ ids : x <= y
  BY <1>2, LeastNat
<1> QED BY <1>3 DEF NewId, Min

LEMMA CountTypes ==
  ASSUME TypeOK
  PROVE  /\ file \in [Files -> Stages] /\ fid \in [Files -> 0 .. NumFiles + 1]
         /\ pasid \in [Files -> Pasids \cup {None}] /\ clients \in Int
         /\ stuck \in Files \cup {None} /\ None \notin Files
  BY Sizes DEF TypeOK, Files, None

LEMMA SetsFinite ==
  /\ IsFiniteSet(Users) /\ IsFiniteSet(Gone)
  /\ Cardinality(Users) \in Nat /\ Cardinality(Gone) \in Nat
  /\ Cardinality(Users) <= NumFiles /\ Cardinality(Gone) <= NumFiles
<1>1. Users \in SUBSET Files /\ Gone \in SUBSET Files
  BY DEF Users, Gone
<1> QED BY <1>1, FilesFinite, FS_Subset, FS_CardinalityType

CountFrame == UNCHANGED <<ids, fid, busy, bound, clients, hwPasid, ded, pasid>>

\* The queue has one client at most, when it is dedicated.
LEMMA OneClient ==
  ASSUME TypeOK, CountInv, ~busy, ded, NEW f \in Files, file[f] = "open"
  PROVE  clients = 1 /\ hwPasid = pasid[f] /\ \A g \in Users : g = f
<1>1. clients = 1 /\ hwPasid = pasid[f] /\ Cardinality(Users) = 1 /\ f \in Users
  BY DEF CountInv, ClientsCount, Users, OpenFiles, Live
<1>2. PICK x : Users = {x}
  BY <1>1, SetsFinite, FS_Singleton
<1> QED BY <1>1, <1>2

\* Nothing of the counts changes; a crash, if any, has its cause.
LEMMA CountUnchanged ==
  ASSUME CountInv, CountFrame, UNCHANGED <<file, stuck>>, oops' => oops \/ busy
  PROVE  CountInv'
<1>1. UNCHANGED <<Users, Gone, OpenFiles>>
  BY DEF Users, Gone, OpenFiles
<1>2. OopsExplained'
  BY DEF CountInv, CountFrame, OopsExplained
<1>3. ClientsCount'
  BY <1>1 DEF CountInv, CountFrame, ClientsCount
<1> QED BY <1>1, <1>2, <1>3 DEF CountInv, CountFrame

\* A stage that has to do with the counts neither before nor after.
LEMMA CountStage ==
  ASSUME TypeOK, CountInv, NEW f \in Files, NEW to \in Stages,
         UNCHANGED <<ids, busy, bound, clients, ded>>,
         file[f] # "open" /\ to # "open", file[f] # "closed" /\ to # "closed",
         Users' = Users, stuck' = stuck \/ (stuck' = f /\ bound),
         file' = [file EXCEPT ![f] = to],
         \A g \in Files \ {f} : fid'[g] = fid[g] /\ pasid'[g] = pasid[g],
         hwPasid' = hwPasid \/ ~ded \/ clients = 0 \/ busy,
         ~oops, oops' => busy \/ to = "lost"
  PROVE  CountInv'
<1>1. \A g \in Files : IF g = f THEN file'[g] = to ELSE file'[g] = file[g]
  BY CountTypes
<1>2. UNCHANGED <<Users, Gone, OpenFiles>> /\ f \notin OpenFiles /\ stuck' \notin OpenFiles'
  BY <1>1 DEF CountInv, Gone, OpenFiles
<1>3. \A g \in OpenFiles : fid'[g] = fid[g] /\ pasid'[g] = pasid[g]
  BY <1>2 DEF OpenFiles
<1>4. OopsExplained'
  BY <1>1 DEF CountInv, OopsExplained
<1>5. ClientsCount'
  <2>1. ~busy => clients = Cardinality(Users)
    BY DEF CountInv, ClientsCount
  <2>2. ASSUME ~busy, NEW g \in Files, ded, file'[g] = "open"
        PROVE  clients = 1 /\ hwPasid' = pasid'[g]
    <3>1. g \in OpenFiles /\ file[g] = "open" /\ g # f
      BY <1>1, <2>2 DEF OpenFiles
    <3>2. clients = 1 /\ hwPasid = pasid[g]
      BY <2>2, <3>1, OneClient
    <3> QED BY <1>3, <2>2, <3>1, <3>2
  <2> QED BY <1>2, <2>1, <2>2 DEF ClientsCount
<1>6. (ids \subseteq {fid[g] : g \in OpenFiles})' /\ (\A g, h \in OpenFiles : fid[g] = fid[h] => g = h)'
  BY <1>2, <1>3 DEF CountInv
<1>7. (~busy => \A g \in OpenFiles : fid[g] \in ids)'
  BY <1>2, <1>3 DEF CountInv
<1>8. (/\ ~bound /\ ~busy => Users = {}
       /\ clients <= Cardinality(Users) /\ -Cardinality(Gone) <= clients)'
  BY <1>2 DEF CountInv
<1>9. (stuck # None => bound)'
  BY DEF CountInv
<1> QED BY <1>2, <1>4, <1>5, <1>6, <1>7, <1>8, <1>9 DEF CountInv

LEMMA CountOpen ==
  ASSUME TypeOK, CountInv, NEW f \in Files, OpenSucceeds(f)
  PROVE  CountInv'
<1>1. /\ file[f] = "new" /\ bound /\ stuck = None /\ (ded => clients = 0) /\ ~NameTaken
      /\ fid' = [fid EXCEPT ![f] = NewId] /\ ids' = ids \cup {NewId}
      /\ file' = [file EXCEPT ![f] = "open"] /\ clients' = clients + 1
      /\ UNCHANGED <<stuck, oops, bound, busy, ded>>
  BY DEF OpenSucceeds, Admits, bindVars, constVars
<1>2. ded => hwPasid' = pasid'[f]
  BY CountTypes DEF OpenSucceeds, GetsContext
<1>3. \A g \in Files : IF g = f THEN file'[g] = "open" /\ fid'[g] = NewId
                       ELSE file'[g] = file[g] /\ fid'[g] = fid[g]
  BY <1>1, FreeId, CountTypes
<1>4. /\ Users' = Users \cup {f} /\ f \notin Users /\ Gone' = Gone
      /\ OpenFiles' = OpenFiles \cup {f} /\ f \notin OpenFiles /\ stuck' \notin OpenFiles'
  BY <1>1, <1>3, CountTypes DEF Users, Gone, OpenFiles, Live
<1>5. Cardinality(Users') = Cardinality(Users) + 1
  BY <1>4, SetsFinite, FS_AddElement
<1>6. \A g \in OpenFiles : fid'[g] = fid[g] /\ fid[g] # NewId
  BY <1>1, <1>3, <1>4 DEF NameTaken, OpenFiles
<1>7. (ids \subseteq {fid[g] : g \in OpenFiles})' /\ (\A g, h \in OpenFiles : fid[g] = fid[h] => g = h)'
  BY <1>1, <1>3, <1>4, <1>6 DEF CountInv
<1>8. (~busy => \A g \in OpenFiles : fid[g] \in ids)'
  BY <1>1, <1>3, <1>4, <1>6 DEF CountInv
<1>9. (/\ ~bound /\ ~busy => Users = {}
       /\ clients <= Cardinality(Users) /\ -Cardinality(Gone) <= clients)'
  BY <1>1, <1>4, <1>5, SetsFinite, CountTypes DEF CountInv
<1>10. ClientsCount'
  <2>1. ~busy => clients = Cardinality(Users)
    BY DEF CountInv, ClientsCount
  <2>3. ASSUME ~busy, ded, NEW g \in Files, file'[g] = "open" PROVE g = f
    <3>1. Users = {}
      BY <1>1, <2>1, <2>3, SetsFinite, FS_EmptySet
    <3>2. g # stuck
      BY <1>1, CountTypes
    <3> QED BY <1>3, <2>3, <3>1, <3>2 DEF Users, Live
  <2> QED BY <1>1, <1>2, <1>5, <2>1, <2>3 DEF ClientsCount
<1>11. OopsExplained'
  BY <1>1, <1>3 DEF CountInv, OopsExplained
<1> QED BY <1>1, <1>4, <1>7, <1>8, <1>9, <1>10, <1>11 DEF CountInv

LEMMA CountUnregister ==
  ASSUME TypeOK, CountInv, NEW f \in Files, Unregister(f), ~oops
  PROVE  CountInv'
<1>1. /\ file[f] = "open" /\ file' = [file EXCEPT ![f] = "drained"]
      /\ ids' = ids \ {fid[f]}
      /\ UNCHANGED <<fid, pasid, clients, stuck, bound, busy, ded, oops>>
  BY DEF Unregister, Stage, bindVars, constVars
<1>2. \A g \in Files : IF g = f THEN file'[g] = "drained" ELSE file'[g] = file[g]
  BY <1>1, CountTypes
<1>3. /\ Users' = Users /\ Gone' = Gone /\ OpenFiles' = OpenFiles \ {f} /\ f \in OpenFiles
      /\ stuck' \notin OpenFiles'
  BY <1>1, <1>2 DEF CountInv, Users, Gone, OpenFiles, Live
<1>4. (ids \subseteq {fid[g] : g \in OpenFiles})'
  BY <1>1, <1>3 DEF CountInv
<1>5. (\A g, h \in OpenFiles : fid[g] = fid[h] => g = h)' /\ (~busy => \A g \in OpenFiles : fid[g] \in ids)'
  BY <1>1, <1>3 DEF CountInv
<1>6. ClientsCount'
  <2>1. ~busy => clients = Cardinality(Users)
    BY DEF CountInv, ClientsCount
  <2>3. ASSUME ~busy, ded, NEW g \in Files, file'[g] = "open" PROVE FALSE
    <3>1. g # f /\ file[g] = "open"
      BY <1>2, <2>3
    <3>2. g \in Users
      BY <3>1 DEF Users, Live, CountInv, OpenFiles
    <3> QED BY <1>1, <2>3, <3>1, <3>2, OneClient
  <2> QED BY <1>1, <1>3, <2>1, <2>3 DEF ClientsCount
<1>7. OopsExplained'
  BY <1>1 DEF CountInv, OopsExplained
<1> QED BY <1>1, <1>3, <1>4, <1>5, <1>6, <1>7 DEF CountInv

LEMMA CountPut ==
  ASSUME TypeOK, CountInv, NEW f \in Files, PutWq(f), ~oops
  PROVE  CountInv'
<1>1. /\ file[f] = "removed" /\ stuck = None
      /\ file' = [file EXCEPT ![f] = "closed"] /\ clients' = clients - 1
      /\ UNCHANGED <<ids, fid, pasid, hwPasid, stuck, bound, busy, ded, oops>>
  BY DEF PutWq, Stage, bindVars, constVars
<1>2. \A g \in Files : IF g = f THEN file'[g] = "closed" ELSE file'[g] = file[g]
  BY <1>1, CountTypes
<1>3. /\ Users' = Users \ {f} /\ f \in Users /\ Gone' = Gone \cup {f} /\ f \notin Gone
      /\ OpenFiles' = OpenFiles /\ stuck' \notin OpenFiles'
  BY <1>1, <1>2, CountTypes DEF Users, Gone, OpenFiles, Live
<1>4. Cardinality(Users') = Cardinality(Users) - 1 /\ Cardinality(Gone') = Cardinality(Gone) + 1
  BY <1>3, SetsFinite, FS_AddElement, FS_RemoveElement
<1>5. (/\ ~bound /\ ~busy => Users = {}
       /\ clients <= Cardinality(Users) /\ -Cardinality(Gone) <= clients)'
  <2>1. clients' <= Cardinality(Users')
    BY <1>1, <1>4, SetsFinite, CountTypes DEF CountInv
  <2>2. -Cardinality(Gone') <= clients'
    BY <1>1, <1>4, SetsFinite, CountTypes DEF CountInv
  <2> QED BY <1>1, <1>3, <2>1, <2>2 DEF CountInv
<1>6. ClientsCount'
  <2>1. ~busy => clients = Cardinality(Users)
    BY DEF CountInv, ClientsCount
  <2>3. ASSUME ~busy, ded, NEW g \in Files, file'[g] = "open" PROVE FALSE
    <3>1. g # f /\ file[g] = "open"
      BY <1>2, <2>3
    <3> QED BY <1>3, <2>3, <3>1, OneClient
  <2> QED BY <1>1, <1>4, <2>1, <2>3 DEF ClientsCount
<1>7. OopsExplained'
  BY <1>1 DEF CountInv, OopsExplained
<1> QED BY <1>1, <1>3, <1>5, <1>6, <1>7 DEF CountInv

LEMMA CountUnbind ==
  ASSUME TypeOK, CountInv, UserDrvRemove, ~oops
  PROVE  CountInv'
<1>1. /\ bound' = FALSE /\ ids' = {} /\ clients' = 0 /\ stuck = None
      /\ busy' = (busy \/ Clients # {} \/ \E f \in Files : file[f] = "removed")
      /\ UNCHANGED <<file, fid, pasid, stuck, ded, oops>>
  BY DEF UserDrvRemove, constVars
<1>2. Users' = Users /\ Gone' = Gone /\ OpenFiles' = OpenFiles /\ stuck' \notin OpenFiles'
  BY <1>1, CountTypes DEF Users, Gone, OpenFiles
<1>3. ~busy' => Users = {} /\ OpenFiles = {}
  BY <1>1, CountTypes DEF Clients, Users, OpenFiles, Live
<1>4. Cardinality({}) = 0
  BY FS_EmptySet
<1>5. ClientsCount'
  <2> QED BY <1>1, <1>2, <1>3, <1>4 DEF ClientsCount, OpenFiles
<1>6. OopsExplained'
  BY <1>1 DEF OopsExplained
<1>7. (clients <= Cardinality(Users) /\ -Cardinality(Gone) <= clients)'
  BY <1>1, <1>2, SetsFinite
<1>8. (\A g, h \in OpenFiles : fid[g] = fid[h] => g = h)'
  BY <1>1, <1>2 DEF CountInv
<1>9. (ids \subseteq {fid[g] : g \in OpenFiles})' /\ (~busy => \A g \in OpenFiles : fid[g] \in ids)'
  BY <1>1, <1>2, <1>3
<1> QED BY <1>1, <1>2, <1>3, <1>5, <1>6, <1>7, <1>8, <1>9 DEF CountInv

LEMMA CountStep ==
  ASSUME TypeOK, EvlInv, CountInv, RecordInv, [Next]_vars
  PROVE  CountInv'
<1>1. CASE UNCHANGED vars
  BY <1>1, CountUnchanged DEF vars, CountFrame, fileVars, bindVars, constVars
<1> SUFFICES ASSUME Next PROVE CountInv'
  BY <1>1
<1>2. ~oops
  BY DEF Next
<1>3. ASSUME NEW f \in Files, OpenFails(f) \/ OpenNoId(f) \/ CloseDangling(f)
      PROVE  CountInv'
  <2>1. PICK to \in {"failed", "dangling", "lost"} :
            file' = [file EXCEPT ![f] = to] /\ (oops' => to = "lost")
    BY <1>2, <1>3 DEF OpenFails, OpenNoId, CloseDangling, Stage
  <2>2. /\ file[f] \in {"new", "dangling"} /\ UNCHANGED <<ids, fid, pasid, busy, bound, clients, ded, stuck>>
    BY <1>3 DEF OpenFails, OpenNoId, CloseDangling, Stage, bindVars, constVars
  <2>3. Users' = Users
    BY <2>1, <2>2, CountTypes DEF Users, Live
  <2>4. hwPasid' = hwPasid \/ ~ded \/ clients = 0 \/ busy
    BY <1>3 DEF OpenFails, OpenNoId, CloseDangling, Admits
  <2>5. to \in Stages /\ file[f] # "open" /\ to # "open" /\ file[f] # "closed" /\ to # "closed"
    BY <2>2 DEF Stages, Live
  <2> QED BY <1>2, <2>1, <2>2, <2>3, <2>4, <2>5, CountStage
<1>4. ASSUME NEW f \in Files,
             OpenAddFails(f) \/ MarkEvl(f) \/ DrainWorkqueue(f) \/ SvaUnbind(f) \/ PasidRemove(f)
      PROVE  CountInv'
  <2>1. PICK to \in {"drained", "marked", "flushed", "unbound", "removed"} : file' = [file EXCEPT ![f] = to]
    BY <1>4 DEF OpenAddFails, MarkEvl, DrainWorkqueue, SvaUnbind, PasidRemove, Stage
  <2>2. \/ file[f] = "new" /\ stuck = None /\ stuck' = f /\ UNCHANGED oops
        \/ file[f] \in {"drained", "marked", "flushed", "unbound"} /\ stuck' = stuck
    BY <1>4 DEF OpenAddFails, MarkEvl, DrainWorkqueue, SvaUnbind, PasidRemove, Stage
  <2>3. /\ UNCHANGED <<ids, busy, bound, clients, ded>>
        /\ hwPasid' = hwPasid \/ ~ded \/ clients = 0
    BY <1>4 DEF OpenAddFails, Admits, MarkEvl, DrainWorkqueue, SvaUnbind, PasidRemove, bindVars, constVars
  <2>4. \A g \in Files \ {f} : fid'[g] = fid[g] /\ pasid'[g] = pasid[g]
    BY <1>4, CountTypes DEF OpenAddFails, GetsContext, MarkEvl, DrainWorkqueue, SvaUnbind, PasidRemove
  <2>5. Users' = Users
    BY <2>1, <2>2, CountTypes DEF Users, Live
  <2>6. oops' => busy
    <3>1. CASE stuck' = f /\ UNCHANGED oops
      BY <1>2, <3>1
    <3>2. CASE f # stuck /\ file[f] # "new"
      <4>1. f \in Users
        BY <2>2, <3>2 DEF Users, Live
      <4> QED BY <1>2, <1>4, <2>2, <3>2, <4>1 DEF OpenAddFails, MarkEvl, DrainWorkqueue, SvaUnbind, PasidRemove, CountInv
    <3>3. CASE f = stuck /\ file[f] # "new"
      <4>1. bound
        BY <3>3, CountTypes DEF CountInv
      <4> QED BY <1>2, <1>4, <3>3, <4>1 DEF OpenAddFails, MarkEvl, DrainWorkqueue, SvaUnbind, PasidRemove, CountInv
    <3> QED BY <2>2, <3>1, <3>2, <3>3
  <2>7. to \in Stages /\ file[f] # "open" /\ to # "open" /\ file[f] # "closed" /\ to # "closed"
    BY <2>2 DEF Stages, Live
  <2>8. stuck' = stuck \/ (stuck' = f /\ bound)
    BY <1>4 DEF OpenAddFails, MarkEvl, DrainWorkqueue, SvaUnbind, PasidRemove
  <2> QED BY <1>2, <2>1, <2>3, <2>4, <2>5, <2>6, <2>7, <2>8, CountStage
<1>5. ASSUME NEW f \in Files, NEW kind, DevLog(f, kind) PROVE CountInv'
  BY <1>5, CountUnchanged DEF DevLog, CountFrame, fileVars, bindVars, constVars
<1>6. CASE MiscThread \/ EvlClear \/ EvlTail \/ EvlDone \/ FaultWork
  <2>1. CountFrame /\ UNCHANGED <<file, stuck, oops>>
    BY <1>6 DEF MiscThread, EvlClear, EvlTail, EvlDone, FaultWork, CountFrame, fileVars, bindVars, constVars
  <2> QED BY <2>1, CountUnchanged
<1>7. CASE EvlEntry
  <2>1. CountFrame /\ UNCHANGED <<file, stuck>>
    BY <1>7 DEF EvlEntry, CountFrame, fileVars, bindVars, constVars
  <2>2. oops' => oops \/ (~bound /\ irq.h \notin bmap /\ Used(irq.h))
    BY <1>7 DEF EvlEntry, Used
  <2>3. ~bound /\ irq.h \notin bmap /\ Used(irq.h) => busy
    <3>1. irq.h \in Slots
      BY RingTypes
    <3>2. Used(irq.h) => log[irq.h].file \in Files
      BY <3>1 DEF EvlInv, Used, NoEntry, Entry
    <3>3. ~bound /\ Used(irq.h) /\ irq.h \notin bmap => log[irq.h].file \in Users
      BY <3>1, <3>2, CountTypes DEF RecordInv, LogSound, Users, Live, CountInv
    <3> QED BY <3>3 DEF CountInv
  <2> QED BY <2>1, <2>2, <2>3, CountUnchanged
<1>8. CASE UserDrvProbe
  <2>1. bound' = TRUE /\ UNCHANGED <<ids, fid, busy, clients, hwPasid, ded, pasid, file, stuck, oops>>
    BY <1>8 DEF UserDrvProbe, fileVars, constVars
  <2>2. UNCHANGED <<Users, Gone, OpenFiles>>
    BY <2>1 DEF Users, Gone, OpenFiles
  <2>3. OopsExplained'
    BY <2>1 DEF CountInv, OopsExplained
  <2>4. ClientsCount'
    BY <2>1, <2>2 DEF CountInv, ClientsCount
  <2> QED BY <2>1, <2>2, <2>3, <2>4 DEF CountInv
<1>9. ASSUME NEW f \in Files, OpenSucceeds(f) \/ Unregister(f) \/ PutWq(f)
      PROVE  CountInv'
  BY <1>2, <1>9, CountOpen, CountUnregister, CountPut
<1>10. CASE UserDrvRemove
  BY <1>2, <1>10, CountUnbind
<1> QED
  BY <1>3, <1>4, <1>5, <1>6, <1>7, <1>8, <1>9, <1>10 DEF Next, Close, Interrupt

-----------------------------------------------------------------------------
(* Where the records go.                                                   *)

LEMMA RecordTypes ==
  ASSUME TypeOK, EvlInv
  PROVE  /\ proc \in [Files -> Files] /\ file \in [Files -> Stages]
         /\ rec \in [Files -> Outcomes] /\ sub \in [Files -> Outcomes]
         /\ pasid \in [Files -> Pasids \cup {None}]
         /\ \A i \in Slots : Used(i) => log[i].file \in Files /\ log[i].kind \in Kinds
         /\ \A k \in DOMAIN works : works[k].file \in Files /\ works[k].kind \in Kinds
<1>1. \A i \in Slots : Used(i) => log[i] \in Entry
  BY DEF EvlInv, Used, NoEntry
<1>2. \A k \in DOMAIN works : works[k] \in Entry
  BY DEF EvlInv
<1> QED BY <1>1, <1>2 DEF TypeOK, Entry

\* One file changes its stage, its records, its PASID; entries stay as they are.
LEMMA RecordStage ==
  ASSUME TypeOK, EvlInv, RecordInv, NEW f \in Files, NEW to,
         file' = [file EXCEPT ![f] = to], to # "new",
         UNCHANGED <<log, bmap, works, proc, wrong>>,
         \A g \in Files \ {f} : /\ rec'[g] = rec[g] /\ sub'[g] = sub[g] /\ pasid'[g] = pasid[g]
                                /\ g \in warned' <=> g \in warned,
         \A i \in Slots : Used(i) /\ log[i].file = f =>
            /\ to \in {"drained", "marked", "flushed", "unbound", "removed", "closed"}
            /\ i \notin bmap => to = "drained"
            /\ to = "drained" => log[i].pasid = pasid'[f],
         \A k \in DOMAIN works : works[k].file = f =>
            to \in {"drained", "marked"} /\ works[k].pasid = pasid'[f],
         to = "open" => rec'[f] = "none" /\ sub'[f] = "none"
  PROVE  RecordInv'
<1>1. \A g \in Files : IF g = f THEN file'[g] = to ELSE file'[g] = file[g]
  BY RecordTypes
<1>2. ASSUME NEW i \in Slots, Used(i)'
      PROVE  /\ EntrySound(log[i])' /\ file'[log[i].file] \in Live \cup {"removed", "closed"}
             /\ i \notin bmap => file'[log[i].file] \in {"open", "drained"}
             /\ i \in bmap => ~(file'[log[i].file] = "open" /\ Alone(log[i].file)')
             /\ file'[log[i].file] \in {"open", "drained"} => log[i].pasid = pasid'[log[i].file]
  <2>1. Used(i) /\ log[i].file \in Files
    BY <1>2, RecordTypes DEF Used
  <2>2. /\ EntrySound(log[i]) /\ file[log[i].file] \in Live \cup {"removed", "closed"}
        /\ i \notin bmap => file[log[i].file] \in {"open", "drained"}
        /\ i \in bmap => ~(file[log[i].file] = "open" /\ Alone(log[i].file))
        /\ file[log[i].file] \in {"open", "drained"} => log[i].pasid = pasid[log[i].file]
    BY <2>1 DEF RecordInv, LogSound
  <2>3. CASE log[i].file = f
    <3>1. file'[log[i].file] = to /\ to # "open"
      BY <1>1, <2>1, <2>3
    <3> QED BY <2>1, <2>2, <2>3, <3>1 DEF EntrySound, Live
  <2>4. CASE log[i].file # f
    BY <1>1, <2>1, <2>2, <2>4 DEF EntrySound, Alone
  <2> QED BY <2>3, <2>4
<1>3. LogSound'
  BY <1>2 DEF LogSound
<1>4. ASSUME NEW k \in DOMAIN works
      PROVE  /\ EntrySound(works[k])' /\ file'[works[k].file] \in {"open", "drained", "marked"}
             /\ works[k].pasid = pasid'[works[k].file]
  <2>1. works[k].file \in Files
    BY RecordTypes
  <2>2. /\ EntrySound(works[k]) /\ file[works[k].file] \in {"open", "drained", "marked"}
        /\ works[k].pasid = pasid[works[k].file]
    BY DEF RecordInv, WorksSound
  <2>3. CASE works[k].file = f
    <3>1. file'[works[k].file] = to /\ to # "open"
      BY <1>1, <2>1, <2>3
    <3> QED BY <2>1, <2>2, <2>3, <3>1 DEF EntrySound
  <2>4. CASE works[k].file # f
    BY <1>1, <2>1, <2>2, <2>4 DEF EntrySound
  <2> QED BY <2>3, <2>4
<1>5. WorksSound'
  BY <1>4 DEF WorksSound
<1>6. EntriesDistinct' /\ MisdirectedOnlyInWindow'
  BY DEF RecordInv, EntriesDistinct, MisdirectedOnlyInWindow, Used, SameEntry
<1>7. (\A g \in Files : file[g] = "new" => rec[g] = "none" /\ sub[g] = "none")'
  BY <1>1 DEF RecordInv
<1>8. ASSUME NEW g \in OpenFiles', Alone(g)', g \notin warned'
      PROVE  {rec'[g], sub'[g]} \cap {"marked", "noctx"} = {}
  <2>1. g \in Files /\ Alone(g) /\ file'[g] = "open"
    BY <1>8 DEF OpenFiles, Alone
  <2>2. CASE g = f
    BY <1>1, <2>1, <2>2
  <2>3. CASE g # f
    BY <1>1, <1>8, <2>1, <2>3 DEF RecordInv, OpenFiles
  <2> QED BY <2>2, <2>3
<1> QED BY <1>3, <1>5, <1>6, <1>7, <1>8 DEF RecordInv

\* The opens, and what the closes do that leaves the log alone.
LEMMA RecordFiles ==
  ASSUME TypeOK, EvlInv, RecordInv, NEW f \in Files,
         \/ OpenFails(f) \/ OpenNoId(f) \/ OpenAddFails(f) \/ OpenSucceeds(f) \/ CloseDangling(f)
         \/ Unregister(f) \/ DrainWorkqueue(f) \/ SvaUnbind(f) \/ PasidRemove(f) \/ PutWq(f)
  PROVE  RecordInv'
<1>1. ASSUME OpenFails(f) \/ OpenNoId(f) \/ CloseDangling(f)
      PROVE  RecordInv'
  <2>1. PICK to \in {"failed", "dangling", "lost"} : file' = [file EXCEPT ![f] = to]
    BY <1>1 DEF OpenFails, OpenNoId, CloseDangling, Stage
  <2>2. file[f] \in {"new", "dangling"}
    BY <1>1 DEF OpenFails, OpenNoId, CloseDangling, Stage
  <2>3. UNCHANGED <<log, bmap, works, proc, wrong, rec, sub, pasid, warned>>
    BY <1>1 DEF OpenFails, OpenNoId, CloseDangling, evlVars, workVars, constVars
  <2>4. \A i \in Slots : Used(i) => log[i].file # f
    BY <2>2 DEF RecordInv, LogSound, Live
  <2>5. \A k \in DOMAIN works : works[k].file # f
    BY <2>2 DEF RecordInv, WorksSound
  <2> QED BY <2>1, <2>3, <2>4, <2>5, RecordStage
<1>2. ASSUME OpenSucceeds(f) \/ OpenAddFails(f) PROVE RecordInv'
  <2>1. file[f] = "new" /\ UNCHANGED <<log, bmap, works, proc, wrong, rec, sub>>
    BY <1>2 DEF OpenSucceeds, OpenAddFails, evlVars, workVars, constVars
  <2>2. \A g \in Files \ {f} : pasid'[g] = pasid[g] /\ (g \in warned' <=> g \in warned)
    BY <1>2, RecordTypes DEF OpenSucceeds, OpenAddFails, GetsContext
  <2>3. \A i \in Slots : Used(i) => log[i].file # f
    BY <2>1 DEF RecordInv, LogSound, Live
  <2>4. \A k \in DOMAIN works : works[k].file # f
    BY <2>1 DEF RecordInv, WorksSound
  <2>5. rec'[f] = "none" /\ sub'[f] = "none"
    BY <2>1 DEF RecordInv
  <2>6. \A g \in Files \ {f} : /\ rec'[g] = rec[g] /\ sub'[g] = sub[g] /\ pasid'[g] = pasid[g]
                               /\ g \in warned' <=> g \in warned
    BY <2>1, <2>2
  <2>7. UNCHANGED <<log, bmap, works, proc, wrong>>
    BY <2>1
  <2>8. CASE OpenSucceeds(f)
    <3>1. PICK to \in {"open"} : file' = [file EXCEPT ![f] = to]
      BY <2>8 DEF OpenSucceeds
    <3>2. to # "new" /\ (to = "open" => rec'[f] = "none" /\ sub'[f] = "none")
      BY <2>5
    <3>3. \A i \in Slots : Used(i) /\ log[i].file = f =>
              /\ to \in {"drained", "marked", "flushed", "unbound", "removed", "closed"}
              /\ i \notin bmap => to = "drained"
              /\ to = "drained" => log[i].pasid = pasid'[f]
      BY <2>3
    <3>4. \A k \in DOMAIN works : works[k].file = f =>
              to \in {"drained", "marked"} /\ works[k].pasid = pasid'[f]
      BY <2>4
    <3> QED BY <2>6, <2>7, <3>1, <3>2, <3>3, <3>4, RecordStage
  <2>9. CASE OpenAddFails(f)
    <3>1. file' = [file EXCEPT ![f] = "drained"]
      BY <2>9 DEF OpenAddFails
    <3>2. \A i \in Slots : Used(i) /\ log[i].file = f => log[i].pasid = pasid'[f]
      BY <2>3
    <3>3. \A k \in DOMAIN works : works[k].file = f => works[k].pasid = pasid'[f]
      BY <2>4
    <3> QED BY <2>6, <2>7, <3>1, <3>2, <3>3, RecordStage, ZenonT(60)
  <2> QED BY <1>2, <2>8, <2>9
<1>3. ASSUME Unregister(f) PROVE RecordInv'
  <2>1. /\ file[f] = "open" /\ file' = [file EXCEPT ![f] = "drained"]
        /\ UNCHANGED <<log, bmap, works, proc, wrong, rec, sub, pasid, warned>>
    BY <1>3 DEF Unregister, Stage, evlVars, workVars, constVars
  <2>2. \A i \in Slots : Used(i) /\ log[i].file = f => log[i].pasid = pasid[f]
    BY <2>1 DEF RecordInv, LogSound
  <2>3. \A k \in DOMAIN works : works[k].file = f => works[k].pasid = pasid[f]
    BY DEF RecordInv, WorksSound
  <2> QED BY <2>1, <2>2, <2>3, RecordStage, ZenonT(60)
<1>4. ASSUME DrainWorkqueue(f) \/ SvaUnbind(f) \/ PasidRemove(f) \/ PutWq(f)
      PROVE  RecordInv'
  <2>1. PICK to \in {"flushed", "unbound", "removed", "closed"} : file' = [file EXCEPT ![f] = to]
    BY <1>4 DEF DrainWorkqueue, SvaUnbind, PasidRemove, PutWq, Stage
  <2>2. /\ file[f] \in {"marked", "flushed", "unbound", "removed"}
        /\ file[f] = "marked" => works = <<>>
    BY <1>4 DEF DrainWorkqueue, SvaUnbind, PasidRemove, PutWq, Stage, Flushed
  <2>3. UNCHANGED <<log, bmap, works, proc, wrong>>
    BY <1>4 DEF DrainWorkqueue, SvaUnbind, PasidRemove, PutWq, evlVars, workVars, constVars
  <2>4. \A g \in Files \ {f} : /\ rec'[g] = rec[g] /\ sub'[g] = sub[g] /\ pasid'[g] = pasid[g]
                               /\ g \in warned' <=> g \in warned
    BY <1>4, RecordTypes DEF DrainWorkqueue, SvaUnbind, PasidRemove, PutWq, workVars
  <2>5. \A i \in Slots : Used(i) /\ log[i].file = f => i \in bmap
    BY <2>2 DEF RecordInv, LogSound
  <2>6. \A k \in DOMAIN works : works[k].file # f
    BY <2>2 DEF RecordInv, WorksSound
  <2> QED BY <2>1, <2>3, <2>4, <2>5, <2>6, RecordStage
<1> QED BY <1>1, <1>2, <1>3, <1>4

RecordFrame == UNCHANGED <<file, rec, sub, log, bmap, works, pasid, proc, wrong, warned>>

LEMMA RecordUnchanged ==
  ASSUME RecordInv, RecordFrame
  PROVE  RecordInv'
  BY DEF RecordInv, RecordFrame, LogSound, WorksSound, EntriesDistinct, MisdirectedOnlyInWindow,
     OpenFiles, Alone, Used, SameEntry, EntrySound

\* A closing file marks all its entries, which lie between head and tail, and
\* of those of others only the ones of its process, which share the PASID.
LEMMA RecordMark ==
  ASSUME TypeOK, EvlInv, CtxInv, RecordInv, NEW f \in Files, MarkEvl(f)
  PROVE  RecordInv'
<1>1. /\ file[f] = "drained" /\ file' = [file EXCEPT ![f] = "marked"]
      /\ bmap' = bmap \cup {i \in Unread : Marks(i, f)}
      /\ UNCHANGED <<log, works, proc, wrong, rec, sub, pasid, warned>>
  BY DEF MarkEvl, Stage, workVars, constVars
<1>2. \A g \in Files : IF g = f THEN file'[g] = "marked" ELSE file'[g] = file[g]
  BY <1>1, RecordTypes
<1>3. \A i \in Slots : Used(i) => i \in Unread
  BY DEF EvlInv, Span, Unread
<1>4. ASSUME NEW i \in Slots, Used(i)
      PROVE  /\ EntrySound(log[i])' /\ file'[log[i].file] \in Live \cup {"removed", "closed"}
             /\ i \notin bmap' => file'[log[i].file] \in {"open", "drained"}
             /\ i \in bmap' => ~(file'[log[i].file] = "open" /\ Alone(log[i].file)')
             /\ file'[log[i].file] \in {"open", "drained"} => log[i].pasid = pasid'[log[i].file]
  <2>1. log[i].file \in Files /\ i \in Unread
    BY <1>3, <1>4, RecordTypes
  <2>2. /\ EntrySound(log[i]) /\ file[log[i].file] \in Live \cup {"removed", "closed"}
        /\ i \notin bmap => file[log[i].file] \in {"open", "drained"}
        /\ i \in bmap => ~(file[log[i].file] = "open" /\ Alone(log[i].file))
        /\ file[log[i].file] \in {"open", "drained"} => log[i].pasid = pasid[log[i].file]
    BY <1>4 DEF RecordInv, LogSound
  <2>3. CASE log[i].file = f
    <3>1. i \in bmap'
      BY <1>1, <2>1, <2>2, <2>3 DEF Marks
    <3> QED BY <1>1, <1>2, <2>1, <2>2, <2>3, <3>1 DEF EntrySound, Live
  <2>4. CASE log[i].file # f
    <3>1. file'[log[i].file] = file[log[i].file]
      BY <1>2, <2>1, <2>4
    <3>2. i \in bmap' \ bmap => ~(file[log[i].file] = "open" /\ Alone(log[i].file))
      <4> SUFFICES ASSUME Marks(i, f), file[log[i].file] = "open" PROVE proc[log[i].file] = proc[f]
        BY <1>1, <2>4 DEF Alone
      <4>1. pasid[f] = pasid[log[i].file]
        BY <2>2 DEF Marks
      <4> QED BY <1>1, <2>1, <4>1 DEF CtxInv, SvaBound, Live
    <3> QED BY <1>1, <2>1, <2>2, <3>1, <3>2 DEF EntrySound, Alone
  <2> QED BY <2>3, <2>4
<1>5. LogSound'
  BY <1>1, <1>4 DEF LogSound, Used
<1>6. ASSUME NEW k \in DOMAIN works
      PROVE  /\ EntrySound(works[k])' /\ file'[works[k].file] \in {"open", "drained", "marked"}
             /\ works[k].pasid = pasid'[works[k].file]
  <2>1. works[k].file \in Files
    BY RecordTypes
  <2>2. /\ EntrySound(works[k]) /\ file[works[k].file] \in {"open", "drained", "marked"}
        /\ works[k].pasid = pasid[works[k].file]
    BY DEF RecordInv, WorksSound
  <2> QED BY <1>1, <1>2, <2>1, <2>2 DEF EntrySound
<1>7. WorksSound'
  BY <1>1, <1>6 DEF WorksSound
<1>8. EntriesDistinct' /\ MisdirectedOnlyInWindow'
  BY <1>1 DEF RecordInv, EntriesDistinct, MisdirectedOnlyInWindow, Used, SameEntry
<1>9. (\A g \in Files : file[g] = "new" => rec[g] = "none" /\ sub[g] = "none")'
  BY <1>1, <1>2 DEF RecordInv
<1>10. ASSUME NEW g \in OpenFiles', Alone(g)', g \notin warned'
      PROVE  {rec'[g], sub'[g]} \cap {"marked", "noctx"} = {}
  <2>1. g \in Files /\ Alone(g) /\ file[g] = "open"
    BY <1>1, <1>2, <1>10 DEF OpenFiles, Alone
  <2> QED BY <1>1, <1>10, <2>1 DEF RecordInv, OpenFiles
<1> QED BY <1>5, <1>7, <1>8, <1>9, <1>10 DEF RecordInv

\* No entry of that kind of f is anywhere: it would have left its trace in rec
\* or sub.
LEMMA RecordLog ==
  ASSUME TypeOK, EvlInv, CtxInv, RecordInv, NEW f \in Files, NEW kind \in Kinds, DevLog(f, kind)
  PROVE  RecordInv'
<1>0. PICK rcr \in BOOLEAN : log' = [log EXCEPT ![hwTail] = [file |-> f, pasid |-> pasid[f], kind |-> kind, rcr |-> rcr]]
  BY DEF DevLog
<1> DEFINE new == [file |-> f, pasid |-> pasid[f], kind |-> kind, rcr |-> rcr]
<1>1. /\ file[f] = "open" /\ rec[f] = "none" /\ (kind = "bxlat" => sub[f] = "none")
      /\ (f \in Batchers) = (kind # "xlat")
      /\ log' = [log EXCEPT ![hwTail] = new]
      /\ rec' = [rec EXCEPT ![f] = IF kind = "bxlat" THEN rec[f] ELSE "pending"]
      /\ sub' = [sub EXCEPT ![f] = IF kind = "bxlat" THEN "pending" ELSE sub[f]]
      /\ UNCHANGED <<file, bmap, works, wrong, pasid, warned, proc>>
  BY <1>0 DEF DevLog, fileVars, constVars
<1>2. new.file = f /\ new.kind = kind /\ new.pasid = pasid[f] /\ kind # "zero"
  BY DEF Kinds
<1> HIDE DEF new
<1>3. /\ hwTail \in Slots /\ ~Used(hwTail) /\ hwTail \notin bmap
  <2>1. hwTail \in Slots /\ swHead \in Slots /\ Span(hwTail) = Dist(hwTail, swHead)
    BY RingTypes
  <2>2. Dist(hwTail, swHead) \in 0 .. EvlSize - 1
    BY <2>1, Ring
  <2>3. ~(Span(hwTail) < Span(hwTail))
    BY <2>1, <2>2
  <2> QED BY <2>1, <2>3 DEF EvlInv
<1>4. log'[hwTail] = new /\ \A i \in Slots : i # hwTail => log'[i] = log[i]
  BY <1>1, <1>3 DEF EvlInv
<1>5. \A g \in Files : IF g = f THEN IF kind = "bxlat" THEN rec'[g] = "none" /\ sub'[g] = "pending"
                                                       ELSE rec'[g] = "pending" /\ sub'[g] = sub[g]
                       ELSE rec'[g] = rec[g] /\ sub'[g] = sub[g]
  BY <1>1, RecordTypes
<1>6. ASSUME NEW e, EntrySound(e), e.file \in Files, e.kind \in Kinds
      PROVE  EntrySound(e)' /\ ~SameEntry(e, new)
  <2>1. CASE e.file = f
    <3>1. /\ e.kind = "xlat" <=> e.file \notin Batchers
          /\ IF e.kind = "bxlat" THEN sub[f] # "none" ELSE rec[f] # "none"
      BY <1>1, <1>6, <2>1 DEF EntrySound
    <3>2. e.kind = "bxlat" /\ kind # "bxlat"
      BY <1>1, <3>1
    <3> QED BY <1>1, <1>2, <1>5, <2>1, <3>1, <3>2 DEF EntrySound, SameEntry
  <2>2. CASE e.file # f
    BY <1>1, <1>2, <1>5, <1>6, <2>2 DEF EntrySound, SameEntry
  <2> QED BY <2>1, <2>2
<1>7. EntrySound(new)'
  <2>1. /\ file'[f] = "open"
        /\ IF kind = "bxlat" THEN sub'[f] # "none" ELSE rec'[f] # "none"
        /\ kind = "xlat" <=> f \notin Batchers
    BY <1>1, <1>5
  <2> QED BY <1>2, <2>1 DEF EntrySound, new
<1>8. ASSUME NEW i \in Slots, i # hwTail, Used(i)
      PROVE  EntrySound(log[i])' /\ ~SameEntry(log[i], new)
  <2>1. EntrySound(log[i]) /\ log[i].file \in Files /\ log[i].kind \in Kinds
    BY <1>8, RecordTypes DEF RecordInv, LogSound
  <2> QED BY <1>4, <1>6, <1>8, <2>1
<1>9. ASSUME NEW i \in Slots, Used(i)'
      PROVE  /\ EntrySound(log[i])' /\ file'[log'[i].file] \in Live \cup {"removed", "closed"}
             /\ i \notin bmap' => file'[log'[i].file] \in {"open", "drained"}
             /\ i \in bmap' => ~(file'[log'[i].file] = "open" /\ Alone(log[i].file)')
             /\ file'[log'[i].file] \in {"open", "drained"} => log'[i].pasid = pasid'[log'[i].file]
  <2>1. CASE i = hwTail
    <3>1. /\ log'[i].file = f /\ log'[i].kind = kind /\ log'[i].pasid = pasid'[f] /\ i \notin bmap'
      BY <1>1, <1>2, <1>3, <1>4, <2>1
    <3>2. /\ file'[f] = "open" /\ (kind = "xlat" <=> f \notin Batchers)
          /\ IF kind = "bxlat" THEN sub'[f] # "none" ELSE rec'[f] # "none"
      BY <1>1, <1>5
    <3> QED BY <3>1, <3>2 DEF EntrySound, Live
  <2>2. CASE i # hwTail
    <3>1. Used(i) /\ log'[i] = log[i] /\ log[i].file \in Files
      BY <1>4, <1>9, <2>2, RecordTypes DEF Used
    <3>2. EntrySound(log[i])'
      BY <1>8, <2>2, <3>1
    <3> QED BY <1>1, <3>1, <3>2 DEF RecordInv, LogSound, Alone
  <2> QED BY <2>1, <2>2
<1>10. LogSound'
  BY <1>9 DEF LogSound
<1>11. ASSUME NEW k \in DOMAIN works
       PROVE  EntrySound(works[k])' /\ ~SameEntry(works[k], new)
  <2>1. EntrySound(works[k]) /\ works[k].file \in Files /\ works[k].kind \in Kinds
    BY <1>11, RecordTypes DEF RecordInv, WorksSound
  <2> QED BY <1>1, <1>6, <2>1
<1>12. WorksSound'
  BY <1>1, <1>11 DEF WorksSound, RecordInv
<1>13. EntriesDistinct'
  <2>1. ASSUME NEW i \in Slots, NEW j \in Slots, Used(i)', Used(j)', SameEntry(log'[i], log'[j])
        PROVE  i = j
    <3>1. CASE i # hwTail /\ j # hwTail
      BY <1>4, <2>1, <3>1 DEF RecordInv, EntriesDistinct, Used
    <3>2. CASE i = hwTail /\ j # hwTail
      BY <1>4, <1>8, <2>1, <3>2 DEF Used, SameEntry
    <3>3. CASE i # hwTail /\ j = hwTail
      BY <1>4, <1>8, <2>1, <3>3 DEF Used, SameEntry
    <3> QED BY <3>1, <3>2, <3>3
  <2>2. ASSUME NEW i \in Slots, NEW k \in DOMAIN works, Used(i)'
        PROVE  ~SameEntry(log'[i], works[k])
    <3>1. CASE i = hwTail
      BY <1>4, <1>11, <3>1 DEF SameEntry
    <3>2. CASE i # hwTail
      BY <1>4, <2>2, <3>2 DEF RecordInv, EntriesDistinct, Used
    <3> QED BY <3>1, <3>2
  <2> QED BY <1>1, <2>1, <2>2 DEF RecordInv, EntriesDistinct, SameEntry
<1>14. (\A g \in Files : file[g] = "new" => rec[g] = "none" /\ sub[g] = "none")'
  BY <1>1, <1>5 DEF RecordInv
<1>15. ASSUME NEW g \in OpenFiles', Alone(g)', g \notin warned'
       PROVE  {rec'[g], sub'[g]} \cap {"marked", "noctx"} = {}
  <2>1. g \in OpenFiles /\ g \in Files /\ Alone(g) /\ g \notin warned
    BY <1>1, <1>15 DEF OpenFiles, Alone
  <2>2. {rec[g], sub[g]} \cap {"marked", "noctx"} = {}
    BY <2>1 DEF RecordInv
  <2> QED BY <1>5, <2>1, <2>2
<1>16. MisdirectedOnlyInWindow'
  BY <1>1 DEF RecordInv, MisdirectedOnlyInWindow
<1> QED BY <1>10, <1>12, <1>13, <1>14, <1>15, <1>16 DEF RecordInv

\* The record of an entry gets its outcome.
LEMMA OutcomeIs ==
  ASSUME TypeOK, EvlInv, NEW e, e.file \in Files, e.kind \in Kinds,
         NEW why \in Outcomes \ {"none", "pending"}, Outcome(e, why)
  PROVE  /\ \A g \in Files \ {e.file} : rec'[g] = rec[g] /\ sub'[g] = sub[g]
         /\ IF e.kind = "bxlat" THEN rec'[e.file] = rec[e.file] /\ sub'[e.file] = why
                                ELSE rec'[e.file] = why /\ sub'[e.file] = sub[e.file]
         /\ \A d : d.file \in Files /\ EntrySound(d) /\ file' = file => EntrySound(d)'
<1>1. /\ \A g \in Files \ {e.file} : rec'[g] = rec[g] /\ sub'[g] = sub[g]
      /\ IF e.kind = "bxlat" THEN rec'[e.file] = rec[e.file] /\ sub'[e.file] = why
                             ELSE rec'[e.file] = why /\ sub'[e.file] = sub[e.file]
  BY RecordTypes DEF Outcome, Kinds
<1>2. ASSUME NEW d, d.file \in Files, EntrySound(d), file' = file
      PROVE  EntrySound(d)'
  BY <1>1, <1>2 DEF EntrySound
<1> QED BY <1>1, <1>2

\* An entry is read: what EvlEntry does, with the entry named.
LEMMA PassFacts ==
  ASSUME TypeOK, EvlInv, EvlEntry
  PROVE  \E e \in Entry \cup {NoEntry} :
            /\ e = log[irq.h] /\ irq.h \in Slots /\ irq.at = "locked"
            /\ bmap' = bmap \ {irq.h}
            /\ log'[irq.h] = NoEntry /\ \A i \in Slots : i # irq.h => log'[i] = log[i]
            /\ UNCHANGED <<file, pasid, proc, wrong, warned, batchFail>>
            /\ \/ /\ e \in Entry /\ irq.h \in bmap /\ Outcome(e, "marked") /\ works' = works
               \/ e = NoEntry /\ UNCHANGED <<rec, sub, works>>
               \/ /\ e \in Entry /\ irq.h \notin bmap /\ (Outcome(e, "dropped") \/ Outcome(e, "refused")) /\ works' = works
               \/ /\ e \in Entry /\ irq.h \notin bmap /\ UNCHANGED <<rec, sub>>
                  /\ works' = works \/ works' = Append(works, e)
<1>1. irq.h \in Slots
  BY RingTypes
<1>2. PICK e \in Entry \cup {NoEntry} : e = log[irq.h]
  BY <1>1 DEF EvlInv
<1>3. (e.kind # "zero" => e \in Entry) /\ (e.kind = "zero" => e = NoEntry)
  BY DEF NoEntry, Entry, Kinds
<1>4. irq.h \in bmap => e.kind # "zero"
  BY <1>2 DEF EvlInv, Used
<1>5. log'[irq.h] = NoEntry /\ \A i \in Slots : i # irq.h => log'[i] = log[i]
  BY <1>1 DEF EvlEntry, EvlInv
<1>6. /\ irq.at = "locked" /\ bmap' = bmap \ {irq.h}
      /\ UNCHANGED <<file, pasid, proc, wrong, warned, batchFail>>
  BY DEF EvlEntry, fileVars, constVars
<1>7. \/ irq.h \in bmap /\ Outcome(e, "marked") /\ works' = works
      \/ irq.h \notin bmap /\ e.kind = "zero" /\ UNCHANGED <<rec, sub, works>>
      \/ irq.h \notin bmap /\ e.kind # "zero" /\ (Outcome(e, "dropped") \/ Outcome(e, "refused")) /\ works' = works
      \/ (/\ irq.h \notin bmap /\ e.kind # "zero" /\ UNCHANGED <<rec, sub>>
          /\ works' = works \/ works' = Append(works, e))
  BY <1>2 DEF EvlEntry
<1>8. \/ e \in Entry /\ irq.h \in bmap /\ Outcome(e, "marked") /\ works' = works
      \/ e = NoEntry /\ UNCHANGED <<rec, sub, works>>
      \/ e \in Entry /\ irq.h \notin bmap /\ (Outcome(e, "dropped") \/ Outcome(e, "refused")) /\ works' = works
      \/ (/\ e \in Entry /\ irq.h \notin bmap /\ UNCHANGED <<rec, sub>>
          /\ works' = works \/ works' = Append(works, e))
  BY <1>3, <1>4, <1>7
<1> QED BY <1>1, <1>2, <1>5, <1>6, <1>8

LEMMA RecordPass ==
  ASSUME TypeOK, EvlInv, RecordInv, EvlEntry
  PROVE  RecordInv'
<1>1. PICK e \in Entry \cup {NoEntry} :
            /\ e = log[irq.h] /\ irq.h \in Slots
            /\ bmap' = bmap \ {irq.h}
            /\ log'[irq.h] = NoEntry /\ \A i \in Slots : i # irq.h => log'[i] = log[i]
            /\ UNCHANGED <<file, pasid, proc, wrong, warned>>
            /\ \/ e \in Entry /\ irq.h \in bmap /\ Outcome(e, "marked") /\ works' = works
               \/ e = NoEntry /\ UNCHANGED <<rec, sub, works>>
               \/ e \in Entry /\ irq.h \notin bmap /\ (Outcome(e, "dropped") \/ Outcome(e, "refused")) /\ works' = works
               \/ (/\ e \in Entry /\ irq.h \notin bmap /\ UNCHANGED <<rec, sub>>
                   /\ works' = works \/ works' = Append(works, e))
  BY PassFacts
<1>2. e \in Entry => /\ e.file \in Files /\ e.kind \in Kinds /\ Used(irq.h)
                     /\ EntrySound(e) /\ file[e.file] \in Live \cup {"removed", "closed"}
                     /\ irq.h \notin bmap => file[e.file] \in {"open", "drained"} /\ e.pasid = pasid[e.file]
                     /\ irq.h \in bmap => ~(file[e.file] = "open" /\ Alone(e.file))
  <2>1. e \in Entry => e.file \in Files /\ e.kind \in Kinds /\ e.kind # "zero"
    BY DEF Entry, Kinds
  <2> QED BY <1>1, <2>1 DEF RecordInv, LogSound, Used
<1>3. \A d : d.file \in Files /\ EntrySound(d) => EntrySound(d)'
  <2>1. CASE UNCHANGED <<rec, sub>>
    BY <1>1, <2>1 DEF EntrySound
  <2>2. ASSUME NEW why \in {"marked", "dropped", "refused"}, e \in Entry, Outcome(e, why)
        PROVE  \A d : d.file \in Files /\ EntrySound(d) => EntrySound(d)'
    <3>1. why \in Outcomes \ {"none", "pending"}
      BY DEF Outcomes
    <3> QED BY <1>1, <1>2, <2>2, <3>1, OutcomeIs
  <2> QED BY <1>1, <2>1, <2>2
<1>4. ASSUME NEW i \in Slots, Used(i)'
      PROVE  i # irq.h /\ log'[i] = log[i] /\ Used(i) /\ log[i].file \in Files
  <2>1. i # irq.h
    BY <1>1, <1>4 DEF Used, NoEntry
  <2> QED BY <1>1, <1>4, <2>1, RecordTypes DEF Used
<1>5. LogSound'
  <2> SUFFICES ASSUME NEW i \in Slots, Used(i)'
      PROVE  /\ EntrySound(log[i])' /\ file'[log'[i].file] \in Live \cup {"removed", "closed"}
             /\ i \notin bmap' => file'[log'[i].file] \in {"open", "drained"}
             /\ i \in bmap' => ~(file'[log'[i].file] = "open" /\ Alone(log[i].file)')
             /\ file'[log'[i].file] \in {"open", "drained"} => log'[i].pasid = pasid'[log'[i].file]
    BY DEF LogSound
  <2>1. i # irq.h /\ log'[i] = log[i] /\ Used(i) /\ log[i].file \in Files
    BY <1>4
  <2>2. PICK d : d = log[i]
    OBVIOUS
  <2>3. EntrySound(d) /\ d.file \in Files
    BY <2>1, <2>2 DEF RecordInv, LogSound
  <2>4. EntrySound(d)'
    BY <1>3, <2>3
  <2>5. EntrySound(log[i])'
    BY <2>1, <2>2, <2>4 DEF EntrySound
  <2> QED BY <1>1, <2>1, <2>5 DEF RecordInv, LogSound, Alone
<1>6. works \in Seq(Entry)
  BY DEF EvlInv
<1>7. ASSUME NEW k \in DOMAIN works'
      PROVE  \/ k \in DOMAIN works /\ works'[k] = works[k]
             \/ k \notin DOMAIN works /\ e \in Entry /\ irq.h \notin bmap /\ works'[k] = e /\ k = Len(works) + 1
  BY <1>1, <1>6, <1>7
<1>8. WorksSound'
  <2> SUFFICES ASSUME NEW k \in DOMAIN works'
      PROVE  /\ EntrySound(works[k])' /\ file'[works'[k].file] \in {"open", "drained", "marked"}
             /\ works'[k].pasid = pasid'[works'[k].file]
    BY DEF WorksSound
  <2>1. PICK d : d = works'[k]
    OBVIOUS
  <2>2. /\ EntrySound(d) /\ file[d.file] \in {"open", "drained", "marked"} /\ d.file \in Files
        /\ d.pasid = pasid[d.file]
    <3>1. CASE k \in DOMAIN works /\ works'[k] = works[k]
      BY <2>1, <3>1, RecordTypes DEF RecordInv, WorksSound
    <3>2. CASE e \in Entry /\ irq.h \notin bmap /\ works'[k] = e
      BY <1>2, <2>1, <3>2
    <3> QED BY <1>7, <3>1, <3>2
  <2>3. EntrySound(d)'
    BY <1>3, <2>2
  <2>4. EntrySound(works[k])'
    BY <2>1, <2>3 DEF EntrySound
  <2> QED BY <1>1, <2>1, <2>2, <2>4
<1>9. EntriesDistinct'
  <2>1. (\A i, j \in Slots : Used(i) /\ Used(j) /\ SameEntry(log[i], log[j]) => i = j)'
    <3> SUFFICES ASSUME NEW i \in Slots, NEW j \in Slots, Used(i)', Used(j)', SameEntry(log'[i], log'[j])
                 PROVE  i = j
      BY DEF SameEntry
    <3> QED BY <1>4 DEF RecordInv, EntriesDistinct
  <2>2. ASSUME NEW k \in DOMAIN works', NEW l \in DOMAIN works', SameEntry(works'[k], works'[l])
        PROVE  k = l
    <3>1. CASE k \in DOMAIN works /\ l \in DOMAIN works
      BY <1>7, <2>2, <3>1 DEF RecordInv, EntriesDistinct
    <3>2. CASE k \notin DOMAIN works /\ l \notin DOMAIN works
      BY <1>7, <3>2
    <3>3. CASE k \in DOMAIN works /\ l \notin DOMAIN works
      BY <1>1, <1>2, <1>7, <2>2, <3>3 DEF RecordInv, EntriesDistinct, SameEntry
    <3>4. CASE k \notin DOMAIN works /\ l \in DOMAIN works
      BY <1>1, <1>2, <1>7, <2>2, <3>4 DEF RecordInv, EntriesDistinct, SameEntry
    <3> QED BY <3>1, <3>2, <3>3, <3>4
  <2>3. ASSUME NEW i \in Slots, NEW k \in DOMAIN works', Used(i)'
        PROVE  ~SameEntry(log'[i], works'[k])
    <3>1. i # irq.h /\ log'[i] = log[i] /\ Used(i)
      BY <1>4, <2>3
    <3>2. CASE k \in DOMAIN works
      BY <1>7, <3>1, <3>2 DEF RecordInv, EntriesDistinct
    <3>3. CASE k \notin DOMAIN works
      BY <1>1, <1>2, <1>7, <3>1, <3>3 DEF RecordInv, EntriesDistinct, SameEntry
    <3> QED BY <3>2, <3>3
  <2> QED BY <2>1, <2>2, <2>3 DEF EntriesDistinct, SameEntry
<1>10. (\A g \in Files : file[g] = "new" => rec[g] = "none" /\ sub[g] = "none")'
  <2>1. ASSUME NEW g \in Files, file[g] = "new"
        PROVE  rec'[g] = rec[g] /\ sub'[g] = sub[g]
    <3>1. e \in Entry => e.file # g
      BY <1>2, <2>1 DEF Live
    <3> QED BY <1>1, <1>2, <3>1, RecordTypes DEF Outcome
  <2> QED BY <1>1, <2>1 DEF RecordInv
<1>11. ASSUME NEW g \in OpenFiles', Alone(g)', g \notin warned'
       PROVE  {rec'[g], sub'[g]} \cap {"marked", "noctx"} = {}
  <2>1. g \in OpenFiles /\ g \in Files /\ Alone(g) /\ g \notin warned /\ file[g] = "open"
    BY <1>1, <1>11 DEF OpenFiles, Alone
  <2>2. {rec[g], sub[g]} \cap {"marked", "noctx"} = {}
    BY <2>1 DEF RecordInv
  <2>3. CASE UNCHANGED <<rec, sub>>
    BY <2>2, <2>3
  <2>4. ASSUME e \in Entry, irq.h \in bmap, Outcome(e, "marked")
        PROVE  {rec'[g], sub'[g]} \cap {"marked", "noctx"} = {}
    <3>1. g # e.file
      BY <1>2, <2>1, <2>4
    <3>2. rec'[g] = rec[g] /\ sub'[g] = sub[g]
      BY <1>2, <2>1, <2>4, <3>1, RecordTypes DEF Outcome
    <3> QED BY <2>2, <3>2
  <2>5. ASSUME e \in Entry, NEW why \in {"dropped", "refused"}, Outcome(e, why)
        PROVE  {rec'[g], sub'[g]} \cap {"marked", "noctx"} = {}
    <3>1. rec'[g] \in {rec[g], why} /\ sub'[g] \in {sub[g], why}
      BY <1>2, <2>1, <2>5, RecordTypes DEF Outcome
    <3> QED BY <2>2, <3>1
  <2> QED BY <1>1, <2>3, <2>4, <2>5
<1>12. MisdirectedOnlyInWindow'
  BY <1>1 DEF RecordInv, MisdirectedOnlyInWindow
<1> QED BY <1>5, <1>8, <1>9, <1>10, <1>11, <1>12 DEF RecordInv

\* A work runs: what FaultWork does, with the entry and the outcome named.
LEMMA WorkFacts ==
  ASSUME TypeOK, EvlInv, CtxInv, RecordInv, FaultWork
  PROVE  \E e \in Entry, why \in {"ok", "fail", "efault", "noctx", "unasked"} :
            /\ e = works[1] /\ works # <<>> /\ Outcome(e, why)
            /\ e.file \in Files /\ e.pasid \in Pasids /\ EntrySound(e)
            /\ works' = Tail(works) /\ Len(works') = Len(works) - 1
            /\ \A k \in DOMAIN works' : k + 1 \in DOMAIN works /\ works'[k] = works[k + 1]
            /\ UNCHANGED <<file, log, bmap, pasid, proc, warned, xa, own, hwTail, swHead, irq>>
            /\ why = "noctx" => xa[e.pasid] = None
            /\ why \in {"ok", "fail"} => xa[e.pasid] # None
            /\ wrong' = wrong \/ (xa[e.pasid] # None /\ proc[xa[e.pasid]] # proc[e.file]
                                  /\ wrong' = wrong \cup {file[xa[e.pasid]]})
            /\ e.kind = "xlat" => batchFail' = batchFail
            /\ e.kind = "bxlat" /\ why \in {"efault", "noctx"} => batchFail'
            /\ e.kind = "batch" /\ batchFail => why \notin {"ok", "unasked"}
            /\ e.kind # "batch" => why \notin {"fail", "unasked"}
<1>1. works # <<>> /\ works \in Seq(Entry) /\ works' = Tail(works)
  BY DEF FaultWork, EvlInv
<1>2. /\ 1 \in DOMAIN works /\ Head(works) = works[1] /\ works[1] \in Entry
      /\ Len(works') = Len(works) - 1
      /\ \A k \in DOMAIN works' : k + 1 \in DOMAIN works /\ works'[k] = works[k + 1]
  BY <1>1
<1>3. PICK e \in Entry : e = works[1]
  BY <1>2
<1>4. e.file \in Files /\ e.pasid \in Pasids /\ EntrySound(e)
  BY <1>2, <1>3 DEF Entry, RecordInv, WorksSound
<1> DEFINE ctx == xa[e.pasid]
<1>5. PICK copied \in {FALSE} \cup {ctx # None /\ Wanted(e)} :
          /\ Outcome(e, CASE ~Wanted(e)            -> "unasked"
                          [] Wanted(e) /\ ~copied  -> IF ctx = None THEN "noctx" ELSE "efault"
                          [] copied -> IF e.kind = "batch" /\ batchFail THEN "fail" ELSE "ok")
          /\ batchFail' = BatchFail(e, copied)
          /\ wrong' = IF copied /\ proc[ctx] # proc[e.file]
                      THEN wrong \cup {file[ctx]} ELSE wrong
  BY <1>2, <1>3 DEF FaultWork
<1>6. UNCHANGED <<file, log, bmap, pasid, proc, warned, xa, own, hwTail, swHead, irq>>
  BY DEF FaultWork, fileVars, evlVars, constVars
<1> HIDE DEF ctx
<1>7. CASE ~Wanted(e)
  <2>1. copied = FALSE /\ e.kind = "batch" /\ ~batchFail
    BY <1>5, <1>7 DEF Wanted
  <2>2. PICK why \in {"unasked"} : why = "unasked"
    OBVIOUS
  <2>3. Outcome(e, why)
    BY <1>5, <1>7, <2>1, <2>2 DEF Outcome
  <2>4. wrong' = wrong
    BY <1>5, <2>1
  <2> QED BY <1>1, <1>2, <1>3, <1>4, <1>6, <2>1, <2>2, <2>3, <2>4 DEF ctx
<1>8. CASE Wanted(e) /\ ~copied
  <2>1. PICK why \in {"noctx", "efault"} : why = IF ctx = None THEN "noctx" ELSE "efault"
    OBVIOUS
  <2>2. Outcome(e, why) /\ wrong' = wrong /\ (why = "noctx" => ctx = None) /\ copied = FALSE
    BY <1>5, <1>8, <2>1
  <2>3. (e.kind = "xlat" => batchFail' = batchFail) /\ (e.kind = "bxlat" => batchFail')
    BY <1>5, <1>8 DEF BatchFail
  <2> QED BY <1>1, <1>2, <1>3, <1>4, <1>6, <2>1, <2>2, <2>3 DEF ctx
<1>9. CASE Wanted(e) /\ copied
  <2>1. PICK why \in {"fail", "ok"} : why = IF e.kind = "batch" /\ batchFail THEN "fail" ELSE "ok"
    OBVIOUS
  <2>2. ctx # None
    BY <1>5, <1>9
  <2>3. Outcome(e, why) /\ (e.kind = "batch" /\ batchFail => why # "ok") /\ (e.kind # "batch" => why # "fail")
    BY <1>5, <1>9, <2>1
  <2>4. e.kind = "xlat" => batchFail' = batchFail
    BY <1>5 DEF BatchFail
  <2>5. wrong' = wrong \/ (proc[ctx] # proc[e.file] /\ wrong' = wrong \cup {file[ctx]})
    BY <1>5
  <2> QED BY <1>1, <1>2, <1>3, <1>4, <1>6, <2>1, <2>2, <2>3, <2>4, <2>5 DEF ctx
<1> QED BY <1>7, <1>8, <1>9

LEMMA RecordWork ==
  ASSUME TypeOK, EvlInv, CtxInv, RecordInv, FaultWork
  PROVE  RecordInv'
<1>1. PICK e \in Entry, why \in {"ok", "fail", "efault", "noctx", "unasked"} :
            /\ e = works[1] /\ works # <<>> /\ Outcome(e, why)
            /\ e.file \in Files /\ e.pasid \in Pasids /\ EntrySound(e)
            /\ works' = Tail(works)
            /\ \A k \in DOMAIN works' : k + 1 \in DOMAIN works /\ works'[k] = works[k + 1]
            /\ UNCHANGED <<file, log, bmap, pasid, proc, warned>>
            /\ why = "noctx" => xa[e.pasid] = None
            /\ wrong' = wrong \/ (xa[e.pasid] # None /\ proc[xa[e.pasid]] # proc[e.file]
                                  /\ wrong' = wrong \cup {file[xa[e.pasid]]})
  BY WorkFacts
<1>2. 1 \in DOMAIN works /\ works \in Seq(Entry) /\ DOMAIN works' \subseteq Int
  BY <1>1 DEF EvlInv
<1>3. /\ file[e.file] \in {"open", "drained", "marked"} /\ e.pasid = pasid[e.file]
      /\ e.kind \in Kinds
  BY <1>1, <1>2 DEF RecordInv, WorksSound, Entry
<1>4. /\ \A g \in Files \ {e.file} : rec'[g] = rec[g] /\ sub'[g] = sub[g]
      /\ rec'[e.file] \in {rec[e.file], why} /\ sub'[e.file] \in {sub[e.file], why}
      /\ \A d : d.file \in Files /\ EntrySound(d) => EntrySound(d)'
  <2>1. why \in Outcomes \ {"none", "pending"}
    BY DEF Outcomes
  <2> QED BY <1>1, <1>3, <2>1, OutcomeIs
<1>5. LogSound'
  <2> SUFFICES ASSUME NEW i \in Slots, Used(i)'
      PROVE  /\ EntrySound(log[i])' /\ file'[log'[i].file] \in Live \cup {"removed", "closed"}
             /\ i \notin bmap' => file'[log'[i].file] \in {"open", "drained"}
             /\ i \in bmap' => ~(file'[log'[i].file] = "open" /\ Alone(log[i].file)')
             /\ file'[log'[i].file] \in {"open", "drained"} => log'[i].pasid = pasid'[log'[i].file]
    BY DEF LogSound
  <2>1. Used(i) /\ log'[i] = log[i] /\ log[i].file \in Files
    BY <1>1, RecordTypes DEF Used
  <2>2. PICK d : d = log[i]
    OBVIOUS
  <2>3. EntrySound(d)'
    BY <1>4, <2>1, <2>2 DEF RecordInv, LogSound
  <2>4. EntrySound(log[i])'
    BY <2>1, <2>2, <2>3 DEF EntrySound
  <2> QED BY <1>1, <2>1, <2>4 DEF RecordInv, LogSound, Alone
<1>6. WorksSound'
  <2> SUFFICES ASSUME NEW k \in DOMAIN works'
      PROVE  /\ EntrySound(works[k])' /\ file'[works'[k].file] \in {"open", "drained", "marked"}
             /\ works'[k].pasid = pasid'[works'[k].file]
    BY DEF WorksSound
  <2>1. PICK d : d = works'[k]
    OBVIOUS
  <2>2. /\ EntrySound(d) /\ file[d.file] \in {"open", "drained", "marked"} /\ d.file \in Files
        /\ d.pasid = pasid[d.file]
    BY <1>1, <2>1, RecordTypes DEF RecordInv, WorksSound
  <2>3. EntrySound(d)'
    BY <1>4, <2>2
  <2>4. EntrySound(works[k])'
    BY <2>1, <2>3 DEF EntrySound
  <2> QED BY <1>1, <2>1, <2>2, <2>4
<1>7. EntriesDistinct'
  <2>1. ASSUME NEW k \in DOMAIN works', NEW l \in DOMAIN works', SameEntry(works'[k], works'[l])
        PROVE  k = l
    <3>1. k + 1 = l + 1
      BY <1>1, <2>1 DEF RecordInv, EntriesDistinct
    <3> QED BY <1>2, <3>1
  <2>2. ASSUME NEW i \in Slots, NEW k \in DOMAIN works', Used(i)'
        PROVE  ~SameEntry(log'[i], works'[k])
    BY <1>1, <2>2 DEF RecordInv, EntriesDistinct, Used
  <2> QED BY <1>1, <2>1, <2>2 DEF RecordInv, EntriesDistinct, SameEntry, Used
<1>8. (\A g \in Files : file[g] = "new" => rec[g] = "none" /\ sub[g] = "none")'
  BY <1>1, <1>3, <1>4 DEF RecordInv
<1>9. ASSUME NEW g \in OpenFiles', Alone(g)', g \notin warned'
      PROVE  {rec'[g], sub'[g]} \cap {"marked", "noctx"} = {}
  <2>1. g \in OpenFiles /\ g \in Files /\ Alone(g) /\ g \notin warned /\ file[g] = "open"
    BY <1>1, <1>9 DEF OpenFiles, Alone
  <2>2. {rec[g], sub[g]} \cap {"marked", "noctx"} = {}
    BY <2>1 DEF RecordInv
  <2>3. g = e.file => why # "noctx"
    <3>1. xa[pasid[g]] = g /\ g # None
      BY <2>1, CtxTypes DEF CtxInv, Live
    <3> QED BY <1>1, <1>3, <3>1
  <2> QED BY <1>4, <2>1, <2>2, <2>3
<1>10. MisdirectedOnlyInWindow'
  <2>1. ASSUME xa[e.pasid] # None, proc[xa[e.pasid]] # proc[e.file]
        PROVE  file[xa[e.pasid]] = "unbound"
    <3>1. PICK c \in Files : c = xa[e.pasid]
      BY <1>1, <2>1, CtxTypes
    <3>2. file[c] \in Live /\ pasid[c] = e.pasid
      BY <1>1, <2>1, <3>1 DEF CtxInv, CtxLive
    <3>3. own[pasid[e.file]] = proc[e.file]
      BY <1>1, <1>3 DEF CtxInv, SvaBound, Live
    <3>4. file[c] \notin SvaBound
      BY <1>3, <2>1, <3>1, <3>2, <3>3 DEF CtxInv
    <3> QED BY <3>1, <3>2, <3>4 DEF SvaBound
  <2> QED BY <1>1, <2>1 DEF RecordInv, MisdirectedOnlyInWindow
<1> QED BY <1>5, <1>6, <1>7, <1>8, <1>9, <1>10 DEF RecordInv

LEMMA RecordStep ==
  ASSUME TypeOK, EvlInv, CtxInv, RecordInv, [Next]_vars
  PROVE  RecordInv'
<1>1. ASSUME MiscThread \/ EvlClear \/ EvlTail \/ EvlDone PROVE RecordFrame
  BY <1>1 DEF MiscThread, EvlClear, EvlTail, EvlDone, RecordFrame, fileVars, workVars, constVars
<1>2. ASSUME UserDrvRemove \/ UserDrvProbe \/ UNCHANGED vars PROVE RecordFrame
  BY <1>2 DEF UserDrvRemove, UserDrvProbe, vars, RecordFrame, fileVars, evlVars, workVars, constVars
<1>3. ASSUME NEW f \in Files,
             \/ OpenFails(f) \/ OpenNoId(f) \/ OpenAddFails(f) \/ OpenSucceeds(f) \/ Close(f)
      PROVE  RecordInv'
  BY <1>3, RecordFiles, RecordMark DEF Close
<1>4. ASSUME NEW f \in Files, NEW kind \in {"xlat", "bxlat", "batch"}, DevLog(f, kind)
      PROVE  RecordInv'
  BY <1>4, RecordLog DEF Kinds
<1> QED
  BY <1>1, <1>2, <1>3, <1>4, RecordUnchanged, RecordPass, RecordWork DEF Next, Interrupt

-----------------------------------------------------------------------------
(* What is to come, in order.                                              *)

Size == Len(works) + Left

\* The slot m steps from c.
Fwd(c, m) == IF c + m < EvlSize THEN c + m ELSE c + m - EvlSize

LEMMA Forward ==
  ASSUME NEW c \in Slots, NEW m \in 0 .. EvlSize - 1
  PROVE  /\ (c + m) % EvlSize = Fwd(c, m) /\ Fwd(c, m) \in Slots
         /\ Dist(Fwd(c, m), c) = m
         /\ m < EvlSize - 1 => Fwd(After(c), m) = Fwd(c, m + 1)
         /\ \A t \in Slots : Fwd(c, m) = t <=> m = Dist(t, c)
<1>1. EvlSize \in Nat \ {0} /\ c \in 0 .. EvlSize - 1
  BY Sizes DEF Slots
<1> DEFINE a == c + m
<1>2. a \in Int /\ -EvlSize < a /\ a < 2 * EvlSize /\ ~(a < 0)
  BY <1>1
<1> HIDE DEF a
<1>3. a % EvlSize = IF a < EvlSize THEN a ELSE a - EvlSize
  BY <1>1, <1>2, Wrap, Zenon
<1>4. (c + m) % EvlSize = Fwd(c, m) /\ Fwd(c, m) \in Slots
  BY <1>1, <1>3 DEF a, Fwd, Slots
<1>5. Dist(Fwd(c, m), c) = m
  BY <1>1 DEF Dist, Fwd
<1>6. m < EvlSize - 1 => Fwd(After(c), m) = Fwd(c, m + 1)
  BY <1>1 DEF After, Fwd
<1>7. \A t \in 0 .. EvlSize - 1 : Fwd(c, m) = t <=> m = Dist(t, c)
  BY <1>1 DEF Dist, Fwd
<1> QED BY <1>4, <1>5, <1>6, <1>7 DEF Slots

ComingIs ==
  /\ Cursor \in Slots /\ Left = Dist(hwTail, Cursor) /\ Left \in 0 .. EvlSize - 1
  /\ Len(works) \in Nat /\ Size \in Nat /\ DOMAIN Coming = 1 .. Size
  /\ \A k \in 1 .. Len(works) : Coming[k] = works[k]
  /\ \A m \in 0 .. Left - 1 : Coming[Len(works) + 1 + m] = log[Fwd(Cursor, m)]

LEMMA ComingFacts ==
  ASSUME TypeOK, EvlInv
  PROVE  /\ Cursor \in Slots /\ Left = Dist(hwTail, Cursor) /\ Left \in 0 .. EvlSize - 1
         /\ Len(works) \in Nat /\ Size \in Nat /\ DOMAIN Coming = 1 .. Size
         /\ \A k \in 1 .. Len(works) : Coming[k] = works[k]
         /\ \A m \in 0 .. Left - 1 : Coming[Len(works) + 1 + m] = log[Fwd(Cursor, m)]
<1>1. hwTail \in Slots /\ Cursor \in Slots
  BY RingTypes DEF Cursor
<1>2. Left = Dist(hwTail, Cursor) /\ Left \in 0 .. EvlSize - 1
  BY <1>1, Ring DEF Left
<1>3. Len(works) \in Nat
  BY DEF EvlInv
<1>4. EvlSize \in Nat
  BY Sizes
<1>5. Size \in Nat /\ DOMAIN Coming = 1 .. Size
  BY <1>2, <1>3, <1>4 DEF Size, Coming
<1>6. \A k \in 1 .. Len(works) : Coming[k] = works[k]
  BY <1>2, <1>3, <1>4 DEF Coming
<1>7. ASSUME NEW m \in 0 .. Left - 1
      PROVE  Coming[Len(works) + 1 + m] = log[Fwd(Cursor, m)]
  <2> DEFINE k == Len(works) + 1 + m
  <2>1. k \in 1 .. Len(works) + Left /\ ~(k <= Len(works)) /\ m \in 0 .. EvlSize - 1
    BY <1>2, <1>3, <1>4
  <2>2. Cursor + k - Len(works) - 1 = Cursor + m
    BY <1>1, <1>3, <1>4 DEF Slots
  <2>3. (Cursor + k - Len(works) - 1) % EvlSize = Fwd(Cursor, m)
    BY <1>1, <2>1, <2>2, Forward
  <2> HIDE DEF k
  <2>4. Coming[k] = log[Fwd(Cursor, m)]
    BY <2>1, <2>3 DEF Coming
  <2> QED BY <2>4 DEF k
<1> QED BY <1>1, <1>2, <1>3, <1>5, <1>6, <1>7

\* Whatever is to come is a work or an entry of the log.
LEMMA ComingFrom ==
  ASSUME TypeOK, EvlInv, NEW k \in DOMAIN Coming
  PROVE  \/ k \in DOMAIN works /\ Coming[k] = works[k]
         \/ \E i \in Slots : Coming[k] = log[i] /\ k > Len(works)
<1>1. CASE k <= Len(works)
  BY <1>1, ComingFacts DEF EvlInv
<1>2. CASE k > Len(works)
  <2> DEFINE m == k - Len(works) - 1
  <2>1. m \in 0 .. Left - 1 /\ m \in 0 .. EvlSize - 1 /\ k = Len(works) + 1 + m
    BY <1>2, ComingFacts, Sizes DEF Size
  <2>2. Fwd(Cursor, m) \in Slots
    BY <2>1, ComingFacts, Forward
  <2> HIDE DEF m
  <2> QED BY <1>2, <2>1, <2>2, ComingFacts
<1> QED BY <1>1, <1>2, ComingFacts

LEMMA ComingIsSo == TypeOK /\ EvlInv => ComingIs
  BY ComingFacts DEF ComingIs

\* ComingFacts, in the next state.
LEMMA ComingNext ==
  ASSUME TypeOK', EvlInv'
  PROVE  /\ Cursor' \in Slots /\ Left' = Dist(hwTail', Cursor') /\ Left' \in 0 .. EvlSize - 1
         /\ Len(works') \in Nat /\ Size' \in Nat /\ DOMAIN Coming' = 1 .. Size'
         /\ \A k \in 1 .. Len(works') : Coming'[k] = works'[k]
         /\ \A m \in 0 .. Left' - 1 : Coming'[Len(works') + 1 + m] = log'[Fwd(Cursor', m)]
<1>1. ComingIs'
  BY ComingIsSo, PTL
<1> QED BY <1>1 DEF ComingIs

\* Nothing of the log or the workqueue moves.
LEMMA ComingSame ==
  ASSUME UNCHANGED <<works, log, hwTail>>, Cursor' = Cursor
  PROVE  Coming' = Coming /\ Size' = Size
<1>1. Left' = Left
  BY DEF Left
<1> QED BY <1>1 DEF Coming, Size

\* One entry more: it is the last to come.
LEMMA ComingLogged ==
  ASSUME TypeOK, EvlInv, TypeOK', EvlInv', NEW new, hwTail' = (hwTail + 1) % EvlSize,
         (hwTail + 1) % EvlSize # hwHead, log' = [log EXCEPT ![hwTail] = new],
         UNCHANGED <<works, irq, swHead>>
  PROVE  /\ Size' = Size + 1 /\ Coming'[Size + 1] = new
         /\ \A k \in 1 .. Size : Coming'[k] = Coming[k]
<1>1. /\ Cursor' = Cursor /\ Cursor \in Slots /\ hwTail \in Slots /\ swHead \in Slots
      /\ Left = Dist(hwTail, Cursor) /\ Left' = Dist(hwTail', Cursor) /\ hwTail' = After(hwTail)
  <2>1. Cursor' = Cursor
    BY DEF Cursor
  <2>2. Cursor \in Slots /\ hwTail \in Slots /\ swHead \in Slots /\ Left = Dist(hwTail, Cursor)
    BY ComingFacts, RingTypes
  <2>3. Left' = Dist(hwTail', Cursor')
    BY ComingNext
  <2> QED BY <2>1, <2>2, <2>3, Ring
<1>2. Dist(Cursor, swHead) <= Dist(hwTail, swHead)
  <2>1. \A i \in Slots : Span(i) = Dist(i, swHead)
    BY RingTypes
  <2>2. CASE irq.at = "locked"
    <3>1. /\ Dist(irq.h, swHead) <= Dist(irq.t, swHead) /\ Dist(irq.t, swHead) <= Dist(hwTail, swHead)
          /\ irq.h \in Slots /\ irq.t \in Slots
      BY <1>1, <2>1, <2>2, RingTypes DEF EvlInv
    <3>2. {Dist(irq.h, swHead), Dist(irq.t, swHead), Dist(hwTail, swHead)} \subseteq Int
      BY <1>1, <3>1, Distances
    <3> QED BY <2>2, <3>1, <3>2 DEF Cursor
  <2>3. CASE irq.at # "locked"
    BY <1>1, <2>3, Distances DEF Cursor
  <2> QED BY <2>2, <2>3
<1>3. After(hwTail) # Cursor
  <2> SUFFICES ASSUME After(hwTail) = Cursor PROVE FALSE
    OBVIOUS
  <2>1. Dist(hwTail, Cursor) = EvlSize - 1 /\ Dist(hwTail, Cursor) = Dist(hwTail, swHead) - Dist(Cursor, swHead)
    BY <1>1, <1>2, Distances
  <2>2. Dist(hwTail, swHead) \in 0 .. EvlSize - 1 /\ Dist(Cursor, swHead) \in 0 .. EvlSize - 1 /\ Dist(swHead, swHead) = 0
    BY <1>1, Distances
  <2>3. Dist(Cursor, swHead) = Dist(swHead, swHead)
    BY <2>1, <2>2, Sizes
  <2>4. Cursor = swHead
    BY <1>1, <2>3, Distances
  <2> QED BY <1>1, <2>4 DEF EvlInv
<1>4. Left' = Left + 1 /\ Left \in Nat /\ Left' \in 0 .. EvlSize - 1 /\ Len(works) \in Nat
  BY <1>1, <1>3, Distances, ComingFacts, ComingNext
<1>5. Size' = Size + 1 /\ Size = Len(works) + Left
  BY <1>4 DEF Size
<1>6. log'[hwTail] = new /\ \A i \in Slots : i # hwTail => log'[i] = log[i]
  BY <1>1 DEF EvlInv
<1>7. Coming'[Size + 1] = new
  <2>1. Left \in 0 .. EvlSize - 1 /\ Left \in 0 .. Left' - 1
    BY <1>4, Sizes
  <2>2. Coming'[Len(works) + 1 + Left] = log'[Fwd(Cursor, Left)]
    BY <1>1, <2>1, ComingNext
  <2>3. Fwd(Cursor, Left) = hwTail
    BY <1>1, <2>1, Forward
  <2> QED BY <1>4, <1>5, <1>6, <2>2, <2>3
<1>8. ASSUME NEW k \in 1 .. Size PROVE Coming'[k] = Coming[k]
  <2>1. CASE k \in 1 .. Len(works)
    BY <2>1, ComingFacts, ComingNext
  <2>2. CASE k \notin 1 .. Len(works)
    <3> DEFINE m == k - Len(works) - 1
    <3>1. m \in 0 .. Left - 1 /\ m \in 0 .. Left' - 1 /\ m \in 0 .. EvlSize - 1 /\ k = Len(works) + 1 + m /\ m # Left
      BY <1>4, <1>5, <2>2, Sizes
    <3> HIDE DEF m
    <3>2. Coming[k] = log[Fwd(Cursor, m)] /\ Coming'[k] = log'[Fwd(Cursor, m)]
      BY <1>1, <3>1, ComingFacts, ComingNext
    <3>3. Fwd(Cursor, m) \in Slots /\ Fwd(Cursor, m) # hwTail
      BY <1>1, <3>1, Forward
    <3> QED BY <1>6, <3>2, <3>3
  <2> QED BY <2>1, <2>2
<1> QED BY <1>5, <1>7, <1>8

\* The cursor passes an entry: it is no longer to come, or it is a work now.
LEMMA ComingPassed ==
  ASSUME TypeOK, EvlInv, TypeOK', EvlInv', EvlEntry
  PROVE  /\ Len(works) + 1 \in 1 .. Size /\ Coming[Len(works) + 1] = log[irq.h]
         /\ works' = Append(works, log[irq.h]) =>
               Size' = Size /\ \A k \in 1 .. Size : Coming'[k] = Coming[k]
         /\ works' = works =>
               /\ Size' = Size - 1
               /\ \A k \in 1 .. Size' : Coming'[k] = IF k < Len(works) + 1 THEN Coming[k] ELSE Coming[k + 1]
<1>1. /\ irq.at = "locked" /\ irq.h # irq.t /\ irq'.at = "locked" /\ irq'.h = NextSlot(irq.h)
      /\ log' = [log EXCEPT ![irq.h] = NoEntry] /\ hwTail' = hwTail
  BY DEF EvlEntry, EvlInv
<1>2. /\ Cursor = irq.h /\ Cursor \in Slots /\ hwTail \in Slots /\ swHead \in Slots /\ irq.t \in Slots
      /\ Cursor' = After(Cursor) /\ After(Cursor) \in Slots
  BY <1>1, RingTypes, Ring DEF Cursor, NextSlot
<1>3. Left = Dist(hwTail, Cursor) /\ Left' = Dist(hwTail, After(Cursor)) /\ Left \in 0 .. EvlSize - 1
  BY <1>1, <1>2, ComingFacts, ComingNext
<1>4. hwTail # Cursor
  <2>1. Dist(irq.h, swHead) <= Dist(irq.t, swHead) /\ Dist(irq.t, swHead) <= Dist(hwTail, swHead)
    BY <1>1, <1>2, RingTypes DEF EvlInv
  <2>2. /\ Dist(irq.h, swHead) # Dist(irq.t, swHead)
        /\ {Dist(irq.h, swHead), Dist(irq.t, swHead), Dist(hwTail, swHead)} \subseteq Int
    BY <1>1, <1>2, Distances
  <2>3. Dist(irq.h, swHead) # Dist(hwTail, swHead)
    BY <2>1, <2>2
  <2> QED BY <1>2, <2>3
<1>5. Left' = Left - 1 /\ Left # 0
  BY <1>2, <1>3, <1>4, Sizes DEF Dist, After, Slots
<1>6. log'[irq.h] = NoEntry /\ \A i \in Slots : i # irq.h => log'[i] = log[i]
  BY <1>1, <1>2 DEF EvlInv
<1>7. Len(works) \in Nat /\ Len(works') \in Nat /\ Size = Len(works) + Left /\ Size' = Len(works') + Left'
  BY ComingFacts, ComingNext DEF Size
<1>8. Coming[Len(works) + 1] = log[irq.h] /\ Len(works) + 1 \in 1 .. Size
  <2>1. 0 \in 0 .. Left - 1 /\ 0 \in 0 .. EvlSize - 1
    BY <1>3, <1>5, Sizes
  <2>2. Coming[Len(works) + 1 + 0] = log[Fwd(Cursor, 0)]
    BY <2>1, ComingFacts
  <2>3. Fwd(Cursor, 0) = Cursor
    BY <1>2, Sizes DEF Fwd, Slots
  <2> QED BY <1>2, <1>3, <1>5, <1>7, <2>2, <2>3, SMTT(30)
<1>9. ASSUME NEW m \in 0 .. Left' - 1
      PROVE  Coming'[Len(works') + 1 + m] = Coming[Len(works) + 2 + m]
  <2> DEFINE n == m + 1
  <2>1. n \in 0 .. Left - 1 /\ n \in 0 .. EvlSize - 1 /\ m \in 0 .. EvlSize - 1 /\ m < EvlSize - 1 /\ n # 0
    BY <1>3, <1>5, Sizes
  <2>2. Coming'[Len(works') + 1 + m] = log'[Fwd(After(Cursor), m)]
    BY <1>2, ComingNext
  <2>3. Fwd(After(Cursor), m) = Fwd(Cursor, n)
    BY <1>2, <2>1, Forward
  <2>4. Dist(Cursor, Cursor) = 0
    BY <1>2, Distances
  <2> HIDE DEF n
  <2>5. Fwd(Cursor, n) \in Slots /\ Fwd(Cursor, n) # Cursor
    BY <1>2, <2>1, <2>4, Forward
  <2>6. Coming[Len(works) + 1 + n] = log[Fwd(Cursor, n)]
    BY <2>1, ComingFacts
  <2>7. Len(works) + 1 + n = Len(works) + 2 + m
    BY <1>7 DEF n
  <2> QED BY <1>2, <1>6, <2>2, <2>3, <2>5, <2>6, <2>7
<1>10. ASSUME works' = Append(works, log[irq.h])
       PROVE  Size' = Size /\ \A k \in 1 .. Size : Coming'[k] = Coming[k]
  <2>1. works \in Seq(Entry)
    BY DEF EvlInv
  <2>2. /\ Len(works') = Len(works) + 1 /\ works'[Len(works) + 1] = log[irq.h]
        /\ \A k \in 1 .. Len(works) : works'[k] = works[k]
    BY <1>10, <2>1
  <2>3. Size' = Size
    BY <1>3, <1>5, <1>7, <2>2
  <2>4. ASSUME NEW k \in 1 .. Size PROVE Coming'[k] = Coming[k]
    <3>1. CASE k <= Len(works)
      BY <1>7, <2>2, <3>1, ComingFacts, ComingNext
    <3>2. CASE k = Len(works) + 1
      BY <1>7, <1>8, <2>2, <3>2, ComingNext
    <3>3. CASE k > Len(works) + 1
      <4> DEFINE m == k - Len(works) - 2
      <4>1. m \in 0 .. Left' - 1 /\ k = Len(works') + 1 + m /\ k = Len(works) + 2 + m
        BY <1>3, <1>5, <1>7, <2>2, <3>3
      <4> HIDE DEF m
      <4> QED BY <1>9, <4>1
    <3> QED BY <1>7, <3>1, <3>2, <3>3
  <2> QED BY <2>3, <2>4
<1>11. ASSUME works' = works
       PROVE  /\ Size' = Size - 1
              /\ \A k \in 1 .. Size' : Coming'[k] = IF k < Len(works) + 1 THEN Coming[k] ELSE Coming[k + 1]
  <2>1. Size' = Size - 1
    BY <1>3, <1>5, <1>7, <1>11
  <2>2. ASSUME NEW k \in 1 .. Size' PROVE Coming'[k] = IF k < Len(works) + 1 THEN Coming[k] ELSE Coming[k + 1]
    <3>1. CASE k < Len(works) + 1
      <4>1. k \in 1 .. Len(works)
        BY <1>7, <3>1
      <4> QED BY <1>11, <3>1, <4>1, ComingFacts, ComingNext
    <3>2. CASE ~(k < Len(works) + 1)
      <4> DEFINE m == k - Len(works) - 1
      <4>1. m \in 0 .. Left' - 1 /\ k = Len(works') + 1 + m /\ k + 1 = Len(works) + 2 + m
        BY <1>3, <1>5, <1>7, <1>11, <3>2
      <4> HIDE DEF m
      <4> QED BY <1>9, <3>2, <4>1
    <3> QED BY <3>1, <3>2
  <2> QED BY <2>1, <2>2
<1> QED BY <1>8, <1>10, <1>11

\* A work runs, the first thing to come.
LEMMA ComingWorked ==
  ASSUME TypeOK, EvlInv, TypeOK', EvlInv', works # <<>>, works' = Tail(works),
         UNCHANGED <<log, hwTail, swHead, irq>>
  PROVE  /\ 1 \in 1 .. Size /\ Coming[1] = works[1] /\ Size' = Size - 1
         /\ \A k \in 1 .. Size' : Coming'[k] = Coming[k + 1]
<1>1. works \in Seq(Entry)
  BY DEF EvlInv
<1>2. /\ Len(works) \in Nat \ {0} /\ Len(works') = Len(works) - 1
      /\ \A k \in 1 .. Len(works') : works'[k] = works[k + 1]
  BY <1>1
<1>3. Cursor' = Cursor /\ Left' = Left /\ Left \in Nat
  BY ComingFacts DEF Cursor, Left
<1>4. Size = Len(works) + Left /\ Size' = Len(works') + Left
  BY <1>3 DEF Size
<1>5. ASSUME NEW k \in 1 .. Size' PROVE Coming'[k] = Coming[k + 1]
  <2>1. CASE k \in 1 .. Len(works')
    <3>1. k + 1 \in 1 .. Len(works)
      BY <1>2, <2>1
    <3> QED BY <1>2, <2>1, <3>1, ComingFacts, ComingNext
  <2>2. CASE k \notin 1 .. Len(works')
    <3> DEFINE m == k - Len(works') - 1
    <3>1. m \in 0 .. Left - 1 /\ k = Len(works') + 1 + m /\ k + 1 = Len(works) + 1 + m
      BY <1>2, <1>3, <1>4, <2>2
    <3> HIDE DEF m
    <3>2. Coming'[Len(works') + 1 + m] = log[Fwd(Cursor, m)] /\ Coming[Len(works) + 1 + m] = log[Fwd(Cursor, m)]
      BY <1>3, <3>1, ComingFacts, ComingNext
    <3> QED BY <3>1, <3>2
  <2> QED BY <2>1, <2>2
<1>6. Coming[1] = works[1]
  BY <1>2, ComingFacts
<1> QED BY <1>2, <1>3, <1>4, <1>5, <1>6

-----------------------------------------------------------------------------
(* A batch hears of its descriptors.                                       *)

\* One entry at most, the pth, is no longer to come; nothing else happens to
\* the batches that matters.
LEMMA BatchQuiet ==
  ASSUME BatchInv, NEW p \in Nat, Size \in Nat, DOMAIN Coming = 1 .. Size, DOMAIN Coming' = 1 .. Size',
         \/ Size' = Size /\ p > Size
         \/ Size' = Size - 1 /\ p \in 1 .. Size,
         \A k \in 1 .. Size' : Coming'[k] = IF k < p THEN Coming[k] ELSE Coming[k + 1],
         \A k \in 1 .. Size : Coming[k].kind = "bxlat" => Coming[k].file \in Files,
         \A f \in Files \ Batchers : sub'[f] = "none",
         \A f \in Files : InBatch(f)' => InBatch(f),
         \A f \in Files : CopyFailed(f)' => CopyFailed(f),
         batchFail => batchFail',
         \A k \in 1 .. Size' : Coming'[k].kind \in {"bxlat", "batch"} => Coming'[k].file \in Files,
         \A f \in Files : rec'[f] \in {"ok", "unasked"} =>
            rec[f] \in {"ok", "unasked"} \/ (~CopyFailed(f)' /\ \A k \in 1 .. Size' : ~(Coming'[k].kind = "bxlat" /\ Coming'[k].file = f))
  PROVE  BatchInv'
<1> DEFINE At(k) == IF k < p THEN k ELSE k + 1
<1>1. \A k \in 1 .. Size' : At(k) \in 1 .. Size /\ Coming'[k] = Coming[At(k)] /\ At(k) \in Int
  OBVIOUS
<1>2. \A k, l \in 1 .. Size' : k < l <=> At(k) < At(l)
  OBVIOUS
<1>3. \A k \in 1 .. Size' : Batchwise(k)' <=> Batchwise(At(k))
  BY <1>1 DEF Batchwise
<1>4. Size' \in Nat
  OBVIOUS
<1> HIDE DEF At
<1>5. (\A k, l \in DOMAIN Coming : k < l /\ SameBatch(k, l) =>
          /\ Coming[k].kind = "bxlat" /\ Coming[l].kind = "batch"
          /\ \A j \in k + 1 .. l - 1 : ~Batchwise(j))'
  <2> SUFFICES ASSUME NEW k \in 1 .. Size', NEW l \in 1 .. Size', k < l, SameBatch(k, l)'
               PROVE  /\ Coming'[k].kind = "bxlat" /\ Coming'[l].kind = "batch"
                      /\ \A j \in k + 1 .. l - 1 : ~Batchwise(j)'
    OBVIOUS
  <2>1. At(k) \in 1 .. Size /\ At(l) \in 1 .. Size /\ At(k) < At(l) /\ SameBatch(At(k), At(l))
    BY <1>1, <1>2, <1>3 DEF SameBatch
  <2>2. /\ Coming[At(k)].kind = "bxlat" /\ Coming[At(l)].kind = "batch"
        /\ \A j \in At(k) + 1 .. At(l) - 1 : ~Batchwise(j)
    BY <2>1 DEF BatchInv
  <2>3. ASSUME NEW j \in k + 1 .. l - 1 PROVE ~Batchwise(j)'
    <3>1. j \in 1 .. Size' /\ k < j /\ j < l
      BY <1>4
    <3>2. At(j) \in At(k) + 1 .. At(l) - 1
      BY <1>1, <1>2, <2>1, <3>1
    <3> QED BY <1>3, <2>2, <3>1, <3>2
  <2> QED BY <1>1, <2>2, <2>3
<1>6. (\A k \in DOMAIN Coming : Coming[k].kind = "bxlat" =>
          /\ rec[Coming[k].file] \notin {"ok", "unasked"}
          /\ InBatch(Coming[k].file) => \A j \in k + 1 .. Len(works) + Left : ~Batchwise(j))'
  <2> SUFFICES ASSUME NEW k \in 1 .. Size', Coming'[k].kind = "bxlat"
               PROVE  /\ rec'[Coming'[k].file] \notin {"ok", "unasked"}
                      /\ InBatch(Coming[k].file)' => \A j \in k + 1 .. Size' : ~Batchwise(j)'
    BY DEF Size
  <2>1. PICK f \in Files : f = Coming'[k].file /\ f = Coming[At(k)].file
    BY <1>1
  <2>2. /\ At(k) \in 1 .. Size /\ Coming[At(k)].kind = "bxlat" /\ rec[f] \notin {"ok", "unasked"}
        /\ InBatch(f) => \A j \in At(k) + 1 .. Size : ~Batchwise(j)
    BY <1>1, <2>1 DEF BatchInv, Size
  <2>3. rec'[f] \notin {"ok", "unasked"}
    BY <2>1, <2>2
  <2>4. ASSUME InBatch(f)', NEW j \in k + 1 .. Size' PROVE ~Batchwise(j)'
    <3>1. j \in 1 .. Size' /\ k < j
      BY <1>4
    <3>2. At(j) \in At(k) + 1 .. Size
      BY <1>1, <1>2, <2>2, <3>1
    <3> QED BY <1>3, <2>2, <2>4, <3>1, <3>2
  <2>5. InBatch(Coming[k].file)' <=> InBatch(f)'
    BY <2>1 DEF InBatch
  <2> QED BY <2>1, <2>3, <2>4, <2>5
<1>7. (\A f \in Files : InBatch(f) /\ CopyFailed(f) =>
          batchFail /\ \A j \in DOMAIN Coming : ~Batchwise(j))'
  <2> SUFFICES ASSUME NEW f \in Files, InBatch(f)', CopyFailed(f)'
               PROVE  batchFail' /\ \A j \in 1 .. Size' : ~Batchwise(j)'
    OBVIOUS
  <2>1. batchFail /\ \A j \in 1 .. Size : ~Batchwise(j)
    BY DEF BatchInv
  <2> QED BY <1>1, <1>3, <2>1
<1>8. (\A k \in DOMAIN Coming : Coming[k].kind = "batch" /\ CopyFailed(Coming[k].file) =>
          batchFail /\ \A j \in 1 .. k - 1 : ~Batchwise(j))'
  <2> SUFFICES ASSUME NEW k \in 1 .. Size', Coming'[k].kind = "batch", CopyFailed(Coming[k].file)'
               PROVE  batchFail' /\ \A j \in 1 .. k - 1 : ~Batchwise(j)'
    OBVIOUS
  <2>1. PICK f \in Files : f = Coming'[k].file /\ f = Coming[At(k)].file
    BY <1>1
  <2>2. CopyFailed(f)'
    BY <2>1 DEF CopyFailed
  <2>3. batchFail /\ \A j \in 1 .. At(k) - 1 : ~Batchwise(j)
    BY <1>1, <2>1, <2>2 DEF BatchInv
  <2>4. ASSUME NEW j \in 1 .. k - 1 PROVE ~Batchwise(j)'
    <3>1. j \in 1 .. Size' /\ j < k
      BY <1>4
    <3>2. At(j) \in 1 .. At(k) - 1
      BY <1>1, <1>2, <3>1
    <3> QED BY <1>3, <2>3, <3>1, <3>2
  <2> QED BY <2>3, <2>4
<1>9. BatchTold'
  BY DEF BatchInv, BatchTold, CopyFailed
<1>10. (\A f, g \in Files : InBatch(f) /\ InBatch(g) => f = g)'
  BY DEF BatchInv
<1> QED BY <1>5, <1>6, <1>7, <1>8, <1>9, <1>10 DEF BatchInv

\* What is to come and is no empty slot has a process, and left its trace.
ComingSound ==
  \A k \in DOMAIN Coming : Coming[k].kind \in {"bxlat", "batch"} =>
     /\ Coming[k].file \in Files \cap Batchers
     /\ file[Coming[k].file] = "open" =>
           IF Coming[k].kind = "bxlat" THEN sub[Coming[k].file] # "none" ELSE rec[Coming[k].file] # "none"

LEMMA ComingIsSound == TypeOK /\ EvlInv /\ RecordInv => ComingSound
<1> SUFFICES ASSUME TypeOK, EvlInv, RecordInv, NEW k \in DOMAIN Coming, Coming[k].kind \in {"bxlat", "batch"}
             PROVE  /\ Coming[k].file \in Files \cap Batchers
                    /\ file[Coming[k].file] = "open" =>
                          IF Coming[k].kind = "bxlat" THEN sub[Coming[k].file] # "none" ELSE rec[Coming[k].file] # "none"
  BY DEF ComingSound
<1>1. CASE k \in DOMAIN works /\ Coming[k] = works[k]
  BY <1>1, RecordTypes DEF RecordInv, WorksSound, EntrySound
<1>2. ASSUME NEW i \in Slots, Coming[k] = log[i]
      PROVE  /\ Coming[k].file \in Files \cap Batchers
             /\ file[Coming[k].file] = "open" =>
                   IF Coming[k].kind = "bxlat" THEN sub[Coming[k].file] # "none" ELSE rec[Coming[k].file] # "none"
  <2>1. Used(i)
    BY <1>2 DEF Used
  <2> QED BY <1>2, <2>1, RecordTypes DEF RecordInv, LogSound, EntrySound
<1> QED BY <1>1, <1>2, ComingFrom

\* The same, in the next state.
LEMMA ComingSoundNext ==
  ASSUME TypeOK', EvlInv', RecordInv'
  PROVE  ComingSound'
  BY ComingIsSound, PTL

\* Nothing is read, logged or worked on.
LEMMA BatchApart ==
  ASSUME TypeOK, EvlInv, RecordInv, BatchInv, TypeOK', EvlInv', RecordInv',
         UNCHANGED <<works, log, hwTail, batchFail>>, Cursor' = Cursor,
         \A f \in Files : \/ rec'[f] = rec[f] /\ sub'[f] = sub[f]
                          \/ rec'[f] = "none" /\ sub'[f] = "none",
         \A f \in Files : file'[f] = "open" => file[f] = "open" \/ sub'[f] = "none"
  PROVE  BatchInv'
<1>1. Coming' = Coming /\ Size' = Size
  BY ComingSame
<1>2. Size \in Nat /\ DOMAIN Coming = 1 .. Size
  BY ComingFacts
<1>3. \A k \in 1 .. Size : Coming[k].kind \in {"bxlat", "batch"} => Coming[k].file \in Files
  BY <1>2, ComingIsSound DEF ComingSound
<1>4. /\ \A f \in Files : InBatch(f)' => InBatch(f)
      /\ \A f \in Files : CopyFailed(f)' => CopyFailed(f)
      /\ \A f \in Files : rec'[f] \in {"ok", "unasked"} => rec[f] \in {"ok", "unasked"}
  BY DEF InBatch, CopyFailed
<1>5. \A f \in Files \ Batchers : sub'[f] = "none"
  BY DEF BatchInv
<1>6. PICK p \in Nat : p = Size + 1
  BY <1>2
<1>7. \A k \in 1 .. Size' : Coming'[k] = IF k < p THEN Coming[k] ELSE Coming[k + 1]
  BY <1>1, <1>2, <1>6
<1>8. Size' = Size /\ p > Size /\ DOMAIN Coming' = 1 .. Size'
  BY <1>1, <1>2, <1>6
<1>9. /\ \A k \in 1 .. Size' : Coming'[k].kind \in {"bxlat", "batch"} => Coming'[k].file \in Files
      /\ \A k \in 1 .. Size : Coming[k].kind = "bxlat" => Coming[k].file \in Files
  BY <1>1, <1>3
<1>10. batchFail => batchFail'
  OBVIOUS
<1> QED BY <1>2, <1>4, <1>5, <1>7, <1>8, <1>9, <1>10, BatchQuiet

LEMMA BatchPass ==
  ASSUME TypeOK, EvlInv, RecordInv, BatchInv, TypeOK', EvlInv', RecordInv', EvlEntry
  PROVE  BatchInv'
<1>1. PICK e \in Entry \cup {NoEntry} :
            /\ e = log[irq.h] /\ irq.h \in Slots
            /\ UNCHANGED <<file, batchFail>>
            /\ \/ e \in Entry /\ irq.h \in bmap /\ Outcome(e, "marked") /\ works' = works
               \/ e = NoEntry /\ UNCHANGED <<rec, sub, works>>
               \/ e \in Entry /\ irq.h \notin bmap /\ (Outcome(e, "dropped") \/ Outcome(e, "refused")) /\ works' = works
               \/ (/\ e \in Entry /\ irq.h \notin bmap /\ UNCHANGED <<rec, sub>>
                   /\ works' = works \/ works' = Append(works, e))
  BY PassFacts
<1>2. /\ Size \in Nat /\ DOMAIN Coming = 1 .. Size /\ DOMAIN Coming' = 1 .. Size'
      /\ Len(works) \in Nat
  BY ComingFacts, ComingNext
<1>3. PICK p \in Nat :
         /\ (Size' = Size /\ p > Size) \/ (Size' = Size - 1 /\ p \in 1 .. Size)
         /\ \A k \in 1 .. Size' : Coming'[k] = IF k < p THEN Coming[k] ELSE Coming[k + 1]
  <2>1. CASE works' = works
    <3>1. PICK q \in Nat : q = Len(works) + 1
      BY <1>2
    <3>2. /\ q \in 1 .. Size /\ Size' = Size - 1
          /\ \A k \in 1 .. Size' : Coming'[k] = IF k < q THEN Coming[k] ELSE Coming[k + 1]
      BY <2>1, <3>1, ComingPassed
    <3> QED BY <3>2
  <2>2. CASE works' = Append(works, e)
    <3>1. PICK q \in Nat : q = Size + 1
      BY <1>2
    <3>2. Size' = Size /\ \A k \in 1 .. Size : Coming'[k] = Coming[k]
      BY <1>1, <2>2, ComingPassed
    <3>3. \A k \in 1 .. Size' : Coming'[k] = IF k < q THEN Coming[k] ELSE Coming[k + 1]
      BY <1>2, <3>1, <3>2
    <3>4. q > Size
      BY <1>2, <3>1
    <3> QED BY <3>2, <3>3, <3>4
  <2> QED BY <1>1, <2>1, <2>2
<1>4. /\ \A k \in 1 .. Size : Coming[k].kind = "bxlat" => Coming[k].file \in Files
      /\ \A k \in 1 .. Size' : Coming'[k].kind \in {"bxlat", "batch"} => Coming'[k].file \in Files
  BY <1>2, ComingIsSound, ComingSoundNext DEF ComingSound
<1>5. /\ \A f \in Files \ Batchers : sub'[f] = "none"
      /\ \A f \in Files : InBatch(f)' => InBatch(f)
      /\ \A f \in Files : CopyFailed(f)' => CopyFailed(f)
      /\ \A f \in Files : rec'[f] \in {"ok", "unasked"} => rec[f] \in {"ok", "unasked"}
  <2>1. CASE UNCHANGED <<rec, sub>>
    BY <1>1, <2>1 DEF BatchInv, InBatch, CopyFailed
  <2>2. ASSUME NEW why \in {"marked", "dropped", "refused"}, e \in Entry, Outcome(e, why)
        PROVE  /\ \A f \in Files \ Batchers : sub'[f] = "none"
               /\ \A f \in Files : InBatch(f)' => InBatch(f)
               /\ \A f \in Files : CopyFailed(f)' => CopyFailed(f)
               /\ \A f \in Files : rec'[f] \in {"ok", "unasked"} => rec[f] \in {"ok", "unasked"}
    <3>1. /\ e.file \in Files /\ e.kind \in Kinds /\ why \in Outcomes \ {"none", "pending"} /\ EntrySound(e)
      <4>1. e.kind # "zero" /\ e.file \in Files /\ e.kind \in Kinds
        BY <2>2 DEF Entry, Kinds
      <4> QED BY <1>1, <4>1 DEF RecordInv, LogSound, Used, Outcomes
    <3>2. /\ \A g \in Files \ {e.file} : rec'[g] = rec[g] /\ sub'[g] = sub[g]
          /\ IF e.kind = "bxlat" THEN rec'[e.file] = rec[e.file] /\ sub'[e.file] = why
                                 ELSE rec'[e.file] = why /\ sub'[e.file] = sub[e.file]
      BY <2>2, <3>1, OutcomeIs
    <3>3. /\ e.kind = "xlat" <=> e.file \notin Batchers
          /\ file[e.file] = "open" => IF e.kind = "bxlat" THEN sub[e.file] # "none" ELSE rec[e.file] # "none"
      BY <3>1 DEF EntrySound
    <3> QED BY <1>1, <2>2, <3>1, <3>2, <3>3 DEF BatchInv, InBatch, CopyFailed
  <2> QED BY <1>1, <2>1, <2>2
<1>6. batchFail => batchFail'
  BY <1>1
<1> QED BY <1>2, <1>3, <1>4, <1>5, <1>6, BatchQuiet

LEMMA BatchLog ==
  ASSUME TypeOK, EvlInv, RecordInv, BatchInv, TypeOK', EvlInv', RecordInv',
         NEW f \in Files, NEW kind \in Kinds, DevLog(f, kind)
  PROVE  BatchInv'
<1>0. PICK rcr \in BOOLEAN : log' = [log EXCEPT ![hwTail] = [file |-> f, pasid |-> pasid[f], kind |-> kind, rcr |-> rcr]]
  BY DEF DevLog
<1> DEFINE new == [file |-> f, pasid |-> pasid[f], kind |-> kind, rcr |-> rcr]
<1>1. /\ file[f] = "open" /\ rec[f] = "none" /\ ((sub[f] # "none") = (kind = "batch"))
      /\ (f \in Batchers) = (kind # "xlat")
      /\ kind = "bxlat" => \A g \in Files : ~InBatch(g)
      /\ log' = [log EXCEPT ![hwTail] = new]
      /\ hwTail' = (hwTail + 1) % EvlSize /\ (hwTail + 1) % EvlSize # hwHead
      /\ rec' = [rec EXCEPT ![f] = IF kind = "bxlat" THEN rec[f] ELSE "pending"]
      /\ sub' = [sub EXCEPT ![f] = IF kind = "bxlat" THEN "pending" ELSE sub[f]]
      /\ UNCHANGED <<file, works, irq, swHead, batchFail>>
  BY <1>0 DEF DevLog, fileVars
<1>2. PICK e : e = new
  OBVIOUS
<1>3. e.file = f /\ e.kind = kind
  BY <1>2
<1> HIDE DEF new
<1>4. PICK n \in Nat :
        /\ Size = n /\ DOMAIN Coming = 1 .. n /\ Size' = n + 1
        /\ DOMAIN Coming' = 1 .. n + 1 /\ Coming'[n + 1] = e
        /\ \A k \in 1 .. n : Coming'[k] = Coming[k]
  <2>1. log' = [log EXCEPT ![hwTail] = e]
    BY <1>1, <1>2
  <2>2. Size \in Nat /\ DOMAIN Coming = 1 .. Size /\ DOMAIN Coming' = 1 .. Size'
    BY ComingFacts, ComingNext
  <2>3. /\ Size' = Size + 1 /\ Coming'[Size + 1] = e
        /\ \A k \in 1 .. Size : Coming'[k] = Coming[k]
    BY <1>1, <2>1, ComingLogged
  <2> QED BY <2>2, <2>3
<1>5. \A g \in Files : IF g = f THEN IF kind = "bxlat" THEN rec'[g] = "none" /\ sub'[g] = "pending"
                                                       ELSE rec'[g] = "pending" /\ sub'[g] = sub[g]
                       ELSE rec'[g] = rec[g] /\ sub'[g] = sub[g]
  BY <1>1, RecordTypes
<1>6. /\ \A g \in Files \ {f} : (InBatch(g)' <=> InBatch(g)) /\ (CopyFailed(g)' <=> CopyFailed(g))
      /\ kind # "bxlat" => ~InBatch(f)' /\ (CopyFailed(f)' <=> CopyFailed(f))
      /\ kind = "bxlat" => ~CopyFailed(f)'
      /\ kind = "batch" => InBatch(f)
  BY <1>1, <1>5 DEF InBatch, CopyFailed
<1>7. \A k \in 1 .. n : /\ Batchwise(k)' <=> Batchwise(k)
                        /\ Batchwise(k) => Coming[k].file \in Files
                        /\ Batchwise(k) /\ Coming[k].file = f => Coming[k].kind = "bxlat" /\ kind # "bxlat"
  <2>1. \A k \in 1 .. n : Batchwise(k)' <=> Batchwise(k)
    BY <1>4 DEF Batchwise
  <2>2. ComingSound
    BY ComingIsSound
  <2>3. \A k \in 1 .. n : Batchwise(k) => Coming[k].file \in Files
    BY <1>4, <2>2 DEF Batchwise, ComingSound
  <2>4. ASSUME NEW k \in 1 .. n, Batchwise(k), Coming[k].file = f
        PROVE  Coming[k].kind = "bxlat" /\ kind # "bxlat"
    <3>1. IF Coming[k].kind = "bxlat" THEN sub[f] # "none" ELSE rec[f] # "none"
      BY <1>1, <1>4, <2>2, <2>4 DEF Batchwise, ComingSound
    <3> QED BY <1>1, <3>1
  <2> QED BY <2>1, <2>3, <2>4
<1>8. Batchwise(n + 1)' <=> kind # "xlat"
  <2>1. Coming'[n + 1].kind = kind
    BY <1>3, <1>4
  <2> QED BY <2>1 DEF Batchwise, Kinds
<1>9. (\A g \in Files \ Batchers : sub[g] = "none")'
  BY <1>1, <1>5 DEF BatchInv
<1>10. (\A g, h \in Files : InBatch(g) /\ InBatch(h) => g = h)'
  <2> SUFFICES ASSUME NEW g \in Files, NEW h \in Files, InBatch(g)', InBatch(h)' PROVE g = h
    OBVIOUS
  <2> QED BY <1>1, <1>6 DEF BatchInv
<1>11. (\A k, l \in DOMAIN Coming : k < l /\ SameBatch(k, l) =>
          /\ Coming[k].kind = "bxlat" /\ Coming[l].kind = "batch"
          /\ \A j \in k + 1 .. l - 1 : ~Batchwise(j))'
  <2> SUFFICES ASSUME NEW k \in 1 .. n + 1, NEW l \in 1 .. n + 1, k < l, SameBatch(k, l)'
               PROVE  /\ Coming'[k].kind = "bxlat" /\ Coming'[l].kind = "batch"
                      /\ \A j \in k + 1 .. l - 1 : ~Batchwise(j)'
    BY <1>4
  <2>0. k \in 1 .. n /\ \A j \in k + 1 .. l - 1 : j \in 1 .. n
    OBVIOUS
  <2>1. CASE l \in 1 .. n
    <3>1. SameBatch(k, l)
      BY <1>4, <1>7, <2>0, <2>1 DEF SameBatch
    <3>2. /\ Coming[k].kind = "bxlat" /\ Coming[l].kind = "batch"
          /\ \A j \in k + 1 .. l - 1 : ~Batchwise(j)
      BY <1>4, <2>0, <2>1, <3>1 DEF BatchInv
    <3> QED BY <1>4, <1>7, <2>0, <2>1, <3>2
  <2>2. CASE l = n + 1
    <3>1. Batchwise(k) /\ Coming[k].file = f /\ kind # "xlat"
      BY <1>3, <1>4, <1>7, <1>8, <2>0, <2>2 DEF SameBatch
    <3>2. Coming[k].kind = "bxlat" /\ kind = "batch"
      BY <1>7, <2>0, <3>1 DEF Kinds
    <3>3. \A j \in k + 1 .. n : ~Batchwise(j)
      <4>1. InBatch(Coming[k].file)
        BY <1>6, <3>1, <3>2
      <4> QED BY <1>4, <2>0, <3>2, <4>1 DEF BatchInv, Size
    <3> QED BY <1>3, <1>4, <1>7, <2>0, <2>2, <3>2, <3>3
  <2> QED BY <2>1, <2>2
<1>12. (\A k \in DOMAIN Coming : Coming[k].kind = "bxlat" =>
          /\ rec[Coming[k].file] \notin {"ok", "unasked"}
          /\ InBatch(Coming[k].file) => \A j \in k + 1 .. Len(works) + Left : ~Batchwise(j))'
  <2> SUFFICES ASSUME NEW k \in 1 .. n + 1, Coming'[k].kind = "bxlat"
               PROVE  /\ rec'[Coming'[k].file] \notin {"ok", "unasked"}
                      /\ InBatch(Coming[k].file)' => \A j \in k + 1 .. n + 1 : ~Batchwise(j)'
    BY <1>4 DEF Size
  <2>1. CASE k = n + 1
    <3>1. Coming'[k].file = f
      BY <1>3, <1>4, <2>1
    <3> QED BY <1>5, <2>1, <3>1
  <2>2. CASE k \in 1 .. n
    <3>1. Batchwise(k) /\ Coming'[k] = Coming[k] /\ Coming[k].kind = "bxlat"
      BY <1>4, <2>2 DEF Batchwise
    <3>2. PICK g \in Files : g = Coming[k].file
      BY <1>7, <2>2, <3>1
    <3>3. rec[g] \notin {"ok", "unasked"} /\ (InBatch(g) => \A j \in k + 1 .. n : ~Batchwise(j))
      BY <1>4, <2>2, <3>1, <3>2 DEF BatchInv, Size
    <3>4. rec'[g] \notin {"ok", "unasked"}
      BY <1>5, <3>3
    <3>5. g = f => kind # "bxlat"
      BY <1>7, <2>2, <3>1, <3>2
    <3>6. InBatch(g)' => g # f /\ kind = "xlat" /\ InBatch(g)
      <4>1. ASSUME InBatch(g)' PROVE g # f
        BY <1>6, <3>5, <4>1
      <4>2. ASSUME InBatch(g)' PROVE InBatch(g)
        BY <1>6, <4>1, <4>2
      <4>3. ASSUME InBatch(g)' PROVE kind = "xlat"
        BY <1>1, <1>6, <4>1, <4>2, <4>3 DEF BatchInv, Kinds
      <4> QED BY <4>1, <4>2, <4>3
    <3>7. InBatch(Coming[k].file)' <=> InBatch(g)'
      BY <3>1, <3>2 DEF InBatch
    <3>8. ASSUME InBatch(g)', NEW j \in k + 1 .. n + 1 PROVE ~Batchwise(j)'
      <4>1. j \in k + 1 .. n \/ j = n + 1
        OBVIOUS
      <4>2. j \in k + 1 .. n => j \in 1 .. n
        OBVIOUS
      <4> QED BY <1>7, <1>8, <3>3, <3>6, <3>8, <4>1, <4>2
    <3> QED BY <3>1, <3>2, <3>4, <3>7, <3>8
  <2> QED BY <2>1, <2>2
<1>13. (\A g \in Files : InBatch(g) /\ CopyFailed(g) =>
          batchFail /\ \A j \in DOMAIN Coming : ~Batchwise(j))'
  <2> SUFFICES ASSUME NEW g \in Files, InBatch(g)', CopyFailed(g)'
               PROVE  batchFail' /\ \A j \in 1 .. n + 1 : ~Batchwise(j)'
    BY <1>4
  <2>1. g # f
    BY <1>6
  <2>2. InBatch(g) /\ CopyFailed(g)
    BY <1>6, <2>1
  <2>3. kind = "xlat"
    BY <1>1, <1>6, <2>1, <2>2 DEF BatchInv, Kinds
  <2>4. batchFail /\ \A j \in 1 .. n : ~Batchwise(j)
    BY <1>4, <2>2 DEF BatchInv
  <2>5. \A j \in 1 .. n + 1 : j \in 1 .. n \/ j = n + 1
    OBVIOUS
  <2> QED BY <1>1, <1>7, <1>8, <2>3, <2>4, <2>5
<1>14. (\A k \in DOMAIN Coming : Coming[k].kind = "batch" /\ CopyFailed(Coming[k].file) =>
          batchFail /\ \A j \in 1 .. k - 1 : ~Batchwise(j))'
  <2> SUFFICES ASSUME NEW k \in 1 .. n + 1, Coming'[k].kind = "batch", CopyFailed(Coming[k].file)'
               PROVE  batchFail' /\ \A j \in 1 .. k - 1 : ~Batchwise(j)'
    BY <1>4
  <2>0. \A j \in 1 .. k - 1 : j \in 1 .. n
    OBVIOUS
  <2>1. CASE k = n + 1
    <3>1. kind = "batch" /\ Coming'[k].file = f
      BY <1>3, <1>4, <2>1
    <3>2. CopyFailed(f)'
      BY <3>1 DEF CopyFailed
    <3>3. InBatch(f) /\ CopyFailed(f)
      BY <1>6, <3>1, <3>2
    <3>4. batchFail /\ \A j \in 1 .. n : ~Batchwise(j)
      BY <1>4, <3>3 DEF BatchInv
    <3> QED BY <1>1, <1>7, <2>0, <3>4
  <2>2. CASE k \in 1 .. n
    <3>1. Batchwise(k) /\ Coming'[k] = Coming[k] /\ Coming[k].kind = "batch"
      BY <1>4, <2>2 DEF Batchwise
    <3>2. PICK g \in Files : g = Coming[k].file
      BY <1>7, <2>2, <3>1
    <3>3. CopyFailed(g)'
      BY <3>1, <3>2 DEF CopyFailed
    <3>4. CopyFailed(g)
      BY <1>6, <3>3
    <3>5. batchFail /\ \A j \in 1 .. k - 1 : ~Batchwise(j)
      BY <1>4, <2>2, <3>1, <3>2, <3>4 DEF BatchInv
    <3> QED BY <1>1, <1>7, <2>0, <3>5
  <2> QED BY <2>1, <2>2
<1>15. BatchTold'
  BY <1>5 DEF BatchInv, BatchTold
<1> QED BY <1>9, <1>10, <1>11, <1>12, <1>13, <1>14, <1>15 DEF BatchInv

LEMMA BatchWork ==
  ASSUME TypeOK, EvlInv, CtxInv, RecordInv, BatchInv, TypeOK', EvlInv', RecordInv', FaultWork
  PROVE  BatchInv'
<1>1. PICK e \in Entry, why \in {"ok", "fail", "efault", "noctx", "unasked"} :
            /\ e = works[1] /\ works # <<>> /\ Outcome(e, why)
            /\ e.file \in Files /\ EntrySound(e) /\ works' = Tail(works)
            /\ UNCHANGED <<file, log, hwTail, swHead, irq>>
            /\ e.kind = "xlat" => batchFail' = batchFail
            /\ e.kind = "bxlat" /\ why \in {"efault", "noctx"} => batchFail'
            /\ e.kind = "batch" /\ batchFail => why \notin {"ok", "unasked"}
  BY WorkFacts
<1>2. PICK n \in Nat :
        /\ Size = n + 1 /\ DOMAIN Coming = 1 .. n + 1 /\ Size' = n /\ DOMAIN Coming' = 1 .. n
        /\ Coming[1] = e /\ \A k \in 1 .. n : Coming'[k] = Coming[k + 1]
  <2>1. /\ Size \in Nat /\ DOMAIN Coming = 1 .. Size /\ DOMAIN Coming' = 1 .. Size' /\ Size' \in Nat
    BY ComingFacts, ComingNext
  <2>2. /\ Coming[1] = works[1] /\ Size' = Size - 1
        /\ \A k \in 1 .. Size' : Coming'[k] = Coming[k + 1]
    BY <1>1, ComingWorked
  <2> QED BY <1>1, <2>1, <2>2
<1>3. e.kind \in Kinds /\ why \in Outcomes \ {"none", "pending"}
  BY DEF Entry, Outcomes
<1>4. /\ \A g \in Files \ {e.file} : rec'[g] = rec[g] /\ sub'[g] = sub[g]
      /\ IF e.kind = "bxlat" THEN rec'[e.file] = rec[e.file] /\ sub'[e.file] = why
                             ELSE rec'[e.file] = why /\ sub'[e.file] = sub[e.file]
  BY <1>1, <1>3, OutcomeIs
<1>5. /\ e.kind = "xlat" <=> e.file \notin Batchers
      /\ file[e.file] = "open" => IF e.kind = "bxlat" THEN sub[e.file] # "none" ELSE rec[e.file] # "none"
  BY <1>1 DEF EntrySound
<1>6. \A g \in Files : InBatch(g)' => InBatch(g)
  BY <1>1, <1>3, <1>4, <1>5 DEF InBatch
<1>7. \A g \in Files : g # e.file \/ e.kind # "bxlat" => (CopyFailed(g)' <=> CopyFailed(g))
  BY <1>4 DEF CopyFailed
<1>8. \A g \in Files \ Batchers : sub'[g] = "none"
  BY <1>1, <1>4, <1>5 DEF BatchInv
<1>9. /\ \A k \in 1 .. n + 1 : Coming[k].kind \in {"bxlat", "batch"} => Coming[k].file \in Files \cap Batchers
      /\ \A k \in 1 .. n : Coming'[k].kind \in {"bxlat", "batch"} => Coming'[k].file \in Files \cap Batchers
  <2>1. ComingSound /\ ComingSound'
    BY ComingIsSound, ComingSoundNext
  <2> QED BY <1>2, <2>1 DEF ComingSound
<1>10. CASE e.kind = "xlat"
  <2>1. PICK p \in Nat : p = 1
    OBVIOUS
  <2>2. /\ \A k \in 1 .. Size' : Coming'[k] = IF k < p THEN Coming[k] ELSE Coming[k + 1]
        /\ Size' = Size - 1 /\ p \in 1 .. Size /\ Size \in Nat
        /\ DOMAIN Coming = 1 .. Size /\ DOMAIN Coming' = 1 .. Size'
    BY <1>2, <2>1
  <2>3. /\ \A k \in 1 .. Size : Coming[k].kind = "bxlat" => Coming[k].file \in Files
        /\ \A k \in 1 .. Size' : Coming'[k].kind \in {"bxlat", "batch"} => Coming'[k].file \in Files
    BY <1>2, <1>9
  <2>4. /\ \A g \in Files : CopyFailed(g)' => CopyFailed(g)
        /\ batchFail => batchFail'
    BY <1>1, <1>7, <1>10
  <2>5. ASSUME NEW g \in Files, rec'[g] \in {"ok", "unasked"}
        PROVE  rec[g] \in {"ok", "unasked"} \/ (~CopyFailed(g)' /\ \A k \in 1 .. Size' : ~(Coming'[k].kind = "bxlat" /\ Coming'[k].file = g))
    <3>1. CASE g = e.file
      <4>1. g \notin Batchers /\ sub'[g] = "none"
        BY <1>5, <1>8, <1>10, <3>1
      <4> QED BY <1>2, <1>9, <4>1 DEF CopyFailed
    <3>2. CASE g # e.file
      BY <1>4, <2>5, <3>2
    <3> QED BY <3>1, <3>2
  <2> QED BY <1>6, <1>8, <2>2, <2>3, <2>4, <2>5, BatchQuiet
<1>11. CASE e.kind # "xlat"
  <2>1. e.kind \in {"bxlat", "batch"} /\ Batchwise(1) /\ 1 \in DOMAIN Coming
    BY <1>2, <1>3, <1>11 DEF Kinds, Batchwise
  <2>2. \A g \in Files : ~(InBatch(g) /\ CopyFailed(g))
    BY <2>1 DEF BatchInv
  <2>3. ASSUME NEW k \in 2 .. n + 1, Coming[k].kind = "batch" PROVE ~CopyFailed(Coming[k].file)
    <3>1. k \in DOMAIN Coming /\ 1 \in 1 .. k - 1
      BY <1>2
    <3> QED BY <2>1, <2>3, <3>1 DEF BatchInv
  <2>4. \A k \in 1 .. n : k + 1 \in 2 .. n + 1 /\ k + 1 \in 1 .. n + 1 /\ (Batchwise(k)' <=> Batchwise(k + 1))
    BY <1>2 DEF Batchwise
  <2>5. ASSUME NEW k \in 2 .. n + 1, Batchwise(k), Coming[k].file = e.file
        PROVE  /\ e.kind = "bxlat" /\ Coming[k].kind = "batch"
               /\ \A j \in 2 .. k - 1 : ~Batchwise(j)
    <3>1. SameBatch(1, k) /\ 1 < k /\ k \in DOMAIN Coming /\ 1 + 1 = 2
      BY <1>2, <2>1, <2>5 DEF SameBatch
    <3> QED BY <1>2, <2>1, <3>1 DEF BatchInv
  <2>6. (\A k, l \in DOMAIN Coming : k < l /\ SameBatch(k, l) =>
          /\ Coming[k].kind = "bxlat" /\ Coming[l].kind = "batch"
          /\ \A j \in k + 1 .. l - 1 : ~Batchwise(j))'
    <3> SUFFICES ASSUME NEW k \in 1 .. n, NEW l \in 1 .. n, k < l, SameBatch(k, l)'
                 PROVE  /\ Coming'[k].kind = "bxlat" /\ Coming'[l].kind = "batch"
                        /\ \A j \in k + 1 .. l - 1 : ~Batchwise(j)'
      BY <1>2
    <3>1. SameBatch(k + 1, l + 1) /\ k + 1 < l + 1
      BY <1>2, <2>4 DEF SameBatch
    <3>2. /\ Coming[k + 1].kind = "bxlat" /\ Coming[l + 1].kind = "batch"
          /\ \A j \in (k + 1) + 1 .. (l + 1) - 1 : ~Batchwise(j)
      BY <1>2, <2>4, <3>1 DEF BatchInv
    <3>3. \A j \in k + 1 .. l - 1 : j \in 1 .. n /\ j + 1 \in (k + 1) + 1 .. (l + 1) - 1
      OBVIOUS
    <3> QED BY <1>2, <2>4, <3>2, <3>3
  <2>7. (\A k \in DOMAIN Coming : Coming[k].kind = "bxlat" =>
          /\ rec[Coming[k].file] \notin {"ok", "unasked"}
          /\ InBatch(Coming[k].file) => \A j \in k + 1 .. Len(works) + Left : ~Batchwise(j))'
    <3> SUFFICES ASSUME NEW k \in 1 .. n, Coming'[k].kind = "bxlat"
                 PROVE  /\ rec'[Coming'[k].file] \notin {"ok", "unasked"}
                        /\ InBatch(Coming[k].file)' => \A j \in k + 1 .. n : ~Batchwise(j)'
      BY <1>2 DEF Size
    <3>1. PICK g \in Files : g = Coming[k + 1].file /\ g = Coming'[k].file
      BY <1>2, <1>9
    <3>2. Batchwise(k + 1) /\ Coming[k + 1].kind = "bxlat"
      BY <1>2 DEF Batchwise
    <3>3. g # e.file
      BY <2>4, <2>5, <3>1, <3>2
    <3>4. rec[g] \notin {"ok", "unasked"} /\ (InBatch(g) => \A j \in (k + 1) + 1 .. n + 1 : ~Batchwise(j))
      BY <1>2, <2>4, <3>1, <3>2, ZenonT(60) DEF BatchInv, Size
    <3>5. InBatch(Coming[k].file)' <=> InBatch(g)'
      BY <3>1 DEF InBatch
    <3>6. \A j \in k + 1 .. n : j \in 1 .. n /\ j + 1 \in (k + 1) + 1 .. n + 1
      OBVIOUS
    <3> QED BY <1>4, <1>6, <2>4, <3>1, <3>3, <3>4, <3>5, <3>6
  <2>8. (\A g \in Files : InBatch(g) /\ CopyFailed(g) =>
          batchFail /\ \A j \in DOMAIN Coming : ~Batchwise(j))'
    <3> SUFFICES ASSUME NEW g \in Files, InBatch(g)', CopyFailed(g)'
                 PROVE  batchFail' /\ \A j \in 1 .. n : ~Batchwise(j)'
      BY <1>2
    <3>1. InBatch(g)
      BY <1>6
    <3>2. g = e.file /\ e.kind = "bxlat"
      BY <1>7, <2>2, <3>1
    <3>3. why \in {"efault", "noctx"}
      BY <1>4, <3>2 DEF CopyFailed
    <3>4. \A j \in 1 + 1 .. n + 1 : ~Batchwise(j)
      BY <1>2, <2>1, <3>1, <3>2 DEF BatchInv, Size
    <3> QED BY <1>1, <2>4, <3>2, <3>3, <3>4
  <2>9. (\A k \in DOMAIN Coming : Coming[k].kind = "batch" /\ CopyFailed(Coming[k].file) =>
          batchFail /\ \A j \in 1 .. k - 1 : ~Batchwise(j))'
    <3> SUFFICES ASSUME NEW k \in 1 .. n, Coming'[k].kind = "batch", CopyFailed(Coming[k].file)'
                 PROVE  batchFail' /\ \A j \in 1 .. k - 1 : ~Batchwise(j)'
      BY <1>2
    <3>1. PICK g \in Files : g = Coming[k + 1].file /\ g = Coming'[k].file
      BY <1>2, <1>9
    <3>2. Batchwise(k + 1) /\ Coming[k + 1].kind = "batch"
      BY <1>2 DEF Batchwise
    <3>3. CopyFailed(g)' /\ ~CopyFailed(g)
      <4>1. ~CopyFailed(Coming[k + 1].file)
        BY <2>3, <2>4, <3>2
      <4> QED BY <3>1, <4>1 DEF CopyFailed
    <3>4. g = e.file /\ e.kind = "bxlat"
      BY <1>7, <3>3
    <3>5. why \in {"efault", "noctx"}
      BY <1>4, <3>3, <3>4 DEF CopyFailed
    <3>6. \A j \in 2 .. (k + 1) - 1 : ~Batchwise(j)
      BY <2>4, <2>5, <3>1, <3>2, <3>4
    <3>7. \A j \in 1 .. k - 1 : j \in 1 .. n /\ j + 1 \in 2 .. (k + 1) - 1
      OBVIOUS
    <3> QED BY <1>1, <2>4, <3>4, <3>5, <3>6, <3>7
  <2>10. BatchTold'
    <3> SUFFICES ASSUME NEW g \in Files, rec'[g] \in {"ok", "unasked"} PROVE ~CopyFailed(g)'
      BY DEF BatchTold, CopyFailed
    <3>1. CASE g # e.file
      BY <1>4, <1>7, <3>1 DEF BatchInv, BatchTold, CopyFailed
    <3>2. CASE g = e.file /\ e.kind = "bxlat"
      BY <1>2, <1>4, <2>1, <3>2 DEF BatchInv
    <3>3. CASE g = e.file /\ e.kind = "batch"
      <4>1. why \in {"ok", "unasked"} /\ ~batchFail
        BY <1>1, <1>4, <3>3
      <4>2. ~CopyFailed(g)
        BY <1>2, <2>1, <3>3, <4>1 DEF BatchInv
      <4> QED BY <1>7, <3>3, <4>2
    <3> QED BY <2>1, <3>1, <3>2, <3>3
  <2>11. (\A g, h \in Files : InBatch(g) /\ InBatch(h) => g = h)'
    BY <1>6 DEF BatchInv
  <2> QED BY <1>8, <2>6, <2>7, <2>8, <2>9, <2>10, <2>11 DEF BatchInv
<1> QED BY <1>10, <1>11

\* A step of a file leaves what is to come alone, and takes up no batch.
BatchQuietStep ==
  /\ UNCHANGED <<works, log, hwTail, batchFail>> /\ Cursor' = Cursor
  /\ \A f \in Files : \/ rec'[f] = rec[f] /\ sub'[f] = sub[f]
                      \/ rec'[f] = "none" /\ sub'[f] = "none"
  /\ \A f \in Files : file'[f] = "open" => file[f] = "open" \/ sub'[f] = "none"

LEMMA BatchFile ==
  ASSUME TypeOK, RecordInv, NEW f \in Files,
         \/ OpenFails(f) \/ OpenNoId(f) \/ OpenAddFails(f) \/ OpenSucceeds(f) \/ Close(f)
  PROVE  BatchQuietStep
<1>0. /\ file \in [Files -> Stages] /\ rec \in [Files -> Outcomes] /\ sub \in [Files -> Outcomes]
  BY DEF TypeOK
<1>1. UNCHANGED <<works, log, hwTail, swHead, irq, batchFail>>
  BY DEF OpenFails, OpenNoId, OpenAddFails, OpenSucceeds, Close, Unregister, CloseDangling,
         MarkEvl, DrainWorkqueue, SvaUnbind, PasidRemove, PutWq, evlVars, workVars
<1>2. Cursor' = Cursor
  BY <1>1 DEF Cursor
<1>3. CASE OpenSucceeds(f)
  <2>1. file[f] = "new" /\ file' = [file EXCEPT ![f] = "open"] /\ UNCHANGED <<rec, sub>>
    BY <1>3 DEF OpenSucceeds, workVars
  <2> QED BY <1>0, <1>1, <1>2, <2>1 DEF BatchQuietStep, RecordInv
<1>4. CASE PasidRemove(f)
  <2>1. /\ file' = [file EXCEPT ![f] = "removed"]
        /\ rec' = [rec EXCEPT ![f] = "none"] /\ sub' = [sub EXCEPT ![f] = "none"]
    BY <1>4 DEF PasidRemove, Stage
  <2> QED BY <1>0, <1>1, <1>2, <2>1 DEF BatchQuietStep
<1>5. ASSUME \/ OpenFails(f) \/ OpenNoId(f) \/ OpenAddFails(f) \/ Unregister(f) \/ CloseDangling(f)
             \/ MarkEvl(f) \/ DrainWorkqueue(f) \/ SvaUnbind(f) \/ PutWq(f)
      PROVE  BatchQuietStep
  <2>1. PICK to \in Stages \ {"open"} : file' = [file EXCEPT ![f] = to]
    BY <1>5 DEF OpenFails, OpenNoId, OpenAddFails, Unregister, CloseDangling, MarkEvl, DrainWorkqueue,
                SvaUnbind, PutWq, Stage, Stages, Live
  <2>2. UNCHANGED <<rec, sub>>
    BY <1>5 DEF OpenFails, OpenNoId, OpenAddFails, Unregister, CloseDangling, MarkEvl, DrainWorkqueue,
                SvaUnbind, PutWq, workVars
  <2> QED BY <1>0, <1>1, <1>2, <2>1, <2>2 DEF BatchQuietStep
<1> QED BY <1>3, <1>4, <1>5 DEF Close

\* The thread reads or writes the registers of the log, or the queue is bound.
LEMMA BatchThread ==
  ASSUME TypeOK, EvlInv,
         \/ MiscThread \/ EvlClear \/ EvlTail \/ EvlDone
         \/ UserDrvRemove \/ UserDrvProbe \/ UNCHANGED vars
  PROVE  BatchQuietStep
<1>1. UNCHANGED <<works, log, hwTail, batchFail, rec, sub, file>>
  BY DEF MiscThread, EvlClear, EvlTail, EvlDone, UserDrvRemove, UserDrvProbe, vars, evlVars, workVars, fileVars
<1>2. irq \in [at : {"idle", "evl", "cleared", "locked"}, h : Slots, t : Slots]
  BY DEF EvlInv
<1>3. CASE MiscThread \/ EvlClear
  <2>1. UNCHANGED swHead /\ irq.at # "locked" /\ irq'.at # "locked"
    BY <1>2, <1>3 DEF MiscThread, EvlClear
  <2> QED BY <1>1, <2>1 DEF BatchQuietStep, Cursor
<1>4. CASE EvlTail
  <2>1. irq.at # "locked" /\ irq'.at = "locked" /\ irq'.h = swHead
    BY <1>2, <1>4 DEF EvlTail
  <2> QED BY <1>1, <2>1 DEF BatchQuietStep, Cursor
<1>5. CASE EvlDone
  <2>1. irq.at = "locked" /\ irq'.at # "locked" /\ swHead' = irq.h
    BY <1>2, <1>5 DEF EvlDone, Idle
  <2> QED BY <1>1, <2>1 DEF BatchQuietStep, Cursor
<1>6. CASE UserDrvRemove \/ UserDrvProbe \/ UNCHANGED vars
  <2>1. UNCHANGED <<irq, swHead>>
    BY <1>6 DEF UserDrvRemove, UserDrvProbe, vars, evlVars
  <2> QED BY <1>1, <2>1 DEF BatchQuietStep, Cursor
<1> QED BY <1>3, <1>4, <1>5, <1>6

LEMMA BatchStep ==
  ASSUME TypeOK, EvlInv, CtxInv, RecordInv, BatchInv, TypeOK', EvlInv', RecordInv', [Next]_vars
  PROVE  BatchInv'
<1>1. ASSUME BatchQuietStep PROVE BatchInv'
  BY <1>1, BatchApart DEF BatchQuietStep
<1>2. ASSUME NEW f \in Files,
             \/ OpenFails(f) \/ OpenNoId(f) \/ OpenAddFails(f) \/ OpenSucceeds(f) \/ Close(f)
      PROVE  BatchInv'
  BY <1>1, <1>2, BatchFile
<1>3. ASSUME NEW f \in Files, NEW kind \in {"xlat", "bxlat", "batch"}, DevLog(f, kind)
      PROVE  BatchInv'
  BY <1>3, BatchLog DEF Kinds
<1>4. ASSUME \/ MiscThread \/ EvlClear \/ EvlTail \/ EvlDone
             \/ UserDrvRemove \/ UserDrvProbe \/ UNCHANGED vars
      PROVE  BatchInv'
  BY <1>1, <1>4, BatchThread
<1> QED BY <1>2, <1>3, <1>4, BatchPass, BatchWork DEF Next, Interrupt

-----------------------------------------------------------------------------
(* Works refused by a workqueue that drains.                               *)

\* How a step moves a file and the set of those that drain.
LEMMA FileMoves ==
  ASSUME [Next]_vars
  PROVE  \/ UNCHANGED <<file, draining>>
         \/ \E f \in Files, to \in Stages :
               /\ file' = [file EXCEPT ![f] = to]
               /\ HasDrained(f) => to \in {"flushed", "unbound", "removed", "closed"}
               /\ \/ file[f] # "marked" /\ draining' = draining
                  \/ to = "marked" /\ draining' = draining \cup {f}
                  \/ draining' = draining \ {f}
               /\ to = "open" => file[f] = "new" /\ UNCHANGED <<rec, sub>>
<1>1. ASSUME NEW f \in Files,
             OpenFails(f) \/ OpenNoId(f) \/ OpenAddFails(f) \/ CloseDangling(f) \/ Unregister(f)
             \/ OpenSucceeds(f)
      PROVE  \E to \in Stages : /\ file' = [file EXCEPT ![f] = to] /\ ~HasDrained(f)
                                /\ file[f] # "marked" /\ draining' = draining
                                /\ to = "open" => file[f] = "new" /\ UNCHANGED <<rec, sub>>
  <2>1. PICK to \in {"failed", "dangling", "drained", "lost", "open"} :
            file' = [file EXCEPT ![f] = to] /\ (to = "open" => file[f] = "new" /\ UNCHANGED <<rec, sub>>)
    BY <1>1 DEF OpenFails, OpenNoId, OpenAddFails, OpenSucceeds, CloseDangling, Unregister, Stage, workVars
  <2>2. file[f] \in {"new", "dangling", "open"} /\ draining' = draining
    BY <1>1 DEF OpenFails, OpenNoId, OpenAddFails, OpenSucceeds, CloseDangling, Unregister, Stage
  <2> QED BY <2>1, <2>2 DEF Stages, Live, HasDrained
<1>2. ASSUME NEW f \in Files, SvaUnbind(f) \/ PasidRemove(f) \/ PutWq(f)
      PROVE  \E to \in {"unbound", "removed", "closed"} :
                file' = [file EXCEPT ![f] = to] /\ file[f] # "marked" /\ draining' = draining
  BY <1>2 DEF SvaUnbind, PasidRemove, PutWq, Stage
<1>3. ASSUME NEW f \in Files, MarkEvl(f)
      PROVE  /\ file' = [file EXCEPT ![f] = "marked"] /\ ~HasDrained(f)
             /\ draining' = draining \cup {f}
  BY <1>3 DEF MarkEvl, Stage, HasDrained
<1>4. ASSUME NEW f \in Files, DrainWorkqueue(f)
      PROVE  file' = [file EXCEPT ![f] = "flushed"] /\ draining' = draining \ {f}
  BY <1>4 DEF DrainWorkqueue, Stage
<1>5. ASSUME NEW f \in Files, NEW kind, DevLog(f, kind) PROVE UNCHANGED <<file, draining>>
  BY <1>5 DEF DevLog, fileVars
<1>6. Interrupt \/ FaultWork \/ UserDrvRemove \/ UserDrvProbe \/ UNCHANGED vars => UNCHANGED <<file, draining>>
  BY DEF Interrupt, MiscThread, EvlClear, EvlTail, EvlEntry, EvlDone, FaultWork, UserDrvRemove,
         UserDrvProbe, vars, fileVars
<1>7. {"unbound", "removed", "closed", "marked", "flushed"} \subseteq Stages
  BY DEF Stages, Live
<1> QED BY <1>1, <1>2, <1>3, <1>4, <1>5, <1>6, <1>7 DEF Next, Close

\* A record turns out refused only while a file drains.
LEMMA RefusedWhileDraining ==
  ASSUME TypeOK, EvlInv, CtxInv, RecordInv, [Next]_vars, NEW f \in Files,
         "refused" \in {rec'[f], sub'[f]}, "refused" \notin {rec[f], sub[f]}
  PROVE  draining # {} /\ EvlEntry
<1>0. rec \in [Files -> Outcomes] /\ sub \in [Files -> Outcomes]
  BY DEF TypeOK
<1>1. ASSUME NEW e, e.file \in Files, NEW why \in Outcomes \ {"refused"}, Outcome(e, why)
      PROVE  FALSE
  BY <1>0, <1>1 DEF Outcome
<1>2. CASE EvlEntry
  <2>1. PICK e \in Entry \cup {NoEntry} : e = log[irq.h] /\ (e.kind # "zero" => e.file \in Files)
    <3>1. irq.h \in Slots
      BY RingTypes
    <3> QED BY <3>1 DEF EvlInv, NoEntry, Entry
  <2>2. irq.h \in bmap => e.kind # "zero"
    BY <2>1, RingTypes DEF EvlInv, Used
  <2>3. "marked" \in Outcomes /\ "dropped" \in Outcomes
    BY DEF Outcomes
  <2>4. \/ irq.h \in bmap /\ Outcome(e, "marked")
        \/ UNCHANGED <<rec, sub>>
        \/ e.kind # "zero" /\ Outcome(e, "dropped")
        \/ draining # {}
    BY <1>2, <2>1 DEF EvlEntry
  <2> QED BY <1>1, <1>2, <2>1, <2>2, <2>3, <2>4
<1>3. CASE FaultWork
  <2>1. PICK e \in Entry, why \in {"ok", "fail", "efault", "noctx", "unasked"} : Outcome(e, why) /\ e.file \in Files
    BY <1>3, WorkFacts
  <2>2. why \in Outcomes \ {"refused"}
    BY DEF Outcomes
  <2> QED BY <1>1, <2>1, <2>2
<1>4. ASSUME NEW g \in Files, NEW kind, DevLog(g, kind) PROVE FALSE
  BY <1>0, <1>4 DEF DevLog
<1>5. ASSUME NEW g \in Files, PasidRemove(g) PROVE FALSE
  BY <1>0, <1>5 DEF PasidRemove
<1>6. \/ UNCHANGED <<rec, sub>> \/ EvlEntry \/ FaultWork
      \/ \E g \in Files : PasidRemove(g) \/ \E kind \in {"xlat", "bxlat", "batch"} : DevLog(g, kind)
  BY DEF Next, OpenFails, OpenNoId, OpenAddFails, OpenSucceeds, Close, Unregister, CloseDangling,
       MarkEvl, DrainWorkqueue, SvaUnbind, PutWq, Interrupt, MiscThread, EvlClear,
       EvlTail, EvlDone, UserDrvRemove, UserDrvProbe, vars, workVars
<1> QED BY <1>2, <1>3, <1>4, <1>5, <1>6

LEMMA RefusedStep ==
  ASSUME TypeOK, EvlInv, CtxInv, RecordInv, RefusedInv, [Next]_vars
  PROVE  RefusedInv'
<1>0. file \in [Files -> Stages] /\ draining \subseteq Files
  BY DEF TypeOK
<1>1. \A g \in Files : HasDrained(g) => HasDrained(g)'
  BY <1>0, FileMoves DEF HasDrained
<1>2. \A g \in draining' : file'[g] = "marked"
  BY <1>0, FileMoves DEF RefusedInv
<1>3. ASSUME NEW f \in Files, file'[f] = "open", "refused" \in {rec'[f], sub'[f]}
      PROVE  \E g \in Files \ {f} : HasDrained(g)'
  <2>1. CASE "refused" \in {rec[f], sub[f]}
    <3>1. file[f] # "new"
      BY <2>1 DEF RecordInv
    <3>2. file[f] = "open"
      BY <1>0, <1>3, <3>1, FileMoves
    <3> QED BY <1>1, <2>1, <3>2 DEF RefusedInv, OpenFiles
  <2>2. CASE "refused" \notin {rec[f], sub[f]}
    <3>1. PICK g \in draining : EvlEntry
      BY <1>3, <2>2, RefusedWhileDraining
    <3>2. g \in Files /\ file[g] = "marked"
      BY <1>0, <3>1 DEF RefusedInv
    <3>3. file' = file
      BY <3>1 DEF EvlEntry, fileVars
    <3> QED BY <1>1, <1>3, <3>2, <3>3 DEF HasDrained
  <2> QED BY <2>1, <2>2
<1> QED BY <1>2, <1>3 DEF RefusedInv, OpenFiles

-----------------------------------------------------------------------------
(* Types.                                                                  *)

\* The workqueue holds two works of a process at most, as its entries differ.
WorksFew == Len(works) <= 2 * NumFiles

LEMMA WorksAreFew == EvlInv /\ RecordInv => WorksFew
<1> SUFFICES ASSUME EvlInv, RecordInv, ~(Len(works) <= 2 * NumFiles) PROVE FALSE
  BY DEF WorksFew
<1>1. /\ Len(works) \in Nat /\ DOMAIN works = 1 .. Len(works) /\ NumFiles \in Nat
      /\ \A k \in DOMAIN works : works[k].file \in 1 .. NumFiles /\ works[k].kind \in Kinds
  <2>1. works \in Seq(Entry)
    BY DEF EvlInv
  <2>2. \A k \in DOMAIN works : works[k] \in Entry
    BY <2>1
  <2>3. Len(works) \in Nat /\ DOMAIN works = 1 .. Len(works) /\ NumFiles \in Nat
    BY <2>1, Sizes
  <2> QED BY <2>2, <2>3 DEF Entry, Files
<1> DEFINE S == 1 .. Len(works)
           T == 1 .. 2 * NumFiles
           place == [k \in S |-> IF works[k].kind = "bxlat" THEN works[k].file + NumFiles ELSE works[k].file]
<1>2. place \in [S -> T]
  BY <1>1
<1>3. IsFiniteSet(S) /\ IsFiniteSet(T) /\ Cardinality(T) = 2 * NumFiles /\ Cardinality(S) = Len(works)
  <2>1. ASSUME NEW n \in Nat PROVE IsFiniteSet(1 .. n) /\ Cardinality(1 .. n) = n
    <3>1. 1 \in Int /\ n \in Int
      OBVIOUS
    <3>2. IsFiniteSet(1 .. n) /\ Cardinality(1 .. n) = IF 1 > n THEN 0 ELSE n - 1 + 1
      BY <3>1, FS_Interval
    <3> QED BY <3>2
  <2>2. 2 * NumFiles \in Nat /\ Len(works) \in Nat
    BY <1>1
  <2> QED BY <2>1, <2>2
<1>4. Cardinality(T) < Cardinality(S)
  BY <1>1, <1>3
<1>5. \A k \in S : place[k] = IF works[k].kind = "bxlat" THEN works[k].file + NumFiles ELSE works[k].file
  OBVIOUS
<1>6. PICK k, l \in S : k # l /\ place[k] = place[l]
  <2> HIDE DEF S, T, place
  <2> QED BY <1>2, <1>3, <1>4, FS_PigeonHole
<1> HIDE DEF place
<1>7. works[k].file = works[l].file /\ (works[k].kind = "bxlat" <=> works[l].kind = "bxlat")
  BY <1>1, <1>5, <1>6
<1>8. EntrySound(works[k]) /\ EntrySound(works[l])
  BY <1>1 DEF RecordInv, WorksSound
<1>9. works[k].kind = works[l].kind
  <2>1. (works[k].kind = "xlat" <=> works[k].file \notin Batchers) /\ (works[l].kind = "xlat" <=> works[l].file \notin Batchers)
    BY <1>8 DEF EntrySound
  <2>2. works[k].kind \in Kinds /\ works[l].kind \in Kinds
    BY <1>1
  <2> QED BY <1>7, <2>1, <2>2 DEF Kinds
<1>10. SameEntry(works[k], works[l])
  BY <1>7, <1>9 DEF SameEntry
<1> QED BY <1>1, <1>6, <1>10 DEF RecordInv, EntriesDistinct

\* The count stays between what closes and what opens can make of it.
ClientsFew == clients \in Int => clients \in -NumFiles .. NumFiles

LEMMA ClientsAreFew == CountInv => ClientsFew
  BY SetsFinite, Sizes DEF CountInv, ClientsFew

\* What the clauses of the type invariant say of files and of contexts.
FileTypes ==
  /\ ids \subseteq 1 .. NumFiles + 1 /\ clients \in Int
  /\ hwPasid \in Pasids \cup {None} /\ file \in [Files -> Stages]
  /\ fid \in [Files -> 0 .. NumFiles + 1] /\ pasid \in [Files -> Pasids \cup {None}]
  /\ warned \subseteq Files /\ xa \in [Pasids -> Files \cup {None}]
  /\ own \in [Pasids -> Files \cup {None}]

EvlTypes ==
  /\ {hwTail, hwHead, swHead, irq.h, irq.t} \cup bmap \subseteq Slots
  /\ rec \in [Files -> Outcomes] /\ sub \in [Files -> Outcomes]
  /\ draining \subseteq Files /\ wrong \subseteq Stages

FlagTypes ==
  /\ ded \in BOOLEAN /\ bound \in BOOLEAN /\ busy \in BOOLEAN /\ stuck \in Files \cup {None} /\ oops \in BOOLEAN
  /\ binds \in 1 .. MaxBinds /\ proc \in [Files -> Files]

\* The flags, the bindings and the processes.
LEMMA FlagStep ==
  ASSUME FlagTypes, [Next]_vars
  PROVE  FlagTypes'
<1>1. UNCHANGED <<ded, proc>>
  BY DEF Next, OpenFails, OpenNoId, OpenAddFails, OpenSucceeds, Close, Unregister, CloseDangling,
         MarkEvl, DrainWorkqueue, SvaUnbind, PasidRemove, PutWq, DevLog, Interrupt, MiscThread, EvlClear,
         EvlTail, EvlEntry, EvlDone, FaultWork, UserDrvRemove, UserDrvProbe, vars, constVars
<1>2. \/ UNCHANGED <<bound, binds, busy>> \/ UserDrvRemove \/ UserDrvProbe
  BY ZenonT(60) DEF Next, OpenFails, OpenNoId, OpenAddFails, OpenSucceeds, Close, Unregister, CloseDangling,
         MarkEvl, DrainWorkqueue, SvaUnbind, PasidRemove, PutWq, DevLog, Interrupt, MiscThread, EvlClear,
         EvlTail, EvlEntry, EvlDone, FaultWork, vars, bindVars
<1>3. bound' \in BOOLEAN /\ busy' \in BOOLEAN /\ binds' \in 1 .. MaxBinds
  <2>1. bound' \in BOOLEAN /\ busy' \in BOOLEAN
    BY <1>2, Zenon DEF FlagTypes, UserDrvRemove, UserDrvProbe
  <2>2. binds' = binds \/ (binds < MaxBinds /\ binds' = binds + 1)
    BY <1>2 DEF UserDrvRemove, UserDrvProbe
  <2> QED BY <2>1, <2>2, Sizes DEF FlagTypes
<1>4. stuck' = stuck \/ stuck' \in Files
  BY DEF Next, OpenFails, OpenNoId, OpenAddFails, OpenSucceeds, Close, Unregister, CloseDangling,
         MarkEvl, DrainWorkqueue, SvaUnbind, PasidRemove, PutWq, DevLog, Interrupt, MiscThread, EvlClear,
         EvlTail, EvlEntry, EvlDone, FaultWork, UserDrvRemove, UserDrvProbe, vars, fileVars
<1>5. oops' = oops \/ oops' = TRUE \/ oops' = ~bound
  BY DEF Next, OpenFails, OpenNoId, OpenAddFails, OpenSucceeds, Close, Unregister, CloseDangling,
         MarkEvl, DrainWorkqueue, SvaUnbind, PasidRemove, PutWq, DevLog, Interrupt, MiscThread, EvlClear,
         EvlTail, EvlEntry, EvlDone, FaultWork, UserDrvRemove, UserDrvProbe, vars
<1>6. stuck' \in Files \cup {None} /\ oops' \in BOOLEAN
  BY <1>4, <1>5, Zenon DEF FlagTypes
<1> QED BY <1>1, <1>3, <1>6, Zenon DEF FlagTypes

\* Files and contexts.
LEMMA FileStep ==
  ASSUME TypeOK, CountInv, FileTypes, [Next]_vars
  PROVE  FileTypes'
<1>0. proc \in [Files -> Files]
  BY DEF TypeOK
<1>1. ASSUME UNCHANGED <<fileVars, xa, own>> PROVE FileTypes'
  BY <1>1 DEF FileTypes, fileVars
<1>2. ASSUME NEW f \in Files,
             OpenFails(f) \/ OpenNoId(f) \/ CloseDangling(f) \/ Unregister(f)
             \/ MarkEvl(f) \/ DrainWorkqueue(f) \/ PutWq(f)
      PROVE  FileTypes'
  <2>1. PICK to \in Stages : file' = [file EXCEPT ![f] = to]
    BY <1>2 DEF OpenFails, OpenNoId, Unregister, CloseDangling, MarkEvl, DrainWorkqueue,
                PutWq, Stage, Stages, Live
  <2>2. hwPasid' \in Pasids \cup {None}
    BY <1>2 DEF OpenFails, OpenNoId, Unregister, CloseDangling, MarkEvl, DrainWorkqueue,
                PutWq, PasidsFor, FileTypes
  <2>3. /\ UNCHANGED <<fid, pasid, warned, xa, own>>
        /\ ids' \subseteq ids /\ (clients' = clients \/ clients' = clients - 1)
    BY <1>2 DEF OpenFails, OpenNoId, Unregister, CloseDangling, MarkEvl, DrainWorkqueue, PutWq
  <2> QED BY <2>1, <2>2, <2>3 DEF FileTypes
<1>3. ASSUME NEW f \in Files, OpenSucceeds(f) \/ OpenAddFails(f) PROVE FileTypes'
  <2>1. PICK p \in PasidsFor(f) :
          /\ own' = [own EXCEPT ![p] = proc[f]]
          /\ pasid' = [pasid EXCEPT ![f] = p]
          /\ xa' = IF xa[p] = None THEN [xa EXCEPT ![p] = f] ELSE xa
          /\ warned' = IF xa[p] = None THEN warned ELSE warned \cup {f}
          /\ hwPasid' \in {p, None, hwPasid}
    BY <1>3 DEF OpenSucceeds, OpenAddFails, GetsContext
  <2>2. p \in Pasids
    BY DEF PasidsFor
  <2>3. PICK id \in 1 .. NumFiles + 1, to \in {"open", "drained"} :
          /\ fid' = [fid EXCEPT ![f] = id] \/ fid' = fid
          /\ ids' = ids \cup {id} \/ ids' = ids
          /\ file' = [file EXCEPT ![f] = to] /\ clients' \in {clients, clients + 1}
    BY <1>3, FreeId DEF OpenSucceeds, OpenAddFails
  <2>4. id \in 0 .. NumFiles + 1 /\ to \in Stages
    BY Sizes DEF Stages, Live
  <2>5. own' \in [Pasids -> Files \cup {None}] /\ pasid' \in [Files -> Pasids \cup {None}]
    BY <1>0, <2>1, <2>2 DEF FileTypes
  <2>6. xa' \in [Pasids -> Files \cup {None}] /\ warned' \subseteq Files /\ hwPasid' \in Pasids \cup {None}
    BY <2>1, <2>2 DEF FileTypes
  <2>7. fid' \in [Files -> 0 .. NumFiles + 1] /\ file' \in [Files -> Stages]
    BY <2>3, <2>4 DEF FileTypes
  <2>8. ids' \subseteq 1 .. NumFiles + 1 /\ clients' \in Int
    <3>1. ids \subseteq 1 .. NumFiles + 1 /\ clients \in Int
      BY DEF FileTypes
    <3>2. clients' \in Int
      BY <2>3, <3>1
    <3> QED BY <2>3, <3>1, <3>2
  <2> QED BY <2>5, <2>6, <2>7, <2>8, Zenon DEF FileTypes
<1>4. ASSUME NEW f \in Files, SvaUnbind(f) PROVE FileTypes'
  <2>1. /\ file' = [file EXCEPT ![f] = "unbound"] /\ Disown(f)
        /\ UNCHANGED <<fid, pasid, warned, ids, clients, hwPasid, xa>>
    BY <1>4 DEF SvaUnbind, Stage
  <2>2. own' = own \/ own' = [p \in Pasids |-> IF own[p] = proc[f] THEN None ELSE own[p]]
    BY <2>1 DEF Disown
  <2>3. "unbound" \in Stages
    BY DEF Stages, Live
  <2> QED BY <2>1, <2>2, <2>3 DEF FileTypes
<1>5. ASSUME NEW f \in Files, PasidRemove(f) PROVE FileTypes'
  <2>1. /\ file' = [file EXCEPT ![f] = "removed"] /\ xa' = XaRemoved(f)
        /\ fid' = [fid EXCEPT ![f] = None] /\ pasid' = [pasid EXCEPT ![f] = None]
        /\ warned' = warned \ {f} /\ UNCHANGED <<ids, clients, hwPasid, own>>
    BY <1>5 DEF PasidRemove, Stage
  <2>2. "removed" \in Stages /\ None \in 0 .. NumFiles + 1
    BY Sizes DEF Stages, None
  <2> QED BY <2>1, <2>2 DEF FileTypes, XaRemoved
<1>6. ASSUME UserDrvRemove PROVE FileTypes'
  BY <1>6 DEF UserDrvRemove, FileTypes
<1>7. ASSUME NEW f \in Files, NEW kind, DevLog(f, kind) PROVE UNCHANGED <<fileVars, xa, own>>
  BY <1>7 DEF DevLog
<1>8. Interrupt \/ FaultWork \/ UserDrvProbe \/ UNCHANGED vars => UNCHANGED <<fileVars, xa, own>>
  BY DEF Interrupt, MiscThread, EvlClear, EvlTail, EvlEntry, EvlDone, FaultWork, UserDrvProbe, vars
<1> QED BY <1>1, <1>2, <1>3, <1>4, <1>5, <1>6, <1>7, <1>8 DEF Next, Close

\* The log and the records.
LEMMA LogStep ==
  ASSUME TypeOK, EvlInv, CtxInv, RecordInv, RecordInv', EvlInv', [Next]_vars
  PROVE  EvlTypes'
<1>1. wrong' \subseteq Stages
  BY DEF RecordInv, MisdirectedOnlyInWindow, Stages, Live
<1>2. irq'.h \in Slots /\ irq'.t \in Slots /\ (\A i \in bmap' : i \in bmap \/ i \in Slots)
  <2>1. irq'.h \in Slots /\ irq'.t \in Slots
    BY DEF EvlInv
  <2>2. bmap' \subseteq bmap \/ \E f \in Files : MarkEvl(f)
    BY ZenonT(40)
    DEF Next, OpenFails, OpenNoId, OpenAddFails, OpenSucceeds, Close, Unregister, CloseDangling,
         DrainWorkqueue, SvaUnbind, PasidRemove, PutWq, DevLog, Interrupt, MiscThread, EvlClear,
         EvlTail, EvlEntry, EvlDone, FaultWork, UserDrvRemove, UserDrvProbe, vars, evlVars
  <2> QED BY <2>1, <2>2 DEF MarkEvl, Unread
<1>3. hwTail \in Slots /\ hwHead \in Slots /\ swHead \in Slots /\ irq.h \in Slots /\ bmap \subseteq Slots
  BY RingTypes
<1>4. hwTail' \in Slots /\ hwHead' \in Slots /\ swHead' \in Slots
  <2>1. /\ hwTail' = hwTail \/ hwTail' = (hwTail + 1) % EvlSize
        /\ (hwHead' = hwHead /\ swHead' = swHead) \/ (hwHead' = irq.h /\ swHead' = irq.h)
    BY ZenonT(40)
    DEF Next, OpenFails, OpenNoId, OpenAddFails, OpenSucceeds, Close, Unregister, CloseDangling,
         MarkEvl, DrainWorkqueue, SvaUnbind, PasidRemove, PutWq, DevLog, Interrupt, MiscThread, EvlClear,
         EvlTail, EvlEntry, EvlDone, FaultWork, UserDrvRemove, UserDrvProbe, vars, evlVars
  <2>2. (hwTail + 1) % EvlSize \in Slots
    BY <1>3, Ring
  <2> QED BY <1>3, <2>1, <2>2
<1>5. draining' \subseteq Files
  <2>1. draining' \subseteq draining \/ \E f \in Files : MarkEvl(f)
    BY DEF Next, OpenFails, OpenNoId, OpenAddFails, OpenSucceeds, Close, Unregister, CloseDangling,
         DrainWorkqueue, SvaUnbind, PasidRemove, PutWq, DevLog, Interrupt, MiscThread, EvlClear,
         EvlTail, EvlEntry, EvlDone, FaultWork, UserDrvRemove, UserDrvProbe, vars
  <2> QED BY <2>1 DEF MarkEvl, TypeOK
<1>6. rec' \in [Files -> Outcomes] /\ sub' \in [Files -> Outcomes]
  <2>0. rec \in [Files -> Outcomes] /\ sub \in [Files -> Outcomes]
    BY DEF TypeOK
  <2>1. ASSUME NEW e, e.file \in Files, NEW why \in Outcomes, Outcome(e, why)
        PROVE  rec' \in [Files -> Outcomes] /\ sub' \in [Files -> Outcomes]
    BY <2>0, <2>1 DEF Outcome
  <2>2. CASE EvlEntry
    <3>1. PICK e \in Entry \cup {NoEntry} :
             \/ e \in Entry /\ Outcome(e, "marked")
             \/ UNCHANGED <<rec, sub>>
             \/ e \in Entry /\ (Outcome(e, "dropped") \/ Outcome(e, "refused"))
      BY <2>2, PassFacts
    <3>2. e \in Entry => e.file \in Files
      BY DEF Entry
    <3>3. "marked" \in Outcomes /\ "dropped" \in Outcomes /\ "refused" \in Outcomes
      BY DEF Outcomes
    <3> QED BY <2>0, <2>1, <3>1, <3>2, <3>3
  <2>3. CASE FaultWork
    <3>1. PICK e \in Entry, why \in {"ok", "fail", "efault", "noctx", "unasked"} : Outcome(e, why) /\ e.file \in Files
      BY <2>3, WorkFacts
    <3>2. why \in Outcomes
      BY DEF Outcomes
    <3> QED BY <2>1, <3>1, <3>2
  <2>4. ASSUME NEW f \in Files, NEW kind, DevLog(f, kind)
        PROVE  rec' \in [Files -> Outcomes] /\ sub' \in [Files -> Outcomes]
    BY <2>0, <2>4 DEF DevLog, Outcomes
  <2>5. ASSUME NEW f \in Files, PasidRemove(f)
        PROVE  rec' \in [Files -> Outcomes] /\ sub' \in [Files -> Outcomes]
    BY <2>0, <2>5 DEF PasidRemove, Outcomes
  <2>6. \/ UNCHANGED <<rec, sub>> \/ EvlEntry \/ FaultWork
        \/ \E f \in Files : PasidRemove(f) \/ \E kind \in {"xlat", "bxlat", "batch"} : DevLog(f, kind)
    BY DEF Next, OpenFails, OpenNoId, OpenAddFails, OpenSucceeds, Close, Unregister, CloseDangling,
         MarkEvl, DrainWorkqueue, SvaUnbind, PutWq, Interrupt, MiscThread, EvlClear,
         EvlTail, EvlDone, UserDrvRemove, UserDrvProbe, vars, workVars
  <2> QED BY <2>0, <2>2, <2>3, <2>4, <2>5, <2>6
<1> QED BY <1>1, <1>2, <1>3, <1>4, <1>5, <1>6 DEF EvlTypes

LEMMA TypeStep ==
  ASSUME CdevInv, [Next]_vars, EvlInv', CountInv', RecordInv'
  PROVE  TypeOK'
<1>1. TypeOK /\ EvlInv /\ CtxInv /\ CountInv /\ RecordInv
  BY DEF CdevInv
<1>2. FlagTypes /\ FileTypes
  BY <1>1 DEF TypeOK, FlagTypes, FileTypes
<1>3. FlagTypes'
  BY <1>2, FlagStep
<1>4. FileTypes'
  BY <1>1, <1>2, FileStep
<1>5. EvlTypes'
  BY <1>1, LogStep
<1>6. WorksFew' /\ ClientsFew'
  BY WorksAreFew, ClientsAreFew, PTL
<1> QED BY <1>3, <1>4, <1>5, <1>6 DEF TypeOK, FlagTypes, FileTypes, EvlTypes, WorksFew, ClientsFew

-----------------------------------------------------------------------------
(* The invariant holds, and what follows from it.                          *)

LEMMA CdevInit == Init => CdevInv
<1> SUFFICES ASSUME Init PROVE CdevInv
  OBVIOUS
<1>0. /\ NumFiles \in Nat \ {0} /\ NumPasids \in Nat \ {0}
      /\ EvlSize \in Nat \ {0} /\ MaxBinds \in Nat \ {0} /\ 0 \in Slots
  BY Sizes DEF Slots
<1>1. /\ file = [f \in Files |-> "new"] /\ fid = [f \in Files |-> None]
      /\ pasid = [f \in Files |-> None] /\ warned = {}
      /\ xa = [p \in Pasids |-> None] /\ own = [p \in Pasids |-> None]
      /\ log = [i \in Slots |-> NoEntry] /\ bmap = {} /\ hwTail = 0 /\ hwHead = 0 /\ swHead = 0
      /\ irq = [at |-> "idle", h |-> 0, t |-> 0] /\ works = <<>> /\ draining = {}
      /\ rec = [f \in Files |-> "none"] /\ sub = [f \in Files |-> "none"] /\ wrong = {}
      /\ ids = {} /\ clients = 0 /\ hwPasid = None /\ binds = 1 /\ proc \in [Files -> Files]
  BY DEF Init, Idle
<1>2. FlagTypes
  <2>1. ded \in BOOLEAN /\ bound \in BOOLEAN /\ busy \in BOOLEAN /\ stuck \in Files \cup {None} /\ oops \in BOOLEAN
    BY Zenon DEF Init
  <2>2. binds \in 1 .. MaxBinds /\ proc \in [Files -> Files]
    BY <1>0, <1>1
  <2> QED BY <2>1, <2>2, Zenon DEF FlagTypes
<1>3. TypeOK
  <2>1. /\ ids \subseteq 1 .. NumFiles + 1 /\ clients \in -NumFiles .. NumFiles /\ hwPasid \in Pasids \cup {None}
        /\ fid \in [Files -> 0 .. NumFiles + 1] /\ pasid \in [Files -> Pasids \cup {None}]
        /\ warned \subseteq Files /\ xa \in [Pasids -> Files \cup {None}] /\ own \in [Pasids -> Files \cup {None}]
    BY <1>0, <1>1 DEF None
  <2>2. file \in [Files -> Stages] /\ rec \in [Files -> Outcomes] /\ sub \in [Files -> Outcomes]
    BY <1>1 DEF Stages, Outcomes
  <2>3. /\ {hwTail, hwHead, swHead, irq.h, irq.t} \cup bmap \subseteq Slots
        /\ draining \subseteq Files /\ wrong \subseteq Stages /\ Len(works) <= 2 * NumFiles
    BY <1>0, <1>1
  <2> QED BY <1>2, <2>1, <2>2, <2>3, Zenon DEF TypeOK, FlagTypes
<1>4. \A i \in Slots : ~Used(i)
  BY <1>1 DEF Used, NoEntry
<1>5. EvlInv
  <2>1. /\ log \in [Slots -> Entry \cup {NoEntry}] /\ works \in Seq(Entry)
        /\ irq \in [at : {"idle", "evl", "cleared", "locked"}, h : Slots, t : Slots]
        /\ irq.at # "locked" /\ ~intPending
    BY <1>0, <1>1 DEF Init
  <2> QED BY <1>1, <1>4, <2>1 DEF EvlInv, EvlServiced
<1>6. CtxInv
  BY <1>1 DEF CtxInv, CtxLive, Live, SvaBound
<1>7. Users = {} /\ Gone = {} /\ OpenFiles = {}
  BY <1>1 DEF Users, Gone, OpenFiles, Live
<1>8. CountInv
  <2>1. Cardinality(Users) = 0 /\ Cardinality(Gone) = 0
    BY <1>7, FS_EmptySet
  <2>2. ClientsCount
    BY <1>1, <1>7, <2>1 DEF ClientsCount, Users
  <2>3. OopsExplained /\ stuck = None
    BY DEF OopsExplained, Init
  <2> QED BY <1>1, <1>7, <2>1, <2>2, <2>3 DEF CountInv
<1>9. DOMAIN works = {}
  BY <1>1
<1>10. RecordInv
  <2>1. LogSound /\ WorksSound /\ EntriesDistinct
    BY <1>4, <1>9 DEF LogSound, WorksSound, EntriesDistinct
  <2> QED BY <1>1, <1>7, <2>1 DEF RecordInv, MisdirectedOnlyInWindow
<1>11. DOMAIN Coming = {}
  <2>1. Left = Dist(hwTail, Cursor) /\ Len(works) = 0 /\ Cursor = 0 /\ DOMAIN Coming = 1 .. Size
    BY <1>1, <1>3, <1>5, ComingFacts DEF Cursor
  <2>2. Size = 0
    BY <1>0, <1>1, <2>1 DEF Size, Dist
  <2> QED BY <2>1, <2>2
<1>12. BatchInv
  <2>1. \A f \in Files : ~InBatch(f) /\ sub[f] = "none" /\ rec[f] \notin {"ok", "unasked"}
    BY <1>1 DEF InBatch
  <2> QED BY <1>11, <2>1 DEF BatchInv, BatchTold
<1>13. RefusedInv
  BY <1>1, <1>7 DEF RefusedInv
<1> QED BY <1>3, <1>5, <1>6, <1>8, <1>10, <1>12, <1>13 DEF CdevInv

\* The character device of a user queue and the event log keep their inductive
\* invariant (cdev.c, and process_evl_entries in irq.c), for any number of files,
\* PASIDs, log entries and bindings, and whichever files submit batches.
THEOREM CdevInvHolds == Spec => []CdevInv
<1>1. CdevInv /\ [Next]_vars => CdevInv'
  <2> SUFFICES ASSUME CdevInv, [Next]_vars PROVE CdevInv'
    OBVIOUS
  <2>0. TypeOK /\ EvlInv /\ CtxInv /\ CountInv /\ RecordInv /\ RefusedInv /\ BatchInv
    BY DEF CdevInv
  <2>1. EvlInv'
    BY <2>0, EvlStep
  <2>2. CtxInv'
    BY <2>0, CtxStep
  <2>3. CountInv'
    BY <2>0, CountStep
  <2>4. RecordInv'
    BY <2>0, RecordStep
  <2>5. TypeOK'
    BY <2>1, <2>3, <2>4, TypeStep
  <2>6. BatchInv'
    BY <2>0, <2>1, <2>4, <2>5, BatchStep
  <2>7. RefusedInv'
    BY <2>0, RefusedStep
  <2> QED BY <2>1, <2>2, <2>3, <2>4, <2>5, <2>6, <2>7 DEF CdevInv
<1> QED BY CdevInit, <1>1, PTL DEF Spec

\* No entry of the event log waits with nobody to come for it: clearing
\* int_pending before the tail is read (process_evl_entries) leaves no window.
THEOREM EvlServicedHolds == Spec => []EvlServiced
<1>1. CdevInv => EvlServiced
  BY DEF CdevInv, EvlInv
<1> QED BY <1>1, CdevInvHolds, PTL

\* The records of faulted descriptors (idxd_evl_fault_work,
\* idxd_cdev_evl_drain_pasid): an open process with a PASID of its own has none
\* marked, and loses one to another's close only after that close has come to
\* drain_workqueue, whose workqueue refuses works; one goes astray only while a
\* closing file is still in the xarray without its SVA binding; and a batch
\* never passes for a success over a failed copy.
THEOREM RecordsRightHolds == Spec => []RecordsRight
<1>1. CdevInv => RecordsRight
  BY DEF CdevInv, RecordInv, RefusedInv, BatchInv, RecordsRight, RecordsReach, OpenFiles
<1> QED BY <1>1, CdevInvHolds, PTL

\* Files, contexts and clients (idxd_cdev_open, idxd_file_dev_release): the
\* xarray leads to live contexts only, also around an open whose file device
\* could not be registered, at any time; client_count counts while no queue is
\* unbound under a client; and only that, or an open without an id, crashes.
THEOREM ContextsSoundHolds == Spec => []ContextsSound
<1>1. CdevInv => ContextsSound
  BY DEF CdevInv, CtxInv, CountInv, ContextsSound
<1> QED BY <1>1, CdevInvHolds, PTL

-----------------------------------------------------------------------------
(* The command interface.                                                  *)

\* The inductive invariant.
CmdInv == CmdTypeOK /\ SlotInv

LEMMA CmdInitInv == CmdInit => CmdInv
<1> SUFFICES ASSUME CmdInit PROVE CmdInv
  OBVIOUS
<1> USE DEF CmdInit
<1>1. running \in BOOLEAN
  BY Zenon
<1>2. CmdTypeOK
  BY <1>1 DEF CmdTypeOK, NoCmd, HwErr, Results
<1>3. SlotInv
  BY CmdParameters DEF SlotInv, InSlot, WakeFindsSleeper, NoCmd, CmdIdle
<1> QED BY <1>2, <1>3 DEF CmdInv

LEMMA CmdStutterType == CmdTypeOK /\ UNCHANGED cmdVars => CmdTypeOK'
  BY DEF CmdTypeOK, cmdVars, callVars, slotVars, regVars, hwVars

\* The steps of a thread leave the device's own state alone.
LEMMA CallerType ==
  ASSUME CmdTypeOK, NEW t \in Threads,
         (\E c \in Commands : Call(t, c)) \/ Return(t) \/ CmdStep(t)
  PROVE  CmdTypeOK'
<1> USE DEF CmdTypeOK, callVars, slotVars, regVars, hwVars, CmdGoto
<1>1. CASE \E c \in Commands : Call(t, c)
  BY <1>1 DEF Call
<1>2. CASE Return(t)
  BY <1>2 DEF Return, HwErr, Results
<1>3. CASE CmdCheck(t)
  BY <1>3 DEF CmdCheck, HwErr, Results
<1>4. CASE CmdSend(t)
  BY <1>4 DEF CmdSend, WriteCmd, NoCmd, Commands, DevOps
<1>5. CASE CmdWake(t)
  BY <1>5 DEF CmdWake, ReadStatus, Results, NoCmd
<1>6. CASE CmdClear(t)
  BY <1>6 DEF CmdClear
<1>7. CASE ReleaseSend(t)
  BY <1>7 DEF ReleaseSend, WriteCmd, NoCmd, Commands, DevOps
<1>8. CASE ReleasePoll(t)
  BY <1>8 DEF ReleasePoll, ReadStatus, Results, NoCmd
<1> QED BY <1>1, <1>2, <1>3, <1>4, <1>5, <1>6, <1>7, <1>8 DEF CmdStep

LEMMA DeviceSideType ==
  ASSUME CmdTypeOK, MiscRead \/ MiscCmd \/ MiscHalt \/ DevFinish \/ DevHalt,
         SlotInv
  PROVE  CmdTypeOK'
<1> USE DEF CmdTypeOK, callVars, slotVars, regVars, hwVars
<1>1. CASE MiscRead
  BY <1>1 DEF MiscRead
<1>2. CASE MiscCmd
  BY <1>2 DEF MiscCmd, SlotInv, WakeFindsSleeper, InSlot
<1>3. CASE MiscHalt
  BY <1>3 DEF MiscHalt
<1>4. CASE DevFinish
  BY <1>4 DEF DevFinish, Apply, Results, NoCmd, Commands, WqOps, DevOps, CmdIdle
<1>5. CASE DevHalt
  BY <1>5 DEF DevHalt
<1> QED BY <1>1, <1>2, <1>3, <1>4, <1>5

\* What a thread does keeps the slot: it is taken by one thread and given back
\* by the same one.
LEMMA CallerSlot ==
  ASSUME CmdTypeOK, SlotInv, NEW t \in Threads,
         (\E c \in Commands : Call(t, c)) \/ Return(t) \/ CmdStep(t)
  PROVE  SlotInv'
<1> USE DEF CmdTypeOK, SlotInv, InSlot, WakeFindsSleeper, CmdIdle, callVars,
            slotVars, regVars, hwVars, CmdGoto
<1>1. CASE \E c \in Commands : Call(t, c)
  BY <1>1 DEF Call
<1>2. CASE Return(t)
  BY <1>2 DEF Return
<1>3. CASE CmdCheck(t)
  <2>1. \A u \in Threads, l \in {"sleep", "clear", "poll"} :
          cpc'[u] = l <=> cpc[u] = l
    BY <1>3 DEF CmdCheck
  <2>2. UNCHANGED <<cmdLock, running, cmdDone, done, regCmd, latched, causes>>
    BY <1>3 DEF CmdCheck
  <2>3. running \/ regCmd.intr => cmdDone \in Threads
    BY DEF NoCmd
  <2>4. InSlot' = InSlot
    BY <2>1
  <2>5. WakeFindsSleeper'
    BY <2>1, <2>2, <2>3
  <2>6. (regCmd.intr => /\ regCmd.who = cmdDone /\ cpc[cmdDone] = "sleep"
                        /\ cmdDone \notin done
                        /\ "cmd" \notin latched \cup causes)'
    BY <2>1, <2>2, <2>3
  <2> QED BY <2>1, <2>2, <2>4, <2>5, <2>6
<1>4. CASE CmdSend(t)
  <2>1. CmdIdle
    BY <1>4, CmdParameters DEF CmdSend
  <2>2. InSlot = {} /\ "cmd" \notin latched \cup causes
    BY <1>4 DEF CmdSend
  <2>3. InSlot' = {t}
    BY <1>4, <2>2 DEF CmdSend
  <2> QED BY <1>4, <2>1, <2>2, <2>3, CmdParameters DEF CmdSend, WriteCmd, NoCmd
<1>5. CASE CmdWake(t)
  BY <1>5 DEF CmdWake
<1>6. CASE CmdClear(t)
  BY <1>6 DEF CmdClear
<1>7. CASE ReleaseSend(t)
  <2>1. \A u \in Threads : /\ cpc'[u] = "poll" <=> u = t
                          /\ \A l \in {"sleep", "clear"} :
                                cpc'[u] = l <=> cpc[u] = l
    BY <1>7, CmdParameters DEF ReleaseSend
  <2>2. /\ UNCHANGED <<running, cmdDone, done, latched, causes>>
        /\ cmdLock' = t
    BY <1>7 DEF ReleaseSend
  <2>3. \/ CmdIdle /\ ~CmdIdle' /\ regCmd'.who = t /\ regCmd'.intr = FALSE
        \/ regCmd.intr /\ regCmd' = regCmd
    BY <1>7, CmdParameters DEF ReleaseSend, WriteCmd, NoCmd
  <2>4. running \/ regCmd.intr => cmdDone \in Threads
    BY DEF NoCmd
  <2>5. InSlot' = InSlot
    BY <2>1
  <2>6. WakeFindsSleeper'
    BY <2>1, <2>2, <2>4
  <2>7. (regCmd.intr => /\ regCmd.who = cmdDone /\ cpc[cmdDone] = "sleep"
                        /\ cmdDone \notin done
                        /\ "cmd" \notin latched \cup causes)'
    BY <2>1, <2>2, <2>3, <2>4
  <2> QED BY <2>1, <2>2, <2>3, <2>5, <2>6, <2>7
<1>8. CASE ReleasePoll(t)
  <2>1. \A u \in Threads : /\ cpc'[u] # "poll"
                          /\ \A l \in {"sleep", "clear"} :
                                cpc'[u] = l <=> cpc[u] = l
    BY <1>8, CmdParameters DEF ReleasePoll
  <2>2. UNCHANGED <<running, cmdDone, done, latched, causes, regCmd>>
    BY <1>8 DEF ReleasePoll
  <2>3. cmdLock' = NoThread /\ CmdIdle
    BY <1>8 DEF ReleasePoll
  <2> QED BY <2>1, <2>2, <2>3, CmdParameters DEF NoCmd
<1> QED BY <1>1, <1>2, <1>3, <1>4, <1>5, <1>6, <1>7, <1>8 DEF CmdStep

LEMMA DeviceSideSlot ==
  ASSUME CmdTypeOK, SlotInv,
         MiscRead \/ MiscCmd \/ MiscHalt \/ DevFinish \/ DevHalt
  PROVE  SlotInv'
<1> USE DEF CmdTypeOK, SlotInv, InSlot, WakeFindsSleeper, CmdIdle, callVars,
            slotVars, regVars, hwVars
<1>1. CASE MiscRead
  BY <1>1 DEF MiscRead
<1>2. CASE MiscCmd
  BY <1>2 DEF MiscCmd
<1>3. CASE MiscHalt
  BY <1>3 DEF MiscHalt
<1>4. CASE DevFinish
  BY <1>4 DEF DevFinish, NoCmd
<1>5. CASE DevHalt
  BY <1>5 DEF DevHalt
<1> QED BY <1>1, <1>2, <1>3, <1>4, <1>5

LEMMA CmdStutterSlot == SlotInv /\ UNCHANGED cmdVars => SlotInv'
  BY DEF SlotInv, InSlot, WakeFindsSleeper, CmdIdle, cmdVars, callVars, slotVars,
         regVars, hwVars

LEMMA CmdInductive == CmdInv /\ [CmdNext]_cmdVars => CmdInv'
<1> SUFFICES ASSUME CmdInv, [CmdNext]_cmdVars PROVE CmdInv'
  OBVIOUS
<1> USE DEF CmdInv
<1>1. ASSUME NEW t \in Threads,
             (\E c \in Commands : Call(t, c)) \/ Return(t) \/ CmdStep(t)
      PROVE  CmdInv'
  BY <1>1, CallerType, CallerSlot
<1>2. CASE MiscRead \/ MiscCmd \/ MiscHalt \/ DevFinish \/ DevHalt
  BY <1>2, DeviceSideType, DeviceSideSlot
<1>3. CASE UNCHANGED cmdVars
  BY <1>3, CmdStutterType, CmdStutterSlot
<1> QED BY <1>1, <1>2, <1>3 DEF CmdNext

\* Every reachable state of the command interface is well typed, for any number
\* of threads and work queues: the misc interrupt never completes a completion
\* that is not there (idxd_cmd_exec, idxd_misc_thread).
THEOREM CmdTypeCorrect == CmdSpec => []CmdTypeOK
  BY CmdInitInv, CmdInductive, PTL DEF CmdSpec, CmdInv

\* One command sleeps at a time, and its interrupt finds exactly its caller
\* (IDXD_FLAG_CMD_RUNNING and cmd_done in idxd_cmd_exec).
THEOREM SlotHolds == CmdSpec => []SlotInv
  BY CmdInitInv, CmdInductive, PTL DEF CmdSpec, CmdInv

\* No command that sleeps is written to a busy device, although
\* idxd_device_release_int_handle does not wait for IDXD_FLAG_CMD_RUNNING.
THEOREM CommandReceivedHolds == CmdSpec => []CommandReceived
<1>1. CmdInv => CommandReceived
  BY CmdParameters
     DEF CmdInv, CmdTypeOK, SlotInv, InSlot, CommandReceived, CmdIdle, NoCmd
<1> QED BY <1>1, CmdInitInv, CmdInductive, PTL DEF CmdSpec
=============================================================================
