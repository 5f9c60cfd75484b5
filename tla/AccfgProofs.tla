---------------------------- MODULE AccfgProofs ----------------------------
(* accel-config: its library, and the configuration of a device it writes,  *)
(* for any numbers of queues, groups, engines and read buffers and anything *)
(* the administrator writes; its test program, for any opcodes, number of   *)
(* descriptors and size of a queue.                                         *)
EXTENDS Accfg, AccelTest, FiniteSetTheorems, WellFoundedInduction, TLAPS

-----------------------------------------------------------------------------
(* Sums.                                                                    *)

\* A set of naturals that is not empty has a least element.
LEMMA LeastNat ==
  ASSUME NEW S \in SUBSET Nat, S # {}
  PROVE  \E x \in S : \A y \in S : x <= y
<1> DEFINE R == {p \in Nat \X Nat : p[1] < p[2]}
<1>1. IsWellFoundedOn(R, Nat)
  BY NatLessThanWellFounded, Zenon DEF OpToRel
<1> HIDE DEF R
<1>2. PICK x \in S : \A y \in S : ~(<<y, x>> \in R)
  BY <1>1, WFMin
<1>3. ASSUME NEW y \in S PROVE x <= y
  <2>1. x \in Nat /\ y \in Nat
    OBVIOUS
  <2>2. y < x => <<y, x>> \in R
    BY <2>1 DEF R
  <2> QED BY <1>2, <2>1, <2>2
<1> QED BY <1>3

\* What holds of 0, and of a number when it holds of the one before, holds up
\* to n: Good is the set of the numbers it holds of.
LEMMA UpTo ==
  ASSUME NEW n \in Nat, NEW Good, 0 \in Good,
         \A z \in 1 .. n : z - 1 \in Good => z \in Good
  PROVE  \A z \in 0 .. n : z \in Good
<1> DEFINE Bad == {z \in 0 .. n : z \notin Good}
<1> SUFFICES ASSUME Bad # {} PROVE FALSE
  OBVIOUS
<1>1. Bad \in SUBSET Nat
  OBVIOUS
<1>2. PICK z \in Bad : \A j \in Bad : z <= j
  BY <1>1, LeastNat
<1>3. z \in 1 .. n /\ z - 1 \in 0 .. n
  BY <1>2
<1>4. z - 1 \in Good
  BY <1>2, <1>3
<1> QED BY <1>2, <1>3, <1>4

\* The loop has a partial sum after each of its rounds.
LEMMA SumsExist ==
  ASSUME NEW n \in Nat, NEW f
  PROVE  \E s : s = [i \in 0 .. n |-> IF i = 0 THEN 0 ELSE s[i - 1] + f[i]]
<1> DEFINE Step(s, i) == IF i = 0 THEN 0 ELSE s[i - 1] + f[i]
           Good == {m \in Nat : \E s : s = [i \in 0 .. m |-> Step(s, i)]}
<1>1. 0 \in Good
  <2> DEFINE s == [i \in 0 .. 0 |-> 0]
  <2>1. s = [i \in 0 .. 0 |-> Step(s, i)]
    OBVIOUS
  <2> QED BY <2>1
<1>2. ASSUME NEW m \in 1 .. n, m - 1 \in Good PROVE m \in Good
  <2>1. PICK s : s = [i \in 0 .. m - 1 |-> Step(s, i)]
    BY <1>2
  <2> DEFINE h == [i \in 0 .. m |-> IF i = m THEN Step(s, m) ELSE s[i]]
  <2>2. ASSUME NEW i \in 0 .. m PROVE h[i] = Step(h, i)
    <3>1. i # 0 => h[i - 1] = s[i - 1]
      OBVIOUS
    <3>2. h[i] = Step(s, i)
      <4>1. CASE i = m
        BY <4>1
      <4>2. CASE i # m
        <5>1. i \in 0 .. m - 1
          BY <4>2
        <5>2. s[i] = Step(s, i)
          BY <2>1, <5>1, Zenon
        <5> HIDE DEF Step
        <5> QED BY <4>2, <5>2
      <4> QED BY <4>1, <4>2
    <3>3. Step(h, i) = Step(s, i)
      <4> HIDE DEF h
      <4> QED BY <3>1
    <3> QED BY <3>2, <3>3
  <2>3. h = [i \in 0 .. m |-> Step(h, i)]
    <3> DEFINE g == [i \in 0 .. m |-> Step(h, i)]
    <3>1. \A i \in 0 .. m : h[i] = g[i]
      <4> HIDE DEF h, Step
      <4> QED BY <2>2
    <3>2. h = [i \in 0 .. m |-> h[i]] /\ g = [i \in 0 .. m |-> g[i]]
      OBVIOUS
    <3> HIDE DEF h, g
    <3>3. h = g
      BY <3>1, <3>2
    <3> QED BY <3>3 DEF g
  <2>4. m \in Nat
    OBVIOUS
  <2> HIDE DEF h, Step
  <2> QED BY <2>3, <2>4
<1>3. n \in Good
  <2> HIDE DEF Good
  <2>1. \A z \in 0 .. n : z \in Good
    BY <1>1, <1>2, UpTo
  <2> QED BY <2>1
<1> QED BY <1>3

LEMMA SumToDef ==
  ASSUME NEW n \in Nat, NEW f \in [1 .. n -> Nat]
  PROVE  \E s \in [0 .. n -> Nat] :
            /\ s[0] = 0 /\ SumTo(f, n) = s[n]
            /\ \A i \in 1 .. n : s[i] = s[i - 1] + f[i]
<1> DEFINE Is(s) == s = [i \in 0 .. n |-> IF i = 0 THEN 0 ELSE s[i - 1] + f[i]]
           sum == CHOOSE s : Is(s)
<1>1. SumTo(f, n) = sum[n]
  BY DEF SumTo
<1>2. Is(sum)
  <2>1. \E s : Is(s)
    BY SumsExist
  <2> HIDE DEF Is
  <2> QED BY <2>1
<1>3. sum[0] = 0 /\ \A i \in 1 .. n : sum[i] = sum[i - 1] + f[i]
  <2> HIDE DEF sum
  <2>1. \A i \in 0 .. n : sum[i] = IF i = 0 THEN 0 ELSE sum[i - 1] + f[i]
    BY <1>2, Zenon
  <2>2. 0 \in 0 .. n /\ \A i \in 1 .. n : i \in 0 .. n /\ i # 0
    OBVIOUS
  <2> QED BY <2>1, <2>2, Zenon
<1> HIDE DEF sum
<1> DEFINE Good == {i \in Nat : sum[i] \in Nat}
<1>4. 0 \in Good
  BY <1>3
<1>5. ASSUME NEW i \in 1 .. n, i - 1 \in Good PROVE i \in Good
  BY <1>3, <1>5
<1>6. \A i \in 0 .. n : i \in Good
  <2> HIDE DEF Good
  <2> QED BY <1>4, <1>5, UpTo
<1>7. sum \in [0 .. n -> Nat]
  <2>1. sum = [i \in 0 .. n |-> IF i = 0 THEN 0 ELSE sum[i - 1] + f[i]]
    BY <1>2
  <2>2. \A i \in 0 .. n : (IF i = 0 THEN 0 ELSE sum[i - 1] + f[i]) = sum[i]
    BY <1>3
  <2>3. \A i \in 0 .. n : (IF i = 0 THEN 0 ELSE sum[i - 1] + f[i]) \in Nat
    BY <2>2, <1>6
  <2> DEFINE v(i) == IF i = 0 THEN 0 ELSE sum[i - 1] + f[i]
  <2> HIDE DEF v
  <2> QED BY <2>1, <2>3
<1> QED BY <1>1, <1>3, <1>7

LEMMA SumType ==
  ASSUME NEW n \in Nat, NEW f \in [1 .. n -> Nat]
  PROVE  SumTo(f, n) \in Nat
<1>1. PICK s \in [0 .. n -> Nat] : SumTo(f, n) = s[n]
  BY SumToDef
<1> QED BY <1>1

LEMMA SumZero ==
  ASSUME NEW n \in Nat, NEW f \in [1 .. n -> Nat], \A i \in 1 .. n : f[i] = 0
  PROVE  SumTo(f, n) = 0
<1>1. PICK s \in [0 .. n -> Nat] :
         /\ s[0] = 0 /\ SumTo(f, n) = s[n]
         /\ \A i \in 1 .. n : s[i] = s[i - 1] + f[i]
  BY SumToDef
<1> DEFINE Good == {i \in Nat : s[i] = 0}
<1>2. 0 \in Good
  BY <1>1
<1>3. ASSUME NEW i \in 1 .. n, i - 1 \in Good PROVE i \in Good
  BY <1>1, <1>3
<1>4. \A i \in 0 .. n : i \in Good
  <2> HIDE DEF Good
  <2> QED BY <1>2, <1>3, UpTo
<1> QED BY <1>1, <1>4

\* One summand changes.
LEMMA SumUpdate ==
  ASSUME NEW n \in Nat, NEW f \in [1 .. n -> Nat], NEW h \in [1 .. n -> Nat],
         NEW z \in 1 .. n, \A i \in 1 .. n : i # z => h[i] = f[i]
  PROVE  SumTo(h, n) = SumTo(f, n) - f[z] + h[z]
<1>1. PICK s \in [0 .. n -> Nat] :
         /\ s[0] = 0 /\ SumTo(f, n) = s[n]
         /\ \A i \in 1 .. n : s[i] = s[i - 1] + f[i]
  BY SumToDef
<1>2. PICK t \in [0 .. n -> Nat] :
         /\ t[0] = 0 /\ SumTo(h, n) = t[n]
         /\ \A i \in 1 .. n : t[i] = t[i - 1] + h[i]
  BY SumToDef
<1> DEFINE Good == {i \in Nat : t[i] = s[i] + (IF i >= z THEN h[z] - f[z] ELSE 0)}
<1>3. 0 \in Good
  BY <1>1, <1>2
<1>4. ASSUME NEW i \in 1 .. n, i - 1 \in Good PROVE i \in Good
  <2>1. /\ t[i] = t[i - 1] + h[i] /\ s[i] = s[i - 1] + f[i]
        /\ f[i] \in Nat /\ h[i] \in Nat /\ s[i - 1] \in Nat /\ t[i - 1] \in Nat
        /\ f[z] \in Nat /\ h[z] \in Nat
    <3>1. i - 1 \in 0 .. n /\ i \in Nat
      OBVIOUS
    <3> QED BY <1>1, <1>2, <3>1
  <2>2. t[i - 1] = s[i - 1] + (IF i - 1 >= z THEN h[z] - f[z] ELSE 0)
    BY <1>4
  <2>3. CASE i = z
    BY <2>1, <2>2, <2>3, SMTT(30)
  <2>4. CASE i # z
    <3>1. h[i] = f[i] /\ (i - 1 >= z <=> i >= z)
      BY <2>4
    <3>2. t[i] = s[i] + (IF i >= z THEN h[z] - f[z] ELSE 0)
      <4>1. CASE i >= z
        <5>1. t[i - 1] = s[i - 1] + (h[z] - f[z])
          BY <2>2, <3>1, <4>1
        <5>2. t[i] = s[i] + (h[z] - f[z])
          <6> DEFINE d == h[z] - f[z]
          <6>1. d \in Int
            BY <2>1
          <6>2. t[i - 1] = s[i - 1] + d
            BY <5>1
          <6> HIDE DEF d
          <6>3. t[i] = s[i] + d
            BY <2>1, <3>1, <6>1, <6>2, SMTT(30)
          <6> QED BY <6>3 DEF d
        <5> QED BY <4>1, <5>2
      <4>2. CASE ~(i >= z)
        BY <2>1, <2>2, <3>1, <4>2
      <4> QED BY <4>1, <4>2
    <3> QED BY <3>2
  <2> QED BY <2>3, <2>4
<1>5. \A i \in 0 .. n : i \in Good
  <2> HIDE DEF Good
  <2> QED BY <1>3, <1>4, UpTo
<1>6. t[n] = s[n] + (h[z] - f[z])
  BY <1>5
<1> QED BY <1>1, <1>2, <1>6

-----------------------------------------------------------------------------
(* Counting the members of a group.                                         *)

LEMMA Countable ==
  ASSUME NEW n \in Nat, NEW A \in SUBSET (1 .. n)
  PROVE  IsFiniteSet(A) /\ Cardinality(A) \in Nat /\ (A = {} => Cardinality(A) = 0)
<1>1. IsFiniteSet(1 .. n)
  BY FS_Interval
<1>2. IsFiniteSet(A)
  BY <1>1, FS_Subset
<1> QED BY <1>2, FS_CardinalityType, FS_EmptySet

\* One member enters or leaves.
LEMMA CountMoved ==
  ASSUME NEW n \in Nat, NEW A \in SUBSET (1 .. n), NEW B \in SUBSET (1 .. n),
         NEW x \in 1 .. n, \A y \in 1 .. n : y # x => (y \in A <=> y \in B)
  PROVE  Cardinality(B) = Cardinality(A) + (IF x \in B THEN 1 ELSE 0)
                                         - (IF x \in A THEN 1 ELSE 0)
<1>1. IsFiniteSet(A) /\ Cardinality(A) \in Nat
  BY Countable
<1>2. CASE x \in A <=> x \in B
  <2>1. \A y : y \in A <=> y \in B
    BY <1>2
  <2>2. A = B
    BY <2>1
  <2> QED BY <1>1, <1>2, <2>2
<1>3. CASE x \in B /\ x \notin A
  <2>1. B = A \cup {x}
    BY <1>3
  <2>2. Cardinality(B) = Cardinality(A) + 1
    BY <1>1, <1>3, <2>1, FS_AddElement
  <2> QED BY <1>1, <1>3, <2>2
<1>4. CASE x \in A /\ x \notin B
  <2>1. B = A \ {x}
    BY <1>4
  <2>2. Cardinality(B) = Cardinality(A) - 1
    BY <1>1, <1>4, <2>1, FS_RemoveElement
  <2> QED BY <1>1, <1>4, <2>2
<1> QED BY <1>2, <1>3, <1>4

-----------------------------------------------------------------------------
(* What the stores and idxd_device_config do to the tables.                 *)

LEMMA Sizes ==
  /\ NumWqs \in Nat /\ NumGroups \in Nat /\ NumEngines \in Nat
  /\ 1 \in Groups /\ 1 \in Wqs /\ 1 \in Engines /\ None \notin Groups
  /\ MaxWqSize \in Nat /\ MaxRdbufs \in Nat /\ DefaultDepth \in Nat
  BY ConfigParameters DEF Groups, Wqs, Engines, None

LEMMA EmptyTypes ==
  EmptyWq \in WqRecord /\ EmptyReg \in RegRecord /\ EmptyGroup \in GroupRecord
  BY Sizes DEF EmptyWq, EmptyReg, EmptyGroup, WqRecord, RegRecord, GroupRecord, DriverNames

LEMMA ReservedFacts ==
  ASSUME NEW f \in [Groups -> GroupRecord]
  PROVE  /\ Reserved(f) \in Nat
         /\ (\A g \in Groups : f[g].reserved = 0) => Reserved(f) = 0
<1> DEFINE r == [g \in Groups |-> f[g].reserved]
<1>1. r \in [1 .. NumGroups -> Nat]
  BY DEF Groups, GroupRecord
<1>2. NumGroups \in Nat /\ Groups = 1 .. NumGroups
  BY Sizes DEF Groups
<1>3. (\A g \in Groups : f[g].reserved = 0) => \A g \in 1 .. NumGroups : r[g] = 0
  BY <1>2
<1> HIDE DEF r
<1>4. SumTo(r, NumGroups) \in Nat
  BY <1>1, <1>2, SumType
<1>5. (\A g \in 1 .. NumGroups : r[g] = 0) => SumTo(r, NumGroups) = 0
  BY <1>1, <1>2, SumZero
<1> QED BY <1>3, <1>4, <1>5 DEF Reserved, r

LEMMA ReservedSame ==
  ASSUME NEW f, NEW h, \A g \in Groups : h[g].reserved = f[g].reserved
  PROVE  Reserved(h) = Reserved(f)
<1>1. [g \in Groups |-> h[g].reserved] = [g \in Groups |-> f[g].reserved]
  OBVIOUS
<1> QED BY <1>1 DEF Reserved

LEMMA ReservedUpdate ==
  ASSUME NEW f \in [Groups -> GroupRecord], NEW g \in Groups, NEW v \in Nat
  PROVE  /\ [f EXCEPT ![g].reserved = v] \in [Groups -> GroupRecord]
         /\ Reserved([f EXCEPT ![g].reserved = v]) = Reserved(f) - f[g].reserved + v
<1> DEFINE h == [f EXCEPT ![g].reserved = v]
           r == [i \in Groups |-> f[i].reserved]
           u == [i \in Groups |-> h[i].reserved]
<1>1. h \in [Groups -> GroupRecord]
  BY DEF GroupRecord
<1>2. NumGroups \in Nat /\ Groups = 1 .. NumGroups
  BY Sizes DEF Groups
<1>3. h[g].reserved = v /\ \A i \in Groups : i # g => h[i].reserved = f[i].reserved
  BY DEF GroupRecord
<1> HIDE DEF h
<1>4. r \in [1 .. NumGroups -> Nat] /\ u \in [1 .. NumGroups -> Nat]
  BY <1>1, <1>2 DEF GroupRecord
<1>5. u[g] = v /\ r[g] = f[g].reserved /\ \A i \in 1 .. NumGroups : i # g => u[i] = r[i]
  BY <1>2, <1>3
<1> HIDE DEF r, u
<1>6. SumTo(u, NumGroups) = SumTo(r, NumGroups) - r[g] + u[g]
  BY <1>2, <1>4, <1>5, SumUpdate
<1> QED BY <1>1, <1>5, <1>6 DEF Reserved, h, r, u

LEMMA MergedType ==
  ASSUME NEW a \in WqRecord, NEW sh \in RegRecord, NEW h \in RegRecord
  PROVE  /\ Merged(a, sh, h) \in RegRecord
         /\ Merged(a, sh, h).size = a.size /\ Merged(a, sh, h).thr = a.thr
         /\ Merged(a, sh, h).prs = a.prs /\ Merged(a, sh, h).tuned = a.tuned
         /\ a.ded => Merged(a, sh, h).mode
         /\ a.bof /\ ~a.prs => Merged(a, sh, h).bof
         /\ h.bof => Merged(a, sh, h).bof
<1>1. /\ (sh.mode \/ h.mode \/ a.ded) \in BOOLEAN
      /\ (sh.bof \/ h.bof \/ (a.bof /\ ~a.prs)) \in BOOLEAN
      /\ (sh.pasid \/ h.pasid) \in BOOLEAN
  BY Zenon
<1>2. a.size \in Nat /\ a.thr \in Nat /\ a.prs \in BOOLEAN /\ a.tuned \in BOOLEAN
  BY DEF WqRecord
<1> QED BY <1>1, <1>2 DEF Merged, RegRecord

\* Two records of a queue that differ in its size at most.
SameBut(a, b) ==
  /\ a.state = b.state /\ a.type = b.type /\ a.group = b.group /\ a.thr = b.thr
  /\ a.ded = b.ded /\ a.bof = b.bof /\ a.prs = b.prs /\ a.named = b.named
  /\ a.tuned = b.tuned /\ a.drv = b.drv

\* What idxd_device_config leaves of the queues q and of their registers.
Configured(c, q, sh, h) ==
  /\ c.wq \in [Wqs -> WqRecord]
  /\ c.shadow \in [Wqs -> RegRecord] /\ c.hw \in [Wqs -> RegRecord]
  /\ \A w \in Wqs :
        /\ SameBut(c.wq[w], q[w])
        /\ \/ c.wq[w].size = q[w].size
           \/ q[w].size = 0 /\ c.wq[w].size = DefaultDepth
        /\ \/ c.hw[w] = Merged(c.wq[w], sh[w], h[w])
           \/ /\ c.hw[w] = h[w]
              /\ c.wq[w].size = q[w].size \/ q[w].size = 0

LEMMA ConfigWritten ==
  ASSUME NEW q \in [Wqs -> WqRecord], NEW sh \in [Wqs -> RegRecord],
         NEW h \in [Wqs -> RegRecord]
  PROVE  /\ Configured(ConfigWrite(q, sh, h), q, sh, h)
         /\ ConfigWrite(q, sh, h).ok => \A w \in Wqs : q[w].group # None =>
              /\ ConfigWrite(q, sh, h).hw[w]
                   = Merged(ConfigWrite(q, sh, h).wq[w], sh[w], h[w])
              /\ q[w].type # "none" =>
                   ConfigWrite(q, sh, h).wq[w].size # 0 \/ DefaultDepth = 0
<1> DEFINE stop == Min(NoPriv(q, sh, h) \cup {NumWqs + 1})
           reached == {w \in Grouped(q) : w <= stop}
           sized == [w \in Wqs |->
               IF w \in reached /\ q[w].size = 0 /\ q[w].type # "none"
               THEN [q[w] EXCEPT !.size = DefaultDepth] ELSE q[w]]
           new == [w \in Wqs |-> IF w \in reached
                                 THEN Merged(sized[w], sh[w], h[w]) ELSE sh[w]]
           regs == [w \in Wqs |-> IF w \in reached /\ w # stop THEN new[w] ELSE h[w]]
           c == ConfigWrite(q, sh, h)
<1>1. /\ c.ok = (stop = NumWqs + 1) /\ c.wq = sized /\ c.shadow = new /\ c.hw = regs
  BY DEF ConfigWrite
<1> HIDE DEF c, stop
<1>2. stop = NumWqs + 1 => \A w \in Wqs : q[w].group # None => w \in reached /\ w # stop
  BY Sizes DEF Grouped, Wqs
<1> HIDE DEF reached
<1>3. ASSUME NEW w \in Wqs
      PROVE  /\ sized[w] \in WqRecord /\ SameBut(sized[w], q[w])
             /\ \/ sized[w].size = q[w].size
                \/ q[w].size = 0 /\ sized[w].size = DefaultDepth
             /\ w \in reached /\ q[w].type # "none" => sized[w].size # 0 \/ DefaultDepth = 0
  <2>1. q[w] \in WqRecord /\ DefaultDepth \in Nat
    BY Sizes
  <2>2. CASE w \in reached /\ q[w].size = 0 /\ q[w].type # "none"
    <3>1. sized[w] = [q[w] EXCEPT !.size = DefaultDepth]
      BY <2>2
    <3> HIDE DEF sized
    <3> QED BY <2>1, <2>2, <3>1 DEF WqRecord, SameBut
  <2>3. CASE ~(w \in reached /\ q[w].size = 0 /\ q[w].type # "none")
    <3>1. sized[w] = q[w]
      BY <2>3
    <3> HIDE DEF sized
    <3> QED BY <2>1, <2>3, <3>1 DEF SameBut
  <2> QED BY <2>2, <2>3
<1>4. sized \in [Wqs -> WqRecord]
  <2>1. \A w \in Wqs : sized[w] \in WqRecord
    BY <1>3
  <2>2. sized = [w \in Wqs |-> sized[w]]
    OBVIOUS
  <2> HIDE DEF sized
  <2> QED BY <2>1, <2>2
<1> HIDE DEF sized
<1>5. \A w \in Wqs : new[w] \in RegRecord
  BY <1>4, MergedType
<1>6. new \in [Wqs -> RegRecord] /\ regs \in [Wqs -> RegRecord]
  <2> HIDE DEF new
  <2>1. \A w \in Wqs : regs[w] \in RegRecord
    BY <1>5
  <2>2. new = [w \in Wqs |-> new[w]] /\ regs = [w \in Wqs |-> regs[w]]
    BY DEF new
  <2> HIDE DEF regs
  <2> QED BY <1>5, <2>1, <2>2
<1>7. ASSUME NEW w \in Wqs
      PROVE  /\ w \in reached /\ w # stop => regs[w] = Merged(sized[w], sh[w], h[w])
             /\ ~(w \in reached /\ w # stop) => regs[w] = h[w]
  OBVIOUS
<1> HIDE DEF new, regs
<1>8. Configured(c, q, sh, h)
  BY <1>1, <1>3, <1>4, <1>6, <1>7 DEF Configured
<1>9. c.ok => \A w \in Wqs : q[w].group # None =>
              /\ c.hw[w] = Merged(c.wq[w], sh[w], h[w])
              /\ q[w].type # "none" => c.wq[w].size # 0 \/ DefaultDepth = 0
  BY <1>1, <1>2, <1>3, <1>7
<1> QED BY <1>8, <1>9 DEF c

LEMMA DeviceConfigured ==
  ASSUME TypeOK, NEW q \in [Wqs -> WqRecord], NEW sh \in [Wqs -> RegRecord],
         NEW h \in [Wqs -> RegRecord]
  PROVE  Configured(DeviceConfig(q, sh, h), q, sh, h)
<1>1. CASE SetupFails(q)
  <2> DEFINE c == [ok |-> FALSE, wq |-> q, shadow |-> sh, hw |-> h]
  <2>1. DeviceConfig(q, sh, h) = c
    BY <1>1 DEF DeviceConfig
  <2>2. Configured(c, q, sh, h)
    BY DEF Configured, SameBut
  <2> QED BY <2>1, <2>2
<1>2. CASE ~SetupFails(q)
  <2>1. DeviceConfig(q, sh, h) = ConfigWrite(q, sh, h)
    BY <1>2 DEF DeviceConfig
  <2> QED BY <2>1, ConfigWritten
<1> QED BY <1>1, <1>2

LEMMA BindConfigured ==
  ASSUME TypeOK, NEW q \in [Wqs -> WqRecord], NEW sh \in [Wqs -> RegRecord],
         NEW h \in [Wqs -> RegRecord], NEW c, c = BindConfig(q, sh, h)
  PROVE  /\ Configured(c, q, sh, h)
         /\ configurable /\ c.ok => \A w \in Wqs : q[w].group # None =>
              /\ c.hw[w] = Merged(c.wq[w], sh[w], h[w])
              /\ q[w].type # "none" => c.wq[w].size # 0 \/ DefaultDepth = 0
<1>1. CASE configurable
  <2>1. c = DeviceConfig(q, sh, h)
    BY <1>1 DEF BindConfig
  <2>2. CASE SetupFails(q)
    <3>1. ~c.ok
      BY <2>1, <2>2 DEF DeviceConfig
    <3> QED BY <2>1, <3>1, DeviceConfigured
  <2>3. CASE ~SetupFails(q)
    <3>1. c = ConfigWrite(q, sh, h)
      BY <2>1, <2>3 DEF DeviceConfig
    <3> QED BY <3>1, ConfigWritten
  <2> QED BY <2>2, <2>3
<1>2. CASE ~configurable
  <2> DEFINE u == [ok |-> TRUE, wq |-> q, shadow |-> sh, hw |-> h]
  <2>1. c = u
    BY <1>2 DEF BindConfig
  <2>2. Configured(u, q, sh, h)
    BY DEF Configured, SameBut
  <2> QED BY <1>2, <2>1, <2>2
<1> QED BY <1>1, <1>2

-----------------------------------------------------------------------------
(* The parts of the invariant that several actions keep for one reason.     *)

\* No queue runs, or the device is not configurable.
LEMMA NothingRuns ==
  ASSUME ~configurable' \/ \A w \in Wqs : wq'[w].state = "disabled"
  PROVE  EnabledRunnable' /\ RegistersMatch' /\ EnabledSized'
<1>1. \A w \in Wqs : ~(configurable' /\ wq'[w].state = "enabled")
  OBVIOUS
<1> QED BY <1>1 DEF EnabledRunnable, RegistersMatch, EnabledSized

\* The groups and who is in them stay.
LEMMA BooksKept ==
  ASSUME TypeOK, RdbufsFit, CountsAgree, UNCHANGED <<configurable, grp, nrRdbufs, engGroup>>,
         \A w \in Wqs : wq'[w].group = wq[w].group
  PROVE  RdbufsFit' /\ CountsAgree'
<1>1. RdbufsFit'
  BY DEF RdbufsFit
<1>2. ASSUME NEW g \in Groups
      PROVE  /\ {w \in Wqs : wq'[w].group = g} = {w \in Wqs : wq[w].group = g}
             /\ {e \in Engines : engGroup'[e] = g} = {e \in Engines : engGroup[e] = g}
  OBVIOUS
<1>3. CountsAgree'
  BY <1>2 DEF CountsAgree
<1> QED BY <1>1, <1>3

\* idxd_device_clear_state empties both sides of the books.
LEMMA StateCleared ==
  ASSUME DevInv, ClearState, UNCHANGED <<configurable, nrRdbufs>>
  PROVE  /\ RdbufsFit' /\ CountsAgree' /\ FaultHandling'
         /\ ~configurable' \/ \A w \in Wqs : wq'[w].state = "disabled"
         /\ wq' \in [Wqs -> WqRecord] /\ shadow' \in [Wqs -> RegRecord]
         /\ grp' \in [Groups -> GroupRecord] /\ engGroup' \in [Engines -> Groups \cup {None}]
         /\ \A w \in Wqs : wq'[w].drv = wq[w].drv
<1>1. CASE ~configurable
  <2>1. UNCHANGED <<wq, shadow, grp, engGroup>>
    BY <1>1 DEF ClearState
  <2>2. RdbufsFit' /\ CountsAgree'
    BY <2>1, BooksKept DEF DevInv
  <2> QED BY <1>1, <2>1, <2>2 DEF DevInv, TypeOK, FaultHandling
<1>2. CASE configurable
  <2> DEFINE Emptied(w) == [EmptyWq EXCEPT !.drv = wq[w].drv]
  <2>1. /\ wq' = [w \in Wqs |-> Emptied(w)] /\ shadow' = [w \in Wqs |-> EmptyReg]
        /\ grp' = [g \in Groups |-> EmptyGroup] /\ engGroup' = [e \in Engines |-> None]
    BY <1>2 DEF ClearState
  <2>2. \A w \in Wqs : /\ Emptied(w) \in WqRecord /\ Emptied(w).state = "disabled"
                       /\ Emptied(w).group = None /\ ~Emptied(w).bof
                       /\ Emptied(w).drv = wq[w].drv
    BY Sizes DEF EmptyWq, WqRecord, DevInv, TypeOK
  <2> HIDE DEF Emptied
  <2>3. /\ wq' \in [Wqs -> WqRecord] /\ shadow' \in [Wqs -> RegRecord]
        /\ grp' \in [Groups -> GroupRecord] /\ engGroup' \in [Engines -> Groups \cup {None}]
    BY <2>1, <2>2, EmptyTypes
  <2>4. Reserved(grp') = 0 /\ Reserved(grp) \in Nat
    <3>1. \A g \in Groups : grp'[g].reserved = 0
      BY <2>1 DEF EmptyGroup
    <3> QED BY <2>3, <3>1, ReservedFacts DEF DevInv, TypeOK
  <2>5. RdbufsFit'
    BY <2>4, Sizes DEF DevInv, RdbufsFit
  <2>6. CountsAgree'
    <3>1. ASSUME NEW g \in Groups
          PROVE  /\ grp'[g].wqs = Cardinality({w \in Wqs : wq'[w].group = g})
                 /\ grp'[g].engines = Cardinality({e \in Engines : engGroup'[e] = g})
      <4>1. {w \in Wqs : wq'[w].group = g} = {} /\ {e \in Engines : engGroup'[e] = g} = {}
        BY <2>1, <2>2, Sizes
      <4>2. grp'[g].wqs = 0 /\ grp'[g].engines = 0
        BY <2>1 DEF EmptyGroup
      <4> QED BY <4>1, <4>2, FS_EmptySet
    <3> QED BY <3>1 DEF CountsAgree
  <2>7. \A w \in Wqs : wq'[w].state = "disabled" /\ ~wq'[w].bof
    BY <2>1, <2>2
  <2>8. \A w \in Wqs : wq'[w].drv = wq[w].drv
    BY <2>1, <2>2
  <2> QED BY <2>3, <2>5, <2>6, <2>7, <2>8 DEF FaultHandling
<1> QED BY <1>1, <1>2 DEF DevInv, TypeOK

-----------------------------------------------------------------------------
(* The stores.                                                              *)

\* What an administrator writes.
LEMMA PlanTypes ==
  ASSUME TypeOK
  PROVE  /\ \A w \in Wqs : /\ plan.size[w] \subseteq Nat /\ plan.thr[w] \subseteq Nat
                           /\ plan.group[w] \subseteq Groups \cup {None}
                           /\ plan.bof[w] \subseteq BOOLEAN /\ plan.prs[w] \subseteq BOOLEAN
                           /\ plan.ded[w] \subseteq BOOLEAN
                           /\ plan.type[w] \subseteq {"none", "kernel", "user"}
                           /\ plan.drv[w] \subseteq DriverNames
         /\ \A g \in Groups : plan.reserved[g] \subseteq Nat /\ plan.allowed[g] \subseteq Nat
         /\ \A e \in Engines : plan.engine[e] \subseteq Groups \cup {None}
  BY PlansAssumption DEF TypeOK

\* A store to a disabled queue that is not its group or its size.
LEMMA SetWqKeeps ==
  ASSUME DevInv, NEW w \in Wqs, NEW new \in WqRecord, new.group = wq[w].group,
         new.state = "disabled", new.bof => ~new.prs, SetWq(w, new)
  PROVE  DevInv'
<1>1. /\ wq[w].state = "disabled" /\ wq' = [wq EXCEPT ![w] = new]
      /\ UNCHANGED <<configurable, plan, engGroup, grp, nrRdbufs, shadow, hw, hwEngines,
                     hwOn, devState, devBound, bound, enableMap, reinit>>
  BY DEF SetWq, Frame, regVars, lifeVars
<1>2. TypeOK'
  BY <1>1 DEF DevInv, TypeOK
<1>3. /\ wq'[w] = new /\ \A v \in Wqs : v # w => wq'[v] = wq[v]
  BY <1>1 DEF DevInv, TypeOK
<1>4. RdbufsFit' /\ CountsAgree'
  BY <1>1, <1>3, BooksKept DEF DevInv
<1>5. EnabledRunnable' /\ RegistersMatch' /\ EnabledSized' /\ FaultHandling'
  BY <1>1, <1>3 DEF DevInv, EnabledRunnable, RegistersMatch, EnabledSized, FaultHandling
<1> QED BY <1>2, <1>4, <1>5 DEF DevInv

LEMMA AttributesKeep ==
  ASSUME DevInv, NEW w \in Wqs,
         \/ \E v \in BOOLEAN : WqModeStore(w, v) \/ WqBlockOnFaultStore(w, v)
                                 \/ WqPrsDisableStore(w, v)
         \/ \E v \in Nat : WqThresholdStore(w, v)
         \/ \E t \in {"none", "kernel", "user"} : WqTypeStore(w, t)
         \/ \E d \in DriverNames : WqDriverNameStore(w, d)
         \/ WqNameStore(w) \/ WqPriorityStore(w) \/ WqMaxTransferSizeStore(w)
         \/ WqMaxBatchSizeStore(w) \/ WqAtsDisableStore(w) \/ WqOpConfigStore(w)
  PROVE  DevInv'
<1>1. wq[w] \in WqRecord /\ (wq[w].bof => ~wq[w].prs)
  BY DEF DevInv, TypeOK, FaultHandling
<1>2. (\E new : SetWq(w, new)) => wq[w].state = "disabled"
  BY DEF SetWq
<1> DEFINE Fits(new) == /\ new \in WqRecord /\ new.group = wq[w].group
                        /\ new.state = wq[w].state /\ (new.bof => ~new.prs)
<1>3. ASSUME NEW new, Fits(new), SetWq(w, new) PROVE DevInv'
  BY <1>2, <1>3, SetWqKeeps
<1>4. ASSUME NEW v \in BOOLEAN, WqModeStore(w, v) PROVE DevInv'
  <2>1. Fits([wq[w] EXCEPT !.ded = v, !.thr = IF v THEN 0 ELSE @])
    BY <1>1 DEF WqRecord
  <2> QED BY <1>3, <1>4, <2>1 DEF WqModeStore
<1>5. ASSUME NEW v \in BOOLEAN, WqBlockOnFaultStore(w, v) PROVE DevInv'
  <2>1. v => ~wq[w].prs
    BY <1>5 DEF WqBlockOnFaultStore
  <2>2. Fits([wq[w] EXCEPT !.bof = v])
    BY <1>1, <2>1 DEF WqRecord
  <2> QED BY <1>3, <1>5, <2>2 DEF WqBlockOnFaultStore
<1>6. ASSUME NEW v \in BOOLEAN, WqPrsDisableStore(w, v) PROVE DevInv'
  <2>1. (wq[w].bof /\ ~v) \in BOOLEAN
    BY Zenon
  <2>2. Fits([wq[w] EXCEPT !.prs = v, !.bof = @ /\ ~v])
    BY <1>1, <2>1 DEF WqRecord
  <2> QED BY <1>3, <1>6, <2>2 DEF WqPrsDisableStore
<1>7. ASSUME NEW v \in Nat, WqThresholdStore(w, v) PROVE DevInv'
  <2>1. Fits([wq[w] EXCEPT !.thr = v])
    BY <1>1 DEF WqRecord
  <2> QED BY <1>3, <1>7, <2>1 DEF WqThresholdStore
<1>8. ASSUME NEW t \in {"none", "kernel", "user"}, WqTypeStore(w, t) PROVE DevInv'
  <2>1. Fits([wq[w] EXCEPT !.type = t, !.named = IF t = wq[w].type THEN @ ELSE FALSE])
    BY <1>1 DEF WqRecord
  <2> QED BY <1>3, <1>8, <2>1 DEF WqTypeStore
<1>9. CASE WqNameStore(w)
  <2>1. Fits([wq[w] EXCEPT !.named = TRUE])
    BY <1>1 DEF WqRecord
  <2> QED BY <1>3, <1>9, <2>1 DEF WqNameStore
<1>10. ASSUME NEW d \in DriverNames, WqDriverNameStore(w, d) PROVE DevInv'
  <2>1. Fits([wq[w] EXCEPT !.drv = d])
    BY <1>1, <1>10 DEF WqRecord
  <2> QED BY <1>3, <1>10, <2>1 DEF WqDriverNameStore
<1>11. CASE \/ WqPriorityStore(w) \/ WqMaxTransferSizeStore(w) \/ WqMaxBatchSizeStore(w)
            \/ WqAtsDisableStore(w) \/ WqOpConfigStore(w)
  <2>1. Fits([wq[w] EXCEPT !.tuned = TRUE])
    BY <1>1 DEF WqRecord
  <2> QED BY <1>3, <1>11, <2>1 DEF WqPriorityStore, WqMaxTransferSizeStore,
                                   WqMaxBatchSizeStore, WqAtsDisableStore, WqOpConfigStore
<1> QED BY <1>4, <1>5, <1>6, <1>7, <1>8, <1>9, <1>11, <1>10

LEMMA SizeKeeps ==
  ASSUME DevInv, NEW w \in Wqs, NEW v \in Nat, WqSizeStore(w, v)
  PROVE  DevInv'
<1>1. /\ devState # "enabled" /\ wq' = [wq EXCEPT ![w].size = v]
      /\ UNCHANGED <<configurable, plan, engGroup, grp, nrRdbufs, shadow, hw, hwEngines,
                     hwOn, devState, devBound, bound, enableMap, reinit>>
  BY DEF WqSizeStore, Frame, regVars, lifeVars
<1>2. wq' \in [Wqs -> WqRecord]
  <2>1. wq \in [Wqs -> WqRecord]
    BY DEF DevInv, TypeOK
  <2>2. [wq[w] EXCEPT !.size = v] \in WqRecord
    BY <2>1 DEF WqRecord
  <2> QED BY <1>1, <2>1, <2>2
<1>3. TypeOK'
  BY <1>1, <1>2 DEF DevInv, TypeOK
<1>4. \A u \in Wqs : SameBut(wq'[u], wq[u])
  BY <1>1 DEF DevInv, TypeOK, WqRecord, SameBut
<1>5. RdbufsFit' /\ CountsAgree'
  BY <1>1, <1>4, BooksKept DEF DevInv, SameBut
<1>6. EnabledRunnable' /\ RegistersMatch' /\ EnabledSized' /\ FaultHandling'
  BY <1>1, <1>4 DEF DevInv, EnabledRunnable, RegistersMatch, EnabledSized, FaultHandling,
                    SameBut
<1> QED BY <1>3, <1>5, <1>6 DEF DevInv

\* The count of every group is right when f says who is in it.
Counts(kind, t, n, f) ==
  \A g \in Groups : t[g][kind] = Cardinality({y \in 1 .. n : f[y] = g})

OthersKept(kind, t) ==
  \A g \in Groups, other \in {"wqs", "engines", "reserved", "allowed"} :
     other # kind => t[g][other] = grp[g][other]

\* prevg->num--, group->num++ keeps the count of every group right.
LEMMA Rejoined ==
  ASSUME TypeOK, NEW n \in Nat, NEW x \in 1 .. n, NEW kind \in {"wqs", "engines"},
         NEW f \in [1 .. n -> Groups \cup {None}], NEW new \in Groups \cup {None},
         Counts(kind, grp, n, f)
  PROVE  /\ Rejoin(kind, f[x], new) \in [Groups -> GroupRecord]
         /\ Counts(kind, Rejoin(kind, f[x], new), n, [f EXCEPT ![x] = new])
         /\ OthersKept(kind, Rejoin(kind, f[x], new))
<1> DEFINE h == [f EXCEPT ![x] = new]
           r == Rejoin(kind, f[x], new)
<1>1. ASSUME NEW g \in Groups
      PROVE  /\ Cardinality({y \in 1 .. n : h[y] = g}) \in Nat
             /\ Cardinality({y \in 1 .. n : h[y] = g})
                  = Cardinality({y \in 1 .. n : f[y] = g})
                      + (IF g = new THEN 1 ELSE 0) - (IF g = f[x] THEN 1 ELSE 0)
  <2> DEFINE A == {y \in 1 .. n : f[y] = g}
             B == {y \in 1 .. n : h[y] = g}
  <2>1. /\ A \in SUBSET (1 .. n) /\ B \in SUBSET (1 .. n)
        /\ \A y \in 1 .. n : y # x => (y \in A <=> y \in B)
        /\ (x \in B <=> g = new) /\ (x \in A <=> g = f[x])
    OBVIOUS
  <2> HIDE DEF A, B
  <2>2. Cardinality(B) = Cardinality(A) + (IF x \in B THEN 1 ELSE 0)
                                        - (IF x \in A THEN 1 ELSE 0)
    BY <2>1, CountMoved
  <2>3. Cardinality(B) \in Nat
    BY <2>1, Countable
  <2>4. Cardinality(B) = Cardinality(A) + (IF g = new THEN 1 ELSE 0)
                                        - (IF g = f[x] THEN 1 ELSE 0)
    BY <2>1, <2>2
  <2> QED BY <2>3, <2>4 DEF A, B
<1> HIDE DEF h
<1>2. ASSUME NEW g \in Groups
      PROVE  r[g] = [grp[g] EXCEPT ![kind] = Cardinality({y \in 1 .. n : h[y] = g})]
  <2>1. r[g] = [grp[g] EXCEPT ![kind] =
                  grp[g][kind] + (IF g = new THEN 1 ELSE 0) - (IF g = f[x] THEN 1 ELSE 0)]
    BY DEF Rejoin
  <2> QED BY <1>1, <2>1 DEF Counts
<1>3. ASSUME NEW g \in Groups
      PROVE  /\ r[g] \in GroupRecord
             /\ r[g][kind] = Cardinality({y \in 1 .. n : h[y] = g})
             /\ \A other \in {"wqs", "engines", "reserved", "allowed"} : other # kind =>
                   r[g][other] = grp[g][other]
  <2>1. grp[g] \in GroupRecord
    BY DEF TypeOK
  <2>2. PICK c \in Nat : c = Cardinality({y \in 1 .. n : h[y] = g})
    BY <1>1
  <2>3. r[g] = [grp[g] EXCEPT ![kind] = c]
    BY <1>2, <2>2
  <2> HIDE DEF r
  <2>4. CASE kind = "wqs"
    BY <2>1, <2>2, <2>3, <2>4 DEF GroupRecord
  <2>5. CASE kind = "engines"
    BY <2>1, <2>2, <2>3, <2>5 DEF GroupRecord
  <2> QED BY <2>4, <2>5
<1>4. r = [g \in Groups |-> r[g]]
  BY DEF Rejoin
<1> HIDE DEF r
<1>5. r \in [Groups -> GroupRecord]
  BY <1>3, <1>4
<1>6. Counts(kind, r, n, h) /\ OthersKept(kind, r)
  BY <1>3 DEF Counts, OthersKept
<1> QED BY <1>5, <1>6 DEF r, h

LEMMA WqGroupKeeps ==
  ASSUME DevInv, NEW w \in Wqs, NEW g \in Groups \cup {None}, WqGroupIdStore(w, g)
  PROVE  DevInv'
<1>1. /\ wq[w].state = "disabled" /\ wq' = [wq EXCEPT ![w].group = g] /\ configurable
      /\ grp' = Rejoin("wqs", wq[w].group, g)
      /\ UNCHANGED <<configurable, plan, engGroup, nrRdbufs, shadow, hw, hwEngines,
                     hwOn, devState, devBound, bound, enableMap, reinit>>
  BY DEF WqGroupIdStore, Frame, regVars, lifeVars
<1>2. wq \in [Wqs -> WqRecord] /\ NumWqs \in Nat /\ Wqs = 1 .. NumWqs
  BY Sizes DEF DevInv, TypeOK, Wqs
<1>3. [wq[w] EXCEPT !.group = g] \in WqRecord
  BY <1>2 DEF WqRecord
<1>4. wq' \in [Wqs -> WqRecord]
  BY <1>1, <1>2, <1>3
<1> DEFINE f == [v \in Wqs |-> wq[v].group]
           h == [f EXCEPT ![w] = g]
<1>5. f \in [1 .. NumWqs -> Groups \cup {None}] /\ f[w] = wq[w].group
  BY <1>2 DEF WqRecord
<1>6. \A v \in Wqs : wq'[v].group = h[v] /\ wq[v].group = f[v]
  BY <1>1, <1>2 DEF WqRecord
<1>7. \A i \in Groups : {v \in Wqs : wq[v].group = i} = {v \in 1 .. NumWqs : f[v] = i}
  BY <1>2, <1>6
<1>8. \A i \in Groups : {v \in Wqs : wq'[v].group = i} = {v \in 1 .. NumWqs : h[v] = i}
  BY <1>2, <1>6
<1> HIDE DEF f
<1>9. \A i \in Groups : grp[i].wqs = Cardinality({v \in 1 .. NumWqs : f[v] = i})
  BY <1>1, <1>7 DEF DevInv, CountsAgree
<1>10. /\ grp' \in [Groups -> GroupRecord]
       /\ \A i \in Groups :
             /\ grp'[i].wqs = Cardinality({v \in 1 .. NumWqs : h[v] = i})
             /\ grp'[i].engines = grp[i].engines /\ grp'[i].reserved = grp[i].reserved
  <2>1. TypeOK /\ Counts("wqs", grp, NumWqs, f)
    BY <1>9 DEF DevInv, Counts
  <2>2. w \in 1 .. NumWqs /\ "wqs" \in {"wqs", "engines"}
    BY <1>2
  <2>3. /\ Rejoin("wqs", f[w], g) \in [Groups -> GroupRecord]
        /\ Counts("wqs", Rejoin("wqs", f[w], g), NumWqs, [f EXCEPT ![w] = g])
        /\ OthersKept("wqs", Rejoin("wqs", f[w], g))
    BY <1>2, <1>5, <2>1, <2>2, Rejoined
  <2>4. grp' = Rejoin("wqs", f[w], g)
    BY <1>1, <1>5
  <2> QED BY <2>3, <2>4 DEF Counts, OthersKept
<1> HIDE DEF h
<1>11. TypeOK'
  BY <1>1, <1>4, <1>10 DEF DevInv, TypeOK
<1>12. RdbufsFit'
  <2>1. Reserved(grp') = Reserved(grp)
    BY <1>10, ReservedSame
  <2> QED BY <1>1, <2>1 DEF DevInv, RdbufsFit
<1>13. CountsAgree'
  BY <1>1, <1>8, <1>10, ZenonT(40) DEF DevInv, CountsAgree
<1>14. wq'[w].state = "disabled" /\ wq'[w].bof = wq[w].bof /\ wq'[w].prs = wq[w].prs
  BY <1>1, <1>2 DEF WqRecord
<1>15. \A v \in Wqs : v # w => wq'[v] = wq[v]
  BY <1>1, <1>2
<1>16. EnabledRunnable' /\ RegistersMatch' /\ EnabledSized' /\ FaultHandling'
  BY <1>1, <1>14, <1>15 DEF DevInv, EnabledRunnable, RegistersMatch, EnabledSized,
                            FaultHandling
<1> QED BY <1>11, <1>12, <1>13, <1>16 DEF DevInv

LEMMA EngineGroupKeeps ==
  ASSUME DevInv, NEW e \in Engines, NEW g \in Groups \cup {None}, EngineGroupIdStore(e, g)
  PROVE  DevInv'
<1>1. /\ engGroup' = [engGroup EXCEPT ![e] = g] /\ configurable
      /\ grp' = Rejoin("engines", engGroup[e], g)
      /\ UNCHANGED <<configurable, plan, wq, nrRdbufs, shadow, hw, hwEngines,
                     hwOn, devState, devBound, bound, enableMap, reinit>>
  BY DEF EngineGroupIdStore, Frame, regVars, lifeVars
<1>2. /\ NumEngines \in Nat /\ Engines = 1 .. NumEngines
      /\ engGroup \in [1 .. NumEngines -> Groups \cup {None}]
  BY Sizes DEF DevInv, TypeOK, Engines
<1>3. \A i \in Groups : grp[i].engines = Cardinality({v \in 1 .. NumEngines : engGroup[v] = i})
  BY <1>1, <1>2 DEF DevInv, CountsAgree
<1>4. /\ grp' \in [Groups -> GroupRecord]
      /\ \A i \in Groups :
            /\ grp'[i].engines = Cardinality({v \in 1 .. NumEngines : engGroup'[v] = i})
            /\ grp'[i].wqs = grp[i].wqs /\ grp'[i].reserved = grp[i].reserved
  <2>1. TypeOK /\ Counts("engines", grp, NumEngines, engGroup)
    BY <1>3 DEF DevInv, Counts
  <2>2. e \in 1 .. NumEngines /\ "engines" \in {"wqs", "engines"}
    BY <1>2
  <2>3. /\ Rejoin("engines", engGroup[e], g) \in [Groups -> GroupRecord]
        /\ Counts("engines", Rejoin("engines", engGroup[e], g), NumEngines,
                  [engGroup EXCEPT ![e] = g])
        /\ OthersKept("engines", Rejoin("engines", engGroup[e], g))
    BY <1>2, <2>1, <2>2, Rejoined
  <2> QED BY <1>1, <2>3 DEF Counts, OthersKept
<1>5. TypeOK'
  BY <1>1, <1>2, <1>4 DEF DevInv, TypeOK
<1>6. RdbufsFit'
  <2>1. Reserved(grp') = Reserved(grp)
    BY <1>4, ReservedSame
  <2> QED BY <1>1, <2>1 DEF DevInv, RdbufsFit
<1>7. CountsAgree'
  BY <1>1, <1>2, <1>4, ZenonT(40) DEF DevInv, CountsAgree
<1>8. EnabledRunnable' /\ RegistersMatch' /\ EnabledSized' /\ FaultHandling'
  BY <1>1 DEF DevInv, EnabledRunnable, RegistersMatch, EnabledSized, FaultHandling
<1> QED BY <1>5, <1>6, <1>7, <1>8 DEF DevInv

\* idxd_set_free_rdbufs: what is promised and what is left fit again.
LEMMA ReservedKeeps ==
  ASSUME DevInv, NEW g \in Groups, NEW v \in Nat, GroupReadBuffersReservedStore(g, v)
  PROVE  DevInv'
<1>1. /\ v <= nrRdbufs + grp[g].reserved /\ grp' = [grp EXCEPT ![g].reserved = v]
      /\ nrRdbufs' = MaxRdbufs - Reserved(grp')
      /\ UNCHANGED <<configurable, plan, wq, engGroup, shadow, hw, hwEngines,
                     hwOn, devState, devBound, bound, enableMap, reinit>>
  BY DEF GroupReadBuffersReservedStore, Frame, regVars, lifeVars
<1>2. grp \in [Groups -> GroupRecord] /\ grp[g].reserved \in Nat
  BY DEF DevInv, TypeOK, GroupRecord
<1>3. /\ grp' \in [Groups -> GroupRecord]
      /\ Reserved(grp') = Reserved(grp) - grp[g].reserved + v
  BY <1>1, <1>2, ReservedUpdate
<1>4. Reserved(grp) \in Nat /\ Reserved(grp') \in Nat
  BY <1>2, <1>3, ReservedFacts
<1>5. RdbufsFit'
  <2>1. nrRdbufs \in 0 .. MaxRdbufs - Reserved(grp)
    BY DEF DevInv, RdbufsFit
  <2> QED BY <1>1, <1>2, <1>3, <1>4, <2>1, Sizes DEF RdbufsFit
<1>6. \A i \in Groups : grp'[i].wqs = grp[i].wqs /\ grp'[i].engines = grp[i].engines
  BY <1>1, <1>2 DEF GroupRecord
<1>7. TypeOK'
  BY <1>1, <1>3 DEF DevInv, TypeOK
<1>8. CountsAgree'
  BY <1>1, <1>6 DEF DevInv, CountsAgree
<1>9. EnabledRunnable' /\ RegistersMatch' /\ EnabledSized' /\ FaultHandling'
  BY <1>1 DEF DevInv, EnabledRunnable, RegistersMatch, EnabledSized, FaultHandling
<1> QED BY <1>5, <1>7, <1>9, <1>8 DEF DevInv

LEMMA AllowedKeeps ==
  ASSUME DevInv, NEW g \in Groups, NEW v \in Nat, GroupReadBuffersAllowedStore(g, v)
  PROVE  DevInv'
<1>1. /\ grp' = [grp EXCEPT ![g].allowed = v]
      /\ UNCHANGED <<configurable, plan, wq, engGroup, nrRdbufs, shadow, hw, hwEngines,
                     hwOn, devState, devBound, bound, enableMap, reinit>>
  BY DEF GroupReadBuffersAllowedStore, Frame, regVars, lifeVars
<1>2. grp \in [Groups -> GroupRecord]
  BY DEF DevInv, TypeOK
<1>3. /\ grp' \in [Groups -> GroupRecord]
      /\ \A i \in Groups : /\ grp'[i].wqs = grp[i].wqs /\ grp'[i].engines = grp[i].engines
                           /\ grp'[i].reserved = grp[i].reserved
  BY <1>1, <1>2 DEF GroupRecord
<1>4. Reserved(grp') = Reserved(grp)
  BY <1>3, ReservedSame
<1>5. TypeOK'
  BY <1>1, <1>3 DEF DevInv, TypeOK
<1>6. CountsAgree' /\ RdbufsFit'
  BY <1>1, <1>3, <1>4, ZenonT(40) DEF DevInv, CountsAgree, RdbufsFit
<1>7. EnabledRunnable' /\ RegistersMatch' /\ EnabledSized' /\ FaultHandling'
  BY <1>1 DEF DevInv, EnabledRunnable, RegistersMatch, EnabledSized, FaultHandling
<1> QED BY <1>5, <1>7, <1>6 DEF DevInv

-----------------------------------------------------------------------------
(* The drivers.                                                             *)

LEMMA CleanType ==
  ASSUME NEW a \in WqRecord
  PROVE  /\ CleanWq(a) \in WqRecord /\ CleanWq(a).group = a.group
         /\ CleanWq(a).state = "disabled" /\ ~CleanWq(a).bof
  BY DEF CleanWq, EmptyWq, WqRecord

LEMMA GroupRegistersType ==
  ASSUME TypeOK, NEW c
  PROVE  GroupRegisters(c) \in [Groups -> SUBSET Engines]
  BY DEF TypeOK, GroupRegisters

LEMMA DeviceProbeKeeps ==
  ASSUME DevInv, DeviceDrvProbe
  PROVE  DevInv'
<1> DEFINE c == BindConfig(wq, shadow, hw)
<1>1. TypeOK /\ wq \in [Wqs -> WqRecord] /\ shadow \in [Wqs -> RegRecord]
      /\ hw \in [Wqs -> RegRecord]
  BY DEF DevInv, TypeOK
<1>2. Configured(c, wq, shadow, hw)
  BY <1>1, BindConfigured
<1>3. hwEngines' \in [Groups -> SUBSET Engines]
  BY <1>1, GroupRegistersType DEF DeviceDrvProbe
<1>4. ~configurable \/ \A w \in Wqs : wq[w].state = "disabled"
  BY <1>1 DEF DevInv, EnabledRunnable, WqRecord, DeviceDrvProbe
<1>5. CASE /\ wq' = c.wq /\ shadow' = c.shadow /\ hw' = c.hw
           /\ UNCHANGED <<engGroup, grp, hwOn>>
           /\ devState' \in {"disabled", "enabled"} /\ devBound' \in BOOLEAN
           /\ UNCHANGED <<configurable, plan, nrRdbufs, bound, enableMap, reinit>>
  <2> HIDE DEF c
  <2>1. TypeOK'
    BY <1>1, <1>2, <1>3, <1>5 DEF TypeOK, Configured
  <2>2. \A w \in Wqs : SameBut(wq'[w], wq[w])
    BY <1>2, <1>5 DEF Configured
  <2>3. RdbufsFit' /\ CountsAgree'
    BY <1>1, <1>5, <2>2, BooksKept DEF SameBut, DevInv
  <2>4. ~configurable' \/ \A w \in Wqs : wq'[w].state = "disabled"
    BY <1>4, <1>5, <2>2 DEF SameBut
  <2>5. FaultHandling'
    BY <2>2 DEF DevInv, FaultHandling, SameBut
  <2> QED BY <2>1, <2>3, <2>4, <2>5, NothingRuns DEF DevInv
<1>6. CASE /\ hw' = c.hw /\ ClearState
           /\ UNCHANGED <<hwOn, devState, devBound>>
           /\ UNCHANGED <<configurable, plan, nrRdbufs, bound, enableMap, reinit>>
  <2> HIDE DEF c
  <2>1. /\ RdbufsFit' /\ CountsAgree' /\ FaultHandling'
        /\ ~configurable' \/ \A w \in Wqs : wq'[w].state = "disabled"
        /\ wq' \in [Wqs -> WqRecord] /\ shadow' \in [Wqs -> RegRecord]
        /\ grp' \in [Groups -> GroupRecord] /\ engGroup' \in [Engines -> Groups \cup {None}]
    BY <1>6, StateCleared
  <2>2. TypeOK'
    BY <1>1, <1>2, <1>3, <1>6, <2>1 DEF TypeOK, Configured
  <2> QED BY <2>1, <2>2, NothingRuns DEF DevInv
<1> HIDE DEF c
<1>7. /\ devState = "disabled" /\ ~devBound
      /\ \/ /\ c.ok /\ devState' = "enabled" /\ devBound' = TRUE
            /\ wq' = c.wq /\ shadow' = c.shadow /\ hw' = c.hw
            /\ UNCHANGED <<engGroup, grp, hwOn>>
         \/ /\ wq' = c.wq /\ shadow' = c.shadow /\ hw' = c.hw
            /\ UNCHANGED <<engGroup, grp, hwOn, devState, devBound>>
         \/ /\ c.ok /\ hw' = c.hw /\ ClearState
            /\ UNCHANGED <<hwOn, devState, devBound>>
      /\ UNCHANGED <<configurable, plan, nrRdbufs, bound, enableMap, reinit>>
  BY DEF DeviceDrvProbe, c
<1> QED BY <1>1, <1>5, <1>6, <1>7 DEF TypeOK

LEMMA ResetTypes ==
  ASSUME TypeOK, ResetDevice
  PROVE  /\ hwOn' = {} /\ hw' \in [Wqs -> RegRecord]
         /\ hwEngines' \in [Groups -> SUBSET Engines]
<1>1. EmptyReg \in RegRecord
  BY EmptyTypes
<1> QED BY <1>1 DEF TypeOK, ResetDevice

LEMMA DeviceRemoveKeeps ==
  ASSUME DevInv, DeviceDrvRemove
  PROVE  DevInv'
<1>1. /\ devBound' = FALSE
      /\ bound' = [w \in Wqs |-> IF wq[w].state = "enabled" THEN "none" ELSE bound[w]]
      /\ UNCHANGED <<configurable, plan, nrRdbufs, enableMap, reinit>>
  BY DEF DeviceDrvRemove
<1>2. bound' \in [Wqs -> {"none", "dmaengine", "user"}]
  BY <1>1 DEF DevInv, TypeOK
<1>3. CASE configurable
  <2>1. ClearState /\ ResetDevice /\ devState' = "disabled"
    BY <1>3 DEF DeviceDrvRemove
  <2>2. /\ RdbufsFit' /\ CountsAgree' /\ FaultHandling'
        /\ ~configurable' \/ \A w \in Wqs : wq'[w].state = "disabled"
        /\ wq' \in [Wqs -> WqRecord] /\ shadow' \in [Wqs -> RegRecord]
        /\ grp' \in [Groups -> GroupRecord] /\ engGroup' \in [Engines -> Groups \cup {None}]
    BY <1>1, <2>1, StateCleared
  <2>3. TypeOK'
    BY <1>1, <1>2, <2>1, <2>2, ResetTypes DEF DevInv, TypeOK
  <2> QED BY <2>2, <2>3, NothingRuns DEF DevInv
<1>4. CASE ~configurable
  <2>1. /\ wq' = [w \in Wqs |-> IF wq[w].state = "enabled" THEN CleanWq(wq[w]) ELSE wq[w]]
        /\ shadow' = [w \in Wqs |-> IF wq[w].state = "enabled" THEN EmptyReg ELSE shadow[w]]
        /\ hwOn' = {} /\ devState' = IF devState = "enabled" THEN "disabled" ELSE devState
        /\ UNCHANGED <<grp, engGroup, hw, hwEngines>>
    BY <1>4 DEF DeviceDrvRemove
  <2>2. \A w \in Wqs : /\ wq'[w] \in WqRecord /\ wq'[w].group = wq[w].group
                       /\ wq'[w].bof => ~wq'[w].prs
    BY <2>1, CleanType DEF DevInv, TypeOK, FaultHandling
  <2>3. wq' \in [Wqs -> WqRecord]
    <3>1. wq' = [w \in Wqs |-> wq'[w]]
      BY <2>1
    <3> QED BY <2>2, <3>1
  <2>4. shadow' \in [Wqs -> RegRecord]
    BY <2>1, EmptyTypes DEF DevInv, TypeOK
  <2>5. TypeOK'
    BY <1>1, <1>2, <2>1, <2>3, <2>4 DEF DevInv, TypeOK
  <2>6. RdbufsFit' /\ CountsAgree'
    BY <1>1, <2>1, <2>2, BooksKept DEF DevInv
  <2>7. FaultHandling' /\ ~configurable'
    BY <1>1, <1>4, <2>2 DEF FaultHandling
  <2> QED BY <2>5, <2>6, <2>7, NothingRuns DEF DevInv
<1> QED BY <1>3, <1>4 DEF DevInv, TypeOK

LEMMA WqRemoveKeeps ==
  ASSUME DevInv, NEW w \in Wqs, WqDrvRemove(w)
  PROVE  DevInv'
<1>1. /\ bound' = [bound EXCEPT ![w] = "none"]
      /\ UNCHANGED <<configurable, plan, engGroup, grp, nrRdbufs, devState, devBound,
                     enableMap, hwEngines, reinit>>
  BY DEF WqDrvRemove
<1>2. /\ wq \in [Wqs -> WqRecord] /\ bound \in [Wqs -> {"none", "dmaengine", "user"}]
      /\ shadow \in [Wqs -> RegRecord] /\ hw \in [Wqs -> RegRecord]
  BY DEF DevInv, TypeOK
<1>3. bound' \in [Wqs -> {"none", "dmaengine", "user"}] /\ \A v \in Wqs : v # w => bound'[v] = bound[v]
  BY <1>1, <1>2
<1>4. /\ wq' \in [Wqs -> WqRecord] /\ shadow' \in [Wqs -> RegRecord]
      /\ hw' \in [Wqs -> RegRecord] /\ hwOn' \in SUBSET Wqs
      /\ wq'[w].group = wq[w].group /\ wq'[w].state = "disabled"
      /\ wq'[w].bof => ~wq'[w].prs
      /\ \A v \in Wqs : v # w => /\ wq'[v] = wq[v] /\ hw'[v] = hw[v]
                                 /\ (v \in hwOn => v \in hwOn')
  <2>1. CASE wq[w].state = "enabled"
    <3>1. /\ wq' = [wq EXCEPT ![w] = CleanWq(wq[w])]
          /\ shadow' = [shadow EXCEPT ![w] = EmptyReg]
          /\ hw' = [hw EXCEPT ![w] = IF configurable THEN EmptyReg ELSE @]
          /\ hwOn' = hwOn \ {w}
      BY <2>1 DEF WqDrvRemove
    <3>2. CleanWq(wq[w]) \in WqRecord /\ CleanWq(wq[w]).group = wq[w].group
          /\ CleanWq(wq[w]).state = "disabled" /\ ~CleanWq(wq[w]).bof /\ EmptyReg \in RegRecord
      BY <1>2, CleanType, EmptyTypes
    <3>3. wq'[w] = CleanWq(wq[w])
      BY <1>2, <3>1
    <3> QED BY <1>2, <3>1, <3>2, <3>3 DEF DevInv, TypeOK
  <2>2. CASE wq[w].state # "enabled"
    <3>1. wq' = [wq EXCEPT ![w].type = "none"] /\ UNCHANGED <<shadow, hw, hwOn>>
      BY <2>2 DEF WqDrvRemove
    <3>2. [wq[w] EXCEPT !.type = "none"] \in WqRecord
      BY <1>2 DEF WqRecord
    <3>3. wq' \in [Wqs -> WqRecord] /\ \A v \in Wqs : v # w => wq'[v] = wq[v]
      BY <1>2, <3>1, <3>2
    <3>4. /\ wq'[w].group = wq[w].group /\ wq'[w].state = "disabled"
          /\ wq'[w].bof = wq[w].bof /\ wq'[w].prs = wq[w].prs
      BY <1>2, <2>2, <3>1 DEF WqRecord
    <3> QED BY <1>2, <3>1, <3>3, <3>4 DEF DevInv, TypeOK, FaultHandling
  <2> QED BY <2>1, <2>2
<1>5. TypeOK'
  BY <1>1, <1>3, <1>4 DEF DevInv, TypeOK
<1>6. RdbufsFit' /\ CountsAgree'
  BY <1>1, <1>4, BooksKept DEF DevInv
<1>7. EnabledRunnable' /\ RegistersMatch' /\ EnabledSized' /\ FaultHandling'
  BY <1>1, <1>3, <1>4 DEF DevInv, EnabledRunnable, RegistersMatch, EnabledSized, FaultHandling
<1> QED BY <1>5, <1>6, <1>7 DEF DevInv

LEMMA PasidType ==
  ASSUME NEW q, NEW w \in Wqs, NEW r \in [Wqs -> RegRecord]
  PROVE  /\ WithPasid(q, w, r) \in [Wqs -> RegRecord]
         /\ \A v \in Wqs : v # w => WithPasid(q, w, r)[v] = r[v]
<1>1. [r[w] EXCEPT !.pasid = TRUE] \in RegRecord
  BY DEF RegRecord
<1> QED BY <1>1 DEF WithPasid

\* The register r is what the attributes a say.
Matches(r, a) ==
  /\ r.size = a.size /\ r.thr = a.thr /\ r.prs = a.prs /\ r.tuned = a.tuned
  /\ a.ded => r.mode
  /\ a.bof => r.bof
  /\ a.size # 0 \/ DefaultDepth = 0

\* A configuration write leaves the registers of a running queue as its
\* attributes say, also when it stops at that queue.
LEMMA RunningKept ==
  ASSUME TypeOK, NEW q \in [Wqs -> WqRecord], NEW sh \in [Wqs -> RegRecord],
         NEW h \in [Wqs -> RegRecord], NEW c, Configured(c, q, sh, h), NEW v \in Wqs,
         Matches(h[v], q[v])
  PROVE  Matches(c.hw[v], c.wq[v])
<1>1. /\ SameBut(c.wq[v], q[v])
      /\ c.wq[v].size = q[v].size \/ (q[v].size = 0 /\ c.wq[v].size = DefaultDepth)
      /\ c.wq[v] \in WqRecord /\ sh[v] \in RegRecord /\ h[v] \in RegRecord
  BY DEF Configured
<1>2. CASE c.hw[v] = Merged(c.wq[v], sh[v], h[v])
  BY <1>1, <1>2, MergedType DEF SameBut, Matches
<1>3. CASE c.hw[v] = h[v]
  BY <1>1, <1>3 DEF SameBut, Matches
<1> QED BY <1>2, <1>3 DEF Configured

LEMMA WqProbeKeeps ==
  ASSUME DevInv, NEW w \in Wqs, NEW drv \in {"dmaengine", "user"}, WqDrvProbe(w, drv)
  PROVE  /\ DevInv'
         /\ bound'[w] # "none" =>
               /\ bound'[w] = drv /\ wq'[w].type = TypeOf(drv)
               /\ DriverNameMatch(wq'[w].drv, drv)
         /\ bound[w] = "none" /\ UNCHANGED configurable
<1> DEFINE typed == [wq EXCEPT ![w].type = TypeOf(drv)]
           sh == WithPasid(typed, w, shadow)
           h == WithPasid(typed, w, hw)
           c == BindConfig(typed, sh, h)
           untyped(q) == [q EXCEPT ![w].type = "none"]
<1>1. /\ devState = "enabled" /\ bound[w] = "none"
      /\ \/ /\ wq' \in {wq, untyped(wq)} /\ UNCHANGED <<regVars, bound, enableMap>>
         \/ /\ wq' = untyped(c.wq) /\ shadow' = c.shadow /\ hw' = c.hw
            /\ hwEngines' = GroupRegisters(c)
            /\ enableMap' \in {enableMap, enableMap \ {w}}
            /\ UNCHANGED <<bound, hwOn>>
         \/ /\ wq' = [c.wq EXCEPT ![w] = CleanWq(c.wq[w])]
            /\ shadow' = [c.shadow EXCEPT ![w] = EmptyReg]
            /\ hw' = [c.hw EXCEPT ![w] = IF configurable THEN EmptyReg ELSE @]
            /\ hwEngines' = GroupRegisters(c)
            /\ enableMap' = enableMap \cup {w}
            /\ UNCHANGED <<bound, hwOn>>
         \/ /\ Enableable(typed, w) /\ c.ok /\ DriverNameMatch(wq[w].drv, drv)
            /\ wq' = [c.wq EXCEPT ![w].state = "enabled"]
            /\ shadow' = c.shadow /\ hw' = c.hw /\ hwEngines' = GroupRegisters(c)
            /\ hwOn' = hwOn \cup {w} /\ enableMap' = enableMap \cup {w}
            /\ bound' = [bound EXCEPT ![w] = drv]
      /\ UNCHANGED <<configurable, plan, engGroup, grp, nrRdbufs, devState, devBound, reinit>>
  BY DEF WqDrvProbe
<1>2. /\ TypeOK /\ wq \in [Wqs -> WqRecord] /\ bound \in [Wqs -> {"none", "dmaengine", "user"}]
      /\ shadow \in [Wqs -> RegRecord] /\ hw \in [Wqs -> RegRecord]
      /\ hwOn \subseteq Wqs /\ enableMap \subseteq Wqs
  BY DEF DevInv, TypeOK
<1>3. TypeOf(drv) \in {"kernel", "user"}
  BY DEF TypeOf
<1>4. /\ typed \in [Wqs -> WqRecord] /\ typed[w].type = TypeOf(drv)
      /\ typed[w].bof = wq[w].bof /\ typed[w].prs = wq[w].prs
      /\ typed[w].group = wq[w].group /\ typed[w].drv = wq[w].drv
      /\ \A v \in Wqs : v # w => typed[v] = wq[v]
  <2>1. [wq[w] EXCEPT !.type = TypeOf(drv)] \in WqRecord
    BY <1>2, <1>3 DEF WqRecord
  <2>2. typed = [wq EXCEPT ![w] = [wq[w] EXCEPT !.type = TypeOf(drv)]]
    OBVIOUS
  <2>3. typed \in [Wqs -> WqRecord] /\ \A v \in Wqs : v # w => typed[v] = wq[v]
    BY <1>2, <2>1, <2>2
  <2>4. typed[w] = [wq[w] EXCEPT !.type = TypeOf(drv)]
    BY <1>2
  <2> HIDE DEF typed
  <2> QED BY <1>2, <2>3, <2>4 DEF WqRecord
<1> HIDE DEF typed
<1>5. /\ sh \in [Wqs -> RegRecord] /\ h \in [Wqs -> RegRecord]
      /\ \A v \in Wqs : v # w => h[v] = hw[v]
  BY <1>2, PasidType
<1> HIDE DEF sh, h
<1>6. /\ Configured(c, typed, sh, h)
      /\ configurable /\ c.ok /\ typed[w].group # None =>
              /\ c.hw[w] = Merged(c.wq[w], sh[w], h[w])
              /\ typed[w].type # "none" => c.wq[w].size # 0 \/ DefaultDepth = 0
  BY <1>2, <1>4, <1>5, BindConfigured
<1>7. GroupRegisters(c) \in [Groups -> SUBSET Engines]
  BY <1>2, GroupRegistersType
<1> HIDE DEF c
<1>8. configurable => wq[w].state = "disabled"
  BY <1>1, <1>2 DEF DevInv, EnabledRunnable, WqRecord
<1>9. /\ c.wq \in [Wqs -> WqRecord] /\ c.shadow \in [Wqs -> RegRecord]
      /\ c.hw \in [Wqs -> RegRecord] /\ \A v \in Wqs : SameBut(c.wq[v], typed[v])
  BY <1>6 DEF Configured
\* The other queues.
<1>10. ASSUME NEW v \in Wqs, v # w, configurable, wq[v].state = "enabled"
       PROVE  Matches(c.hw[v], c.wq[v])
  <2>1. typed[v] = wq[v] /\ h[v] = hw[v]
    BY <1>4, <1>5, <1>10
  <2>2. Matches(hw[v], wq[v])
    BY <1>1, <1>10 DEF DevInv, RegistersMatch, EnabledSized, Matches
  <2> QED BY <1>2, <1>4, <1>5, <1>6, <2>1, <2>2, RunningKept
<1>11. \A v \in Wqs : v # w => SameBut(c.wq[v], wq[v])
  BY <1>4, <1>9
<1>12. c.wq[w].group = wq[w].group /\ (c.wq[w].bof => ~c.wq[w].prs)
       /\ c.wq[w].state = typed[w].state /\ c.wq[w].type = TypeOf(drv)
  BY <1>4, <1>9 DEF SameBut, DevInv, FaultHandling
\* What every outcome has in common.
<1>13. ASSUME /\ wq' \in [Wqs -> WqRecord] /\ shadow' \in [Wqs -> RegRecord]
              /\ hw' \in [Wqs -> RegRecord] /\ hwEngines' \in [Groups -> SUBSET Engines]
              /\ hwOn' \subseteq Wqs /\ enableMap' \subseteq Wqs
              /\ bound' \in [Wqs -> {"none", "dmaengine", "user"}],
              \A v \in Wqs : v # w =>
                 /\ SameBut(wq'[v], wq[v]) /\ bound'[v] = bound[v]
                 /\ (v \in hwOn => v \in hwOn') /\ (v \in enableMap => v \in enableMap')
                 /\ configurable /\ wq[v].state = "enabled" => Matches(hw'[v], wq'[v]),
              wq'[w].group = wq[w].group, wq'[w].bof => ~wq'[w].prs,
              configurable /\ wq'[w].state = "enabled" =>
                 /\ wq'[w].group # None /\ wq'[w].named /\ bound'[w] # "none"
                 /\ ~wq'[w].ded => wq'[w].thr > 0
                 /\ w \in hwOn' /\ w \in enableMap' /\ Matches(hw'[w], wq'[w])
       PROVE  DevInv'
  <2>1. TypeOK'
    BY <1>1, <1>2, <1>13 DEF TypeOK
  <2>2. RdbufsFit' /\ CountsAgree'
    BY <1>1, <1>13, BooksKept DEF DevInv, SameBut
  <2>3. FaultHandling'
    BY <1>13 DEF DevInv, FaultHandling, SameBut
  <2>4. EnabledRunnable'
    BY <1>1, <1>13 DEF DevInv, EnabledRunnable, SameBut
  <2>5. RegistersMatch' /\ EnabledSized'
    BY <1>1, <1>13 DEF RegistersMatch, EnabledSized, SameBut, Matches
  <2> QED BY <2>1, <2>2, <2>3, <2>4, <2>5 DEF DevInv
<1>14. CASE wq' \in {wq, untyped(wq)} /\ UNCHANGED <<regVars, bound, enableMap>>
  <2>1. [wq[w] EXCEPT !.type = "none"] \in WqRecord
    BY <1>2 DEF WqRecord
  <2>2. wq' \in [Wqs -> WqRecord] /\ \A v \in Wqs : v # w => wq'[v] = wq[v]
    BY <1>2, <1>14, <2>1
  <2>3. /\ wq'[w].group = wq[w].group /\ wq'[w].state = wq[w].state
        /\ wq'[w].bof = wq[w].bof /\ wq'[w].prs = wq[w].prs
    BY <1>2, <1>14 DEF WqRecord
  <2>4. \A v \in Wqs : configurable /\ wq[v].state = "enabled" => Matches(hw[v], wq[v])
    BY <1>1 DEF DevInv, RegistersMatch, EnabledSized, Matches
  <2>5. \A v \in Wqs : v # w => SameBut(wq'[v], wq[v])
    BY <2>2 DEF SameBut
  <2>6. UNCHANGED <<shadow, hw, hwEngines, hwOn, bound, enableMap>>
    BY <1>14 DEF regVars
  <2>7. hwEngines \in [Groups -> SUBSET Engines]
    BY <1>2 DEF TypeOK
  <2>8. wq'[w].bof => ~wq'[w].prs
    BY <2>3 DEF DevInv, FaultHandling
  <2>9. DevInv'
    BY <1>2, <1>8, <1>13, <2>2, <2>3, <2>4, <2>5, <2>6, <2>7, <2>8
  <2> QED BY <1>1, <2>6, <2>9
<1>15. CASE /\ wq' = untyped(c.wq) /\ shadow' = c.shadow /\ hw' = c.hw
            /\ hwEngines' = GroupRegisters(c)
            /\ enableMap' \in {enableMap, enableMap \ {w}}
            /\ UNCHANGED <<bound, hwOn>>
  <2>1. [c.wq[w] EXCEPT !.type = "none"] \in WqRecord
    BY <1>9 DEF WqRecord
  <2>2. wq' \in [Wqs -> WqRecord] /\ \A v \in Wqs : v # w => wq'[v] = c.wq[v]
    BY <1>9, <1>15, <2>1
  <2>3. /\ wq'[w].group = wq[w].group /\ wq'[w].state = typed[w].state
        /\ wq'[w].bof => ~wq'[w].prs
    BY <1>9, <1>12, <1>15 DEF WqRecord
  <2>4. typed[w].state = wq[w].state
    BY <1>2 DEF typed, WqRecord
  <2>5. DevInv'
    BY <1>2, <1>7, <1>8, <1>9, <1>10, <1>11, <1>13, <1>15, <2>2, <2>3, <2>4
  <2> QED BY <1>1, <1>15, <2>5
<1>16. CASE /\ wq' = [c.wq EXCEPT ![w] = CleanWq(c.wq[w])]
            /\ shadow' = [c.shadow EXCEPT ![w] = EmptyReg]
            /\ hw' = [c.hw EXCEPT ![w] = IF configurable THEN EmptyReg ELSE @]
            /\ hwEngines' = GroupRegisters(c)
            /\ enableMap' = enableMap \cup {w}
            /\ UNCHANGED <<bound, hwOn>>
  <2>1. /\ CleanWq(c.wq[w]) \in WqRecord /\ CleanWq(c.wq[w]).group = wq[w].group
        /\ CleanWq(c.wq[w]).state = "disabled" /\ ~CleanWq(c.wq[w]).bof
        /\ EmptyReg \in RegRecord
    BY <1>9, <1>12, CleanType, EmptyTypes
  <2>2. /\ wq' \in [Wqs -> WqRecord] /\ shadow' \in [Wqs -> RegRecord]
        /\ hw' \in [Wqs -> RegRecord] /\ wq'[w] = CleanWq(c.wq[w])
        /\ \A v \in Wqs : v # w => wq'[v] = c.wq[v] /\ hw'[v] = c.hw[v]
    BY <1>9, <1>16, <2>1
  <2>3. DevInv'
    BY <1>2, <1>7, <1>10, <1>11, <1>13, <1>16, <2>1, <2>2
  <2> QED BY <1>1, <1>16, <2>3
<1>17. CASE /\ Enableable(typed, w) /\ c.ok /\ DriverNameMatch(wq[w].drv, drv)
            /\ wq' = [c.wq EXCEPT ![w].state = "enabled"]
            /\ shadow' = c.shadow /\ hw' = c.hw /\ hwEngines' = GroupRegisters(c)
            /\ hwOn' = hwOn \cup {w} /\ enableMap' = enableMap \cup {w}
            /\ bound' = [bound EXCEPT ![w] = drv]
  <2>1. [c.wq[w] EXCEPT !.state = "enabled"] \in WqRecord
    BY <1>9 DEF WqRecord
  <2>2. wq' \in [Wqs -> WqRecord] /\ \A v \in Wqs : v # w => wq'[v] = c.wq[v]
    BY <1>9, <1>17, <2>1
  <2>3. /\ SameBut(wq'[w], [typed[w] EXCEPT !.state = "enabled"])
        /\ wq'[w].size = c.wq[w].size
    <3>1. SameBut(c.wq[w], typed[w])
      BY <1>9
    <3>2. wq'[w] = [c.wq[w] EXCEPT !.state = "enabled"]
      BY <1>9, <1>17
    <3>3. c.wq[w] \in WqRecord /\ typed[w] \in WqRecord
      BY <1>4, <1>9
    <3> QED BY <3>1, <3>2, <3>3 DEF SameBut, WqRecord
  <2>4. /\ wq'[w].group = typed[w].group /\ wq'[w].type = TypeOf(drv)
        /\ wq'[w].bof => ~wq'[w].prs
        /\ wq'[w].named = typed[w].named /\ wq'[w].ded = typed[w].ded
        /\ wq'[w].thr = typed[w].thr /\ wq'[w].drv = wq[w].drv
    <3>1. typed[w] \in WqRecord /\ (typed[w].bof => ~typed[w].prs)
      BY <1>4 DEF DevInv, FaultHandling
    <3> QED BY <1>4, <2>3, <3>1 DEF SameBut, WqRecord
  <2>5. typed[w].group # None /\ typed[w].named /\ (typed[w].ded \/ typed[w].thr > 0)
    BY <1>17 DEF Enableable
  <2>6. configurable => Matches(hw'[w], wq'[w])
    <3>1. SUFFICES ASSUME configurable PROVE Matches(hw'[w], wq'[w])
      OBVIOUS
    <3>2. /\ c.hw[w] = Merged(c.wq[w], sh[w], h[w])
          /\ c.wq[w].size # 0 \/ DefaultDepth = 0
      BY <1>3, <1>4, <1>6, <1>17, <2>5, <3>1
    <3>3. /\ c.wq[w] \in WqRecord /\ sh[w] \in RegRecord /\ h[w] \in RegRecord
          /\ wq'[w] = [c.wq[w] EXCEPT !.state = "enabled"]
      BY <1>5, <1>9, <1>17
    <3>4. /\ wq'[w].size = c.wq[w].size /\ wq'[w].thr = c.wq[w].thr
          /\ wq'[w].prs = c.wq[w].prs /\ wq'[w].tuned = c.wq[w].tuned
          /\ wq'[w].ded = c.wq[w].ded /\ wq'[w].bof = c.wq[w].bof
      BY <3>3 DEF WqRecord
    <3> QED BY <1>12, <1>17, <3>2, <3>3, <3>4, MergedType DEF Matches
  <2>7. bound' \in [Wqs -> {"none", "dmaengine", "user"}] /\ bound'[w] # "none"
        /\ \A v \in Wqs : v # w => bound'[v] = bound[v]
    BY <1>2, <1>17
  <2>8. hwOn' \subseteq Wqs /\ enableMap' \subseteq Wqs /\ w \in hwOn' /\ w \in enableMap'
    BY <1>2, <1>17
  <2>9. bound'[w] = drv
    BY <1>2, <1>17
  <2>10. DevInv'
    BY <1>4, <1>7, <1>9, <1>10, <1>11, <1>13, <1>17, <2>2, <2>4, <2>5, <2>6, <2>7, <2>8
  <2> QED BY <1>1, <1>17, <2>4, <2>10, <2>9
<1> QED BY <1>1, <1>14, <1>15, <1>16, <1>17, SMTT(30)

-----------------------------------------------------------------------------
(* Halts.                                                                   *)

LEMMA HaltSoftwareKeeps ==
  ASSUME DevInv, MiscHaltSoftware
  PROVE  DevInv' /\ UNCHANGED <<wq, bound, configurable>>
<1>1. /\ devState' = "halted" /\ reinit' = TRUE /\ hwOn' = {}
      /\ UNCHANGED <<configurable, plan, wq, engGroup, grp, nrRdbufs, shadow, hw, hwEngines,
                     devBound, bound, enableMap>>
  BY DEF MiscHaltSoftware, cfgVars
<1>2. TypeOK'
  BY <1>1 DEF DevInv, TypeOK
<1>3. RdbufsFit' /\ CountsAgree'
  BY <1>1, BooksKept DEF DevInv
<1>4. EnabledRunnable' /\ RegistersMatch' /\ EnabledSized' /\ FaultHandling'
  BY <1>1 DEF DevInv, EnabledRunnable, RegistersMatch, EnabledSized, FaultHandling
<1> QED BY <1>1, <1>2, <1>3, <1>4 DEF DevInv

LEMMA HaltOtherKeeps ==
  ASSUME DevInv, MiscHaltOther
  PROVE  DevInv' /\ \A w \in Wqs : wq'[w].drv = wq[w].drv
<1>1. /\ devState' = "disabled" /\ hwOn' = {} /\ ClearState
      /\ UNCHANGED <<configurable, plan, nrRdbufs, hw, hwEngines, devBound, bound, enableMap,
                     reinit>>
  BY DEF MiscHaltOther
<1>2. /\ RdbufsFit' /\ CountsAgree' /\ FaultHandling'
      /\ ~configurable' \/ \A w \in Wqs : wq'[w].state = "disabled"
      /\ wq' \in [Wqs -> WqRecord] /\ shadow' \in [Wqs -> RegRecord]
      /\ grp' \in [Groups -> GroupRecord] /\ engGroup' \in [Engines -> Groups \cup {None}]
      /\ \A w \in Wqs : wq'[w].drv = wq[w].drv
  BY <1>1, StateCleared
<1>3. TypeOK'
  BY <1>1, <1>2 DEF DevInv, TypeOK
<1> QED BY <1>2, <1>3, NothingRuns DEF DevInv

\* idxd_device_reinit; a queue it enables again keeps its type.
LEMMA ReinitKeeps ==
  ASSUME DevInv, DeviceReinit
  PROVE  /\ DevInv' /\ UNCHANGED <<configurable, bound>>
         /\ \A w \in Wqs : wq'[w].drv = wq[w].drv
         /\ ~configurable => \A w \in Wqs : wq'[w].type = wq[w].type
<1>1. reinit' = FALSE /\ UNCHANGED <<configurable, plan, nrRdbufs, devBound, bound>>
  BY DEF DeviceReinit
<1>2. CASE configurable
  <2>1. ClearState /\ ResetDevice /\ devState' = "disabled" /\ UNCHANGED enableMap
    BY <1>2 DEF DeviceReinit
  <2>2. /\ RdbufsFit' /\ CountsAgree' /\ FaultHandling'
        /\ ~configurable' \/ \A w \in Wqs : wq'[w].state = "disabled"
        /\ wq' \in [Wqs -> WqRecord] /\ shadow' \in [Wqs -> RegRecord]
        /\ grp' \in [Groups -> GroupRecord] /\ engGroup' \in [Engines -> Groups \cup {None}]
        /\ \A w \in Wqs : wq'[w].drv = wq[w].drv
    BY <1>1, <2>1, StateCleared
  <2>3. TypeOK'
    BY <1>1, <2>1, <2>2, ResetTypes DEF DevInv, TypeOK
  <2> QED BY <1>1, <1>2, <2>2, <2>3, NothingRuns DEF DevInv
<1>3. CASE ~configurable
  <2> DEFINE c == DeviceConfig(wq, shadow, hw)
             again == {w \in enableMap : wq[w].state = "disabled"}
  <2>1. /\ shadow' = c.shadow /\ UNCHANGED <<engGroup, grp, hw, hwEngines>>
        /\ \/ devState' = "disabled" /\ hwOn' = {} /\ UNCHANGED <<wq, enableMap>>
           \/ /\ devState' = "enabled"
              /\ \E on \in SUBSET again :
                    /\ wq' = [w \in Wqs |-> IF w \in on
                               THEN [wq[w] EXCEPT !.state = "enabled"] ELSE wq[w]]
                    /\ enableMap' = enableMap \ (again \ on)
                    /\ hwOn' = on
    BY <1>3 DEF DeviceReinit
  <2>2. shadow' \in [Wqs -> RegRecord]
    <3>1. TypeOK /\ wq \in [Wqs -> WqRecord] /\ shadow \in [Wqs -> RegRecord]
          /\ hw \in [Wqs -> RegRecord]
      BY DEF DevInv, TypeOK
    <3>2. Configured(c, wq, shadow, hw)
      BY <3>1, DeviceConfigured
    <3> QED BY <2>1, <3>2 DEF Configured
  <2> HIDE DEF c
  <2>3. wq \in [Wqs -> WqRecord] /\ enableMap \subseteq Wqs
    BY DEF DevInv, TypeOK
  <2>4. /\ wq' \in [Wqs -> WqRecord] /\ hwOn' \subseteq Wqs /\ enableMap' \subseteq Wqs
        /\ devState' \in {"disabled", "enabled"}
        /\ \A w \in Wqs : /\ wq'[w].type = wq[w].type /\ wq'[w].group = wq[w].group
                          /\ wq'[w].bof = wq[w].bof /\ wq'[w].prs = wq[w].prs
                          /\ wq'[w].drv = wq[w].drv
    <3>1. CASE devState' = "disabled" /\ hwOn' = {} /\ UNCHANGED <<wq, enableMap>>
      BY <2>3, <3>1
    <3>2. ASSUME NEW on \in SUBSET again,
                 wq' = [w \in Wqs |-> IF w \in on
                               THEN [wq[w] EXCEPT !.state = "enabled"] ELSE wq[w]]
          PROVE  /\ wq' \in [Wqs -> WqRecord]
                 /\ \A w \in Wqs : /\ wq'[w].type = wq[w].type /\ wq'[w].group = wq[w].group
                                   /\ wq'[w].bof = wq[w].bof /\ wq'[w].prs = wq[w].prs
                                   /\ wq'[w].drv = wq[w].drv
      <4>1. \A w \in Wqs : [wq[w] EXCEPT !.state = "enabled"] \in WqRecord
        BY <2>3 DEF WqRecord
      <4>2. wq' \in [Wqs -> WqRecord]
        BY <2>3, <3>2, <4>1
      <4>3. ASSUME NEW w \in Wqs
            PROVE  /\ wq'[w].type = wq[w].type /\ wq'[w].group = wq[w].group
                   /\ wq'[w].bof = wq[w].bof /\ wq'[w].prs = wq[w].prs
                   /\ wq'[w].drv = wq[w].drv
        <5>1. wq'[w] = wq[w] \/ wq'[w] = [wq[w] EXCEPT !.state = "enabled"]
          BY <3>2
        <5> QED BY <2>3, <5>1 DEF WqRecord
      <4> QED BY <4>2, <4>3
    <3>3. again \subseteq Wqs
      BY <2>3
    <3> QED BY <2>1, <2>3, <3>1, <3>2, <3>3
  <2>5. TypeOK'
    BY <1>1, <2>1, <2>2, <2>4 DEF DevInv, TypeOK
  <2>6. RdbufsFit' /\ CountsAgree'
    BY <1>1, <2>1, <2>4, BooksKept DEF DevInv
  <2>7. FaultHandling' /\ ~configurable'
    BY <1>1, <1>3, <2>4 DEF DevInv, FaultHandling
  <2> QED BY <1>1, <2>4, <2>5, <2>6, <2>7, NothingRuns DEF DevInv
<1> QED BY <1>2, <1>3 DEF DevInv, TypeOK

-----------------------------------------------------------------------------
(* The administrator, and the theorems.                                     *)

LEMMA CallsDiffer == \A w : Call("enabled", w) # NoCall /\ Call("disabled", w) # NoCall
  BY DEF Call, NoCall

LEMMA NoCallPending ==
  ASSUME \A w \in Wqs : pending' # Call("enabled", w)
  PROVE  CallPending'
  BY DEF CallPending

LEMMA InitConfig == AccfgInit => ConfigInv
<1> SUFFICES ASSUME AccfgInit PROVE ConfigInv
  OBVIOUS
<1>1. /\ configurable \in BOOLEAN /\ plan \in Plans
      /\ devState = "disabled" /\ devBound = FALSE /\ reinit = FALSE
      /\ wq = [w \in Wqs |-> IF configurable THEN EmptyWq ELSE LoadedWq(w)]
      /\ engGroup = [e \in Engines |-> IF ~configurable /\ e = 1 THEN 1 ELSE None]
      /\ bound = [w \in Wqs |-> "none"] /\ enableMap = {} /\ hwOn = {}
      /\ grp = [g \in Groups |-> EmptyGroup] /\ nrRdbufs = MaxRdbufs
      /\ hw = [w \in Wqs |-> IF configurable THEN EmptyReg ELSE FirmwareReg(w)]
      /\ shadow = hw
      /\ hwEngines = [g \in Groups |-> {e \in Engines : engGroup[e] = g}]
      /\ cacheType = [w \in Wqs |-> wq[w].type] /\ pending = NoCall
      /\ cacheDrv = [w \in Wqs |-> wq[w].drv]
  BY DEF AccfgInit, Init, AddWqs
<1>2. \A w \in Wqs : FirmwareReg(w) \in RegRecord
  BY Sizes DEF FirmwareReg, EmptyReg, RegRecord
<1>3. \A w \in Wqs : /\ LoadedWq(w) \in WqRecord /\ LoadedWq(w).state = "disabled"
                     /\ ~LoadedWq(w).bof
  BY Sizes DEF LoadedWq, EmptyWq, FirmwareReg, EmptyReg, WqRecord, DriverNames
<1>4. wq \in [Wqs -> WqRecord] /\ \A w \in Wqs : wq[w].state = "disabled" /\ ~wq[w].bof
  BY <1>1, <1>3, EmptyTypes DEF EmptyWq
<1>5. hw \in [Wqs -> RegRecord] /\ grp \in [Groups -> GroupRecord]
      /\ engGroup \in [Engines -> Groups \cup {None}]
  BY <1>1, <1>2, EmptyTypes, Sizes
<1>6. TypeOK
  BY <1>1, <1>4, <1>5 DEF TypeOK
<1>7. RdbufsFit
  <2>1. \A g \in Groups : grp[g].reserved = 0
    BY <1>1 DEF EmptyGroup
  <2>2. Reserved(grp) = 0
    BY <1>5, <2>1, ReservedFacts
  <2> QED BY <1>1, <2>2, Sizes DEF RdbufsFit
<1>8. CountsAgree
  <2>1. ASSUME configurable, NEW g \in Groups
        PROVE  /\ grp[g].wqs = Cardinality({w \in Wqs : wq[w].group = g})
               /\ grp[g].engines = Cardinality({e \in Engines : engGroup[e] = g})
    <3>1. {w \in Wqs : wq[w].group = g} = {} /\ {e \in Engines : engGroup[e] = g} = {}
      BY <1>1, <2>1, Sizes DEF EmptyWq
    <3>2. grp[g].wqs = 0 /\ grp[g].engines = 0
      BY <1>1 DEF EmptyGroup
    <3> QED BY <3>1, <3>2, FS_EmptySet
  <2> QED BY <2>1 DEF CountsAgree
<1>9. EnabledRunnable /\ RegistersMatch /\ EnabledSized /\ FaultHandling
  BY <1>4 DEF EnabledRunnable, RegistersMatch, EnabledSized, FaultHandling
<1>10. CacheTypeOK
  BY <1>1, <1>4 DEF CacheTypeOK, NoCall, WqRecord
<1>11. CallPending
  BY <1>1, CallsDiffer DEF CallPending
<1> QED BY <1>6, <1>7, <1>8, <1>9, <1>10, <1>11 DEF ConfigInv, DevInv

LEMMA SettersKeep ==
  ASSUME ConfigInv,
         \/ \E w \in Wqs : \/ AccfgWqSetField(w) \/ AccfgWqSetLongField(w)
                           \/ AccfgWqSetStrField(w) \/ AccfgWqSetStrType(w)
                           \/ AccfgWqSetOpConfig(w)
                           \/ AccfgWqSetStrDriverName(w) \/ EchoDriverName(w)
         \/ \E g \in Groups : AccfgGroupSetField(g)
         \/ \E e \in Engines : AccfgEngineSetField(e)
  PROVE  ConfigInv'
<1>1. DevInv /\ TypeOK /\ CacheTypeOK
  BY DEF ConfigInv, DevInv
<1>2. pending = NoCall /\ UNCHANGED pending
  BY DEF AccfgWqSetField, AccfgWqSetLongField, AccfgWqSetStrField, AccfgWqSetStrType,
         AccfgWqSetOpConfig, AccfgWqSetStrDriverName, EchoDriverName, AccfgGroupSetField, AccfgEngineSetField, SetterFrame, libVars
<1>3. CallPending'
  BY <1>2, CallsDiffer, NoCallPending
<1>4. ASSUME DevInv', UNCHANGED <<cacheType, cacheDrv>> PROVE ConfigInv'
  BY <1>1, <1>2, <1>3, <1>4 DEF ConfigInv, CacheTypeOK
<1>5. ASSUME NEW w \in Wqs, AccfgWqSetField(w) PROVE ConfigInv'
  <2>1. UNCHANGED <<cacheType, cacheDrv>>
    BY <1>5 DEF AccfgWqSetField, SetterFrame, libVars
  <2>2. /\ plan.size[w] \subseteq Nat /\ plan.thr[w] \subseteq Nat
        /\ plan.group[w] \subseteq Groups \cup {None}
        /\ plan.bof[w] \subseteq BOOLEAN /\ plan.prs[w] \subseteq BOOLEAN
    BY <1>1, PlanTypes
  <2>3. \/ \E v \in Nat : WqSizeStore(w, v)
        \/ \E g \in Groups \cup {None} : WqGroupIdStore(w, g)
        \/ \E v \in BOOLEAN : WqBlockOnFaultStore(w, v) \/ WqPrsDisableStore(w, v)
        \/ \E v \in Nat : WqThresholdStore(w, v)
        \/ WqPriorityStore(w) \/ WqMaxBatchSizeStore(w) \/ WqAtsDisableStore(w)
    BY <1>5, <2>2, Zenon DEF AccfgWqSetField
  <2>4. DevInv'
    BY <1>1, <2>3, SizeKeeps, WqGroupKeeps, AttributesKeep
  <2> QED BY <1>4, <2>1, <2>4
<1>6. ASSUME NEW w \in Wqs, AccfgWqSetLongField(w) \/ AccfgWqSetOpConfig(w) PROVE ConfigInv'
  <2>1. UNCHANGED <<cacheType, cacheDrv>> /\ (WqMaxTransferSizeStore(w) \/ WqOpConfigStore(w))
    BY <1>6 DEF AccfgWqSetLongField, AccfgWqSetOpConfig, SetterFrame, libVars
  <2> QED BY <1>1, <1>4, <2>1, AttributesKeep
<1>7. ASSUME NEW w \in Wqs, AccfgWqSetStrField(w) PROVE ConfigInv'
  <2>1. plan.ded[w] \subseteq BOOLEAN
    BY <1>1, PlanTypes
  <2>2. (\E v \in BOOLEAN : WqModeStore(w, v)) \/ WqNameStore(w)
    BY <1>7, <2>1, Zenon DEF AccfgWqSetStrField
  <2>3. UNCHANGED <<cacheType, cacheDrv>>
    BY <1>7 DEF AccfgWqSetStrField, SetterFrame, libVars
  <2> QED BY <1>1, <1>4, <2>2, <2>3, AttributesKeep
<1>8. ASSUME NEW w \in Wqs, AccfgWqSetStrType(w) PROVE ConfigInv'
  <2>1. PICK t \in plan.type[w] : /\ WqTypeStore(w, t) /\ UNCHANGED cacheDrv
                                 /\ cacheType' = [cacheType EXCEPT ![w] = t]
    BY <1>8 DEF AccfgWqSetStrType
  <2>2. t \in {"none", "kernel", "user"}
    BY <1>1, <2>1, PlanTypes
  <2>3. DevInv'
    BY <1>1, <2>1, <2>2, AttributesKeep
  <2>4. CacheTypeOK'
    BY <1>1, <1>2, <2>1, <2>2 DEF CacheTypeOK
  <2> QED BY <1>3, <2>3, <2>4 DEF ConfigInv
<1>9. ASSUME NEW w \in Wqs, AccfgWqSetStrDriverName(w) PROVE ConfigInv'
  <2>1. PICK d \in plan.drv[w] : /\ WqDriverNameStore(w, d) /\ UNCHANGED cacheType
                                /\ cacheDrv' = [cacheDrv EXCEPT ![w] = d]
    BY <1>9 DEF AccfgWqSetStrDriverName
  <2>2. d \in DriverNames
    BY <1>1, <2>1, PlanTypes
  <2>3. DevInv'
    BY <1>1, <2>1, <2>2, AttributesKeep
  <2>4. CacheTypeOK'
    BY <1>1, <1>2, <2>1, <2>2 DEF CacheTypeOK
  <2> QED BY <1>3, <2>3, <2>4 DEF ConfigInv
<1>10. ASSUME NEW w \in Wqs, EchoDriverName(w) PROVE ConfigInv'
  <2>1. PICK d \in plan.drv[w] : WqDriverNameStore(w, d)
    BY <1>10 DEF EchoDriverName
  <2>2. d \in DriverNames
    BY <1>1, <2>1, PlanTypes
  <2>3. UNCHANGED <<cacheType, cacheDrv>>
    BY <1>10 DEF EchoDriverName, SetterFrame, libVars
  <2> QED BY <1>1, <1>4, <2>1, <2>2, <2>3, AttributesKeep
<1>11. ASSUME NEW g \in Groups, AccfgGroupSetField(g) PROVE ConfigInv'
  <2>1. plan.reserved[g] \subseteq Nat /\ plan.allowed[g] \subseteq Nat
    BY <1>1, PlanTypes
  <2>2. \E v \in Nat : GroupReadBuffersReservedStore(g, v) \/ GroupReadBuffersAllowedStore(g, v)
    BY <1>11, <2>1, Zenon DEF AccfgGroupSetField
  <2>3. UNCHANGED <<cacheType, cacheDrv>>
    BY <1>11 DEF AccfgGroupSetField, SetterFrame, libVars
  <2> QED BY <1>1, <1>4, <2>2, <2>3, ReservedKeeps, AllowedKeeps
<1>12. ASSUME NEW e \in Engines, AccfgEngineSetField(e) PROVE ConfigInv'
  <2>1. plan.engine[e] \subseteq Groups \cup {None}
    BY <1>1, PlanTypes
  <2>2. \E g \in Groups \cup {None} : EngineGroupIdStore(e, g)
    BY <1>12, <2>1, Zenon DEF AccfgEngineSetField
  <2>3. UNCHANGED <<cacheType, cacheDrv>>
    BY <1>12 DEF AccfgEngineSetField, SetterFrame, libVars
  <2> QED BY <1>1, <1>4, <2>2, <2>3, EngineGroupKeeps
<1> QED BY <1>5, <1>6, <1>7, <1>8, <1>11, <1>12, <1>9, <1>10

\* Binding and unbinding, through libaccfg or the compat driver.
LEMMA BindingsKeep ==
  ASSUME ConfigInv,
         \/ AccfgDeviceEnable \/ AccfgDeviceDisable
         \/ \E w \in Wqs : AccfgWqEnable(w) \/ AccfgWqDisable(w) \/ CompatBindStore(w)
  PROVE  ConfigInv'
<1>1. DevInv /\ TypeOK /\ CacheTypeOK
  BY DEF ConfigInv, DevInv
<1>2. ASSUME DevInv', SetterFrame PROVE ConfigInv'
  <2>1. pending = NoCall /\ UNCHANGED <<cacheType, cacheDrv, pending>>
    BY <1>2 DEF SetterFrame, libVars
  <2>2. CallPending'
    BY <2>1, CallsDiffer, NoCallPending
  <2> QED BY <1>1, <1>2, <2>1, <2>2 DEF ConfigInv, CacheTypeOK
<1>3. CASE AccfgDeviceEnable
  BY <1>1, <1>2, <1>3, DeviceProbeKeeps DEF AccfgDeviceEnable
<1>4. CASE AccfgDeviceDisable
  BY <1>1, <1>2, <1>4, DeviceRemoveKeeps DEF AccfgDeviceDisable
<1>5. ASSUME NEW w \in Wqs, AccfgWqEnable(w) PROVE ConfigInv'
  <2>1. /\ Portal(w) \in {"dmaengine", "user"} /\ WqDrvProbe(w, Portal(w))
        /\ UNCHANGED <<cacheType, cacheDrv>>
        /\ pending' = IF bound'[w] # "none" THEN Call("enabled", w) ELSE NoCall
    BY <1>5 DEF AccfgWqEnable
  <2>2. Portal(w)' = Portal(w)
    BY <2>1 DEF Portal
  <2>3. DevInv' /\ (bound'[w] # "none" => /\ bound'[w] = Portal(w)
                                          /\ wq'[w].type = TypeOf(Portal(w))
                                          /\ DriverNameMatch(wq'[w].drv, Portal(w)))
    BY <1>1, <2>1, WqProbeKeeps
  <2>4. CacheTypeOK'
    BY <1>1, <2>1 DEF CacheTypeOK, Call, NoCall
  <2>5. CallPending'
    <3>1. ASSUME NEW v \in Wqs, pending' = Call("enabled", v)
          PROVE  v = w /\ bound'[w] # "none"
      <4>1. bound'[w] # "none"
        BY <2>1, <3>1, CallsDiffer
      <4>2. Call("enabled", v) = Call("enabled", w)
        BY <2>1, <3>1, <4>1
      <4>3. v = w
        BY <4>2 DEF Call
      <4> QED BY <4>1, <4>3
    <3> QED BY <2>1, <2>2, <2>3, <3>1 DEF CallPending
  <2> QED BY <2>3, <2>4, <2>5 DEF ConfigInv
<1>6. ASSUME NEW w \in Wqs, AccfgWqDisable(w) PROVE ConfigInv'
  <2>1. /\ WqDrvRemove(w) /\ pending' = Call("disabled", w)
        /\ UNCHANGED <<cacheType, cacheDrv>>
    BY <1>6 DEF AccfgWqDisable
  <2>2. DevInv'
    BY <1>1, <2>1, WqRemoveKeeps
  <2>3. CacheTypeOK'
    BY <1>1, <2>1 DEF CacheTypeOK, Call
  <2>4. \A v \in Wqs : pending' # Call("enabled", v)
    BY <2>1 DEF Call
  <2> QED BY <2>2, <2>3, <2>4, NoCallPending DEF ConfigInv
<1>7. ASSUME NEW w \in Wqs, CompatBindStore(w) PROVE ConfigInv'
  <2>1. \E drv \in {"dmaengine", "user"} : WqDrvProbe(w, drv)
    BY <1>7 DEF CompatBindStore
  <2>2. SetterFrame
    BY <1>7 DEF CompatBindStore
  <2> QED BY <1>1, <1>2, <2>1, <2>2, WqProbeKeeps
<1> QED BY <1>3, <1>4, <1>5, <1>6, <1>7

LEMMA ClearedDisabled ==
  ASSUME ClearState, configurable
  PROVE  \A w \in Wqs : wq'[w].state = "disabled"
  BY DEF ClearState, EmptyWq

\* Halts come at any time, also between the write to bind and the look at the
\* state.
LEMMA EventsKeep ==
  ASSUME ConfigInv, KernelEvent, UNCHANGED libVars
  PROVE  ConfigInv'
<1>1. DevInv /\ CacheTypeOK /\ CallPending /\ UNCHANGED <<cacheType, cacheDrv, pending>>
  BY DEF ConfigInv, libVars
<1>2. CacheTypeOK' /\ \A w \in Wqs : Portal(w)' = Portal(w)
  BY <1>1 DEF CacheTypeOK, Portal
<1>3. CASE MiscHaltSoftware
  <2>1. DevInv' /\ UNCHANGED <<wq, bound, configurable>>
    BY <1>1, <1>3, HaltSoftwareKeeps
  <2>2. CallPending'
    BY <1>1, <1>2, <2>1 DEF CallPending
  <2> QED BY <1>2, <2>1, <2>2 DEF ConfigInv
<1>4. CASE MiscHaltOther
  <2>1. DevInv' /\ \A w \in Wqs : wq'[w].drv = wq[w].drv
    BY <1>1, <1>4, HaltOtherKeeps
  <2>2. ClearState /\ UNCHANGED <<configurable, bound>>
    BY <1>4 DEF MiscHaltOther
  <2>3. CASE configurable
    <3>1. \A w \in Wqs : wq'[w].state = "disabled"
      BY <2>2, <2>3, ClearedDisabled
    <3> QED BY <1>1, <1>2, <2>1, <2>2, <2>3, <3>1 DEF ConfigInv, CallPending
  <2>4. CASE ~configurable
    <3>1. UNCHANGED wq
      BY <2>2, <2>4 DEF ClearState
    <3>2. CallPending'
      BY <1>1, <1>2, <2>2, <3>1 DEF CallPending
    <3> QED BY <1>2, <2>1, <3>2 DEF ConfigInv
  <2> QED BY <2>3, <2>4
<1>5. CASE DeviceReinit
  <2>1. /\ DevInv' /\ UNCHANGED <<configurable, bound>>
        /\ \A w \in Wqs : wq'[w].drv = wq[w].drv
        /\ ~configurable => \A w \in Wqs : wq'[w].type = wq[w].type
    BY <1>1, <1>5, ReinitKeeps
  <2>2. CASE configurable
    <3>1. \A w \in Wqs : wq'[w].state = "disabled"
      BY <1>5, <2>2, ClearedDisabled DEF DeviceReinit
    <3> QED BY <1>1, <1>2, <2>1, <2>2, <3>1 DEF ConfigInv, CallPending
  <2>3. CASE ~configurable
    <3>1. CallPending'
      BY <1>1, <1>2, <2>1, <2>3 DEF CallPending
    <3> QED BY <1>2, <2>1, <3>1 DEF ConfigInv
  <2> QED BY <2>2, <2>3
<1> QED BY <1>3, <1>4, <1>5 DEF KernelEvent

LEMMA DevFrame ==
  ASSUME DevInv, UNCHANGED vars
  PROVE  DevInv'
<1>1. UNCHANGED <<configurable, plan, wq, engGroup, grp, nrRdbufs, shadow, hw, hwEngines,
                  hwOn, devState, devBound, bound, enableMap, reinit>>
  BY DEF vars, cfgVars, regVars, lifeVars
<1>2. TypeOK'
  BY <1>1 DEF DevInv, TypeOK
<1>3. RdbufsFit' /\ CountsAgree'
  BY <1>1, BooksKept DEF DevInv
<1>4. EnabledRunnable' /\ RegistersMatch' /\ EnabledSized' /\ FaultHandling'
  BY <1>1 DEF DevInv, EnabledRunnable, RegistersMatch, EnabledSized, FaultHandling
<1> QED BY <1>2, <1>3, <1>4 DEF DevInv

LEMMA ReadingsKeep ==
  ASSUME ConfigInv, AccfgNew \/ AccfgWqVerify \/ UNCHANGED allVars
  PROVE  ConfigInv'
<1>1. UNCHANGED vars /\ DevInv /\ CacheTypeOK /\ CallPending
  BY DEF AccfgNew, AccfgWqVerify, allVars, ConfigInv
<1>2. DevInv'
  BY <1>1, DevFrame
<1>3. UNCHANGED <<wq, bound, configurable>>
  BY <1>1 DEF vars, cfgVars, lifeVars
<1>4. CASE AccfgNew
  <2>1. /\ cacheType' = [w \in Wqs |-> wq[w].type] /\ cacheDrv' = [w \in Wqs |-> wq[w].drv]
        /\ pending = NoCall /\ UNCHANGED pending
    BY <1>4 DEF AccfgNew, AddWqs
  <2>2. CacheTypeOK'
    BY <1>1, <2>1 DEF CacheTypeOK, DevInv, TypeOK, WqRecord
  <2>3. CallPending'
    BY <2>1, CallsDiffer, NoCallPending
  <2> QED BY <1>2, <2>2, <2>3 DEF ConfigInv
<1>5. CASE AccfgWqVerify
  <2>1. pending' = NoCall /\ UNCHANGED <<cacheType, cacheDrv>>
    BY <1>5 DEF AccfgWqVerify
  <2>2. CacheTypeOK'
    BY <1>1, <2>1 DEF CacheTypeOK, NoCall
  <2>3. CallPending'
    BY <2>1, CallsDiffer, NoCallPending
  <2> QED BY <1>2, <2>2, <2>3 DEF ConfigInv
<1>6. CASE UNCHANGED allVars
  <2>1. UNCHANGED <<cacheType, cacheDrv, pending>>
    BY <1>6 DEF allVars, libVars
  <2>2. \A w \in Wqs : Portal(w)' = Portal(w)
    BY <2>1 DEF Portal
  <2>3. CacheTypeOK' /\ CallPending'
    BY <1>1, <1>3, <2>1, <2>2 DEF CacheTypeOK, CallPending
  <2> QED BY <1>2, <2>3 DEF ConfigInv
<1> QED BY <1>4, <1>5, <1>6

\* The inductive invariant of the configuration, for any numbers of queues,
\* groups and engines and anything an administrator writes, with halts and
\* re-initialisations (sysfs.c, device.c, irq.c, libaccfg.c) in between.
THEOREM ConfigInvHolds == AccfgSpec => []ConfigInv
<1>1. ConfigInv /\ [AccfgNext]_allVars => ConfigInv'
  <2> SUFFICES ASSUME ConfigInv, [AccfgNext]_allVars PROVE ConfigInv'
    OBVIOUS
  <2> QED BY SettersKeep, BindingsKeep, EventsKeep, ReadingsKeep DEF AccfgNext
<1> QED BY <1>1, InitConfig, PTL DEF AccfgSpec

\* num_wqs, num_engines and nr_rdbufs agree with the queues, engines and groups
\* after any sequence of stores, bindings, halts and resets.
THEOREM AccountsHold == AccfgSpec => []Accounts
<1>1. ConfigInv => Accounts
  BY DEF ConfigInv, DevInv, Accounts
<1> QED BY <1>1, ConfigInvHolds, PTL

\* A queue the driver takes for enabled on a configurable device can run, and
\* its registers hold what its attributes say, but for mode and block on fault
\* bits of an earlier write, after any configuration writes for other queues
\* (drv_enable_wq, idxd_wq_config_write).
THEOREM RunsAsConfiguredHolds == AccfgSpec => []RunsAsConfigured
<1>1. ConfigInv => RunsAsConfigured
  BY DEF ConfigInv, DevInv, RunsAsConfigured
<1> QED BY <1>1, ConfigInvHolds, PTL

\* accfg_wq_enable reports success only for a queue that is bound to the driver
\* the context remembers the name of or, without a name, to the driver of the
\* type it remembers, and that driver's name matches the queue's driver_name,
\* although the context never looks again.
THEOREM EnabledAsAskedHolds == AccfgSpec => []EnabledAsAsked
<1>1. ConfigInv => EnabledAsAsked
  <2> SUFFICES ASSUME ConfigInv, NEW w \in Wqs, pending = Call("enabled", w),
                      wq[w].state = pending.op
               PROVE  /\ IF cacheDrv[w] # "none" THEN bound[w] = cacheDrv[w]
                                                ELSE wq[w].type = cacheType[w]
                      /\ \/ bound[w] = "user" /\ wq[w].type = "user"
                                             /\ wq[w].drv \in {"user", "username"}
                         \/ bound[w] = "dmaengine" /\ wq[w].type = "kernel"
                                                  /\ wq[w].drv = "dmaengine"
    BY DEF EnabledAsAsked
  <2>1. pending.op = "enabled"
    BY DEF Call
  <2>2. /\ bound[w] = Portal(w) /\ bound[w] \in {"dmaengine", "user"}
        /\ DriverNameMatch(wq[w].drv, bound[w]) /\ wq[w].type = TypeOf(bound[w])
    BY <2>1 DEF ConfigInv, CallPending, DevInv, TypeOK
  <2>3. cacheType[w] \in {"none", "kernel", "user"}
    BY DEF ConfigInv, CacheTypeOK
  <2> QED BY <2>2, <2>3 DEF Portal, DriverNameMatch, TypeOf
<1> QED BY <1>1, ConfigInvHolds, PTL

-----------------------------------------------------------------------------
(* The jobs and the steps of the test program.                             *)

Marks == {"none", "success", "wrong", "fault", "error"}
Descs == [src : Nat, dst : Nat, delta : {0}, len : 0 .. Word - 1, recSize : 0 .. Word - 1]

LEMMA AccelConstants ==
  /\ NumDesc \in Nat \ {0} /\ QueueRange \in Nat \ {0} /\ Size \in Nat /\ Size >= 2
  /\ Word \in Nat /\ Word > Size /\ Troubles \in Nat
  /\ Size \div 2 \in Unit
<1>1. NumDesc \in Nat \ {0} /\ QueueRange \in Nat \ {0} /\ Size \in Nat /\ Size >= 2
  BY AccelParameters DEF QueueRange
<1>2. Size \div 2 \in Nat /\ Size \div 2 < Size
  BY <1>1
<1>3. Size \div 2 \in Unit
  BY <1>1, <1>2 DEF Unit
<1>4. Word \in Nat /\ Word > Size /\ Troubles \in Nat
  BY AccelParameters
<1> QED BY <1>1, <1>3, <1>4, Zenon

AllJobs == {"noop", "drain", "memmove", "memfill", "compare", "compval", "dualcast",
            "transl_fetch", "cr_delta", "ap_delta", "crcgen", "copy_crc", "cflush",
            "batch", "dif_check", "dif_ins", "dif_strp", "dif_updt", "dix_gen"}

LEMMA JobNames == DOMAIN JobOf = AllJobs
  BY DEF JobOf, AllJobs

\* What the proofs need to know of a job.
GoodJob(o, j) ==
  /\ j.uses \in SUBSET {"src", "dst"} /\ j.len \in {0, Size}
  /\ j.uses = {} <=> o \in {"noop", "drain"}
  /\ j.len = 0 <=> o \in {"noop", "drain"}
  /\ j.resumes = CASE o \in {"noop", "drain", "transl_fetch"} -> {}
                   [] o = "batch" -> {"batchfault"}
                   [] o = "memmove" -> {"fault", "xlat"}
                   [] OTHER -> {"fault"}
  /\ o \notin Untracked => \A f \in j.uses \cup {"len"} : f \in j.moves \/ j.resumes = {}
  /\ o = "cflush" => j.uses = {"dst"} /\ "dst" \notin j.moves
  /\ o = "memmove" => j.movesBack = {"len"}
  /\ o \in {"compare", "compval", "batch", "crcgen", "copy_crc"} => "src" \in j.uses

LEMMA JobTable == \A o \in AllJobs : GoodJob(o, JobOf[o])
<1> USE DEF GoodJob, JobOf, Job, Resumed, Untracked
<1> DEFINE Good(o) == GoodJob(o, JobOf[o])
<1>1. Good("noop") /\ Good("drain")
  BY AccelConstants DEF NoopJob, DrainJob
<1>2. Good("memmove")
  BY AccelConstants DEF MemcpyJob, ReprepMemcpy
<1>3. Good("memfill")
  BY AccelConstants DEF MemfillJob, ReprepMemfill
<1>4. Good("compare") /\ Good("compval")
  BY AccelConstants DEF CompareJob, CompvalJob, ReprepCompare, ReprepCompval
<1>5. Good("dualcast")
  BY AccelConstants DEF DualcastJob, ReprepDualcast
<1>6. Good("transl_fetch")
  BY AccelConstants DEF TranslFetchJob
<1>7. Good("cr_delta") /\ Good("ap_delta")
  BY AccelConstants DEF CrDeltaJob, ApDeltaJob, ReprepCrDelta, ReprepApDelta
<1>8. Good("crcgen") /\ Good("copy_crc")
  BY AccelConstants DEF CrcgenJob, CrcCopyJob, ReprepCrcgen, ReprepCrcCopy
<1>9. Good("cflush") /\ Good("batch")
  BY AccelConstants DEF CflushJob, BatchJob, ReprepCflush, ReprepBatch
<1>10. Good("dif_check") /\ Good("dif_ins") /\ Good("dif_strp") /\ Good("dif_updt") /\ Good("dix_gen")
  <2>1. Good("dif_check")
    BY AccelConstants DEF DifJob, ReprepDif
  <2>2. Good("dif_ins")
    BY AccelConstants DEF DifJob, ReprepDif
  <2>3. Good("dif_strp")
    BY AccelConstants DEF DifJob, ReprepDif
  <2>4. Good("dif_updt")
    BY AccelConstants DEF DifJob, ReprepDif
  <2>5. Good("dix_gen")
    BY AccelConstants DEF DifJob, ReprepDif
  <2> QED BY <2>1, <2>2, <2>3, <2>4, <2>5
<1>11. \A o \in AllJobs : Good(o)
  <2> HIDE DEF Good
  <2> QED BY <1>1, <1>2, <1>3, <1>4, <1>5, <1>6, <1>7, <1>8, <1>9, <1>10 DEF AllJobs
<1> QED BY <1>11

\* Where the steps of a test lead.
GoodStep(n) ==
  /\ n \in JobSteps =>
        /\ Place(n) = "prep" /\ Place(n + 1) \in {"prep", "verify", "free"}
        /\ Place(n + 1) = "prep" => n + 1 \in JobSteps
        /\ Place(n + 1) = "verify" => n + 1 \in 1 .. Len(Steps)
        /\ Place(n + 1) = "free" => op \in Silent /\ ~batch
        /\ Steps[n] = "batch" <=> batch
        /\ Steps[n] = "dix_gen" => op = "dix_gen"
        /\ Steps[n] = "ap_delta" => op = "ap_delta" /\ Place(n + 1) = "verify"
        /\ Place(n + 1) = "prep" /\ Steps[n + 1] = "ap_delta" => Steps[n] = "cr_delta"
        /\ Steps[n] = "cr_delta" /\ Place(n + 1) = "verify" => op = "cr_delta"
        /\ Steps[n] \in {"compare", "compval"} => op \in {"compare", "compval"} /\ ~batch
  /\ Place(n) = "verify" =>
        /\ n - 1 \in JobSteps /\ n \in 1 .. Len(Steps)
        /\ Place(n + 1) \in {"spoil", "free"} /\ (Place(n + 1) = "free" <=> n = Len(Steps))
        /\ Steps[n] \in {"verify", "verifyMismatch", "verifyLast"}
        /\ Steps[n] = "verifyLast" => op = "noop" /\ ~batch
        /\ ~batch => Steps[n - 1] = op
  /\ Steps[1] # "ap_delta"
  /\ Place(n) = "spoil" =>
        n = 3 /\ 4 \in JobSteps /\ Place(4) = "prep" /\ op \in {"compare", "compval"} /\ ~batch
  /\ ~batch /\ op \in {"compare", "compval"} =>
        /\ n \in JobSteps => n \in {1, 4}
        /\ Place(n) = "verify" => n \in {2, 5} /\ (Steps[n] = "verifyMismatch" <=> n = 5)

LEMMA StepTable ==
  ASSUME op \in AllJobs \ {"batch"}, batch \in BOOLEAN
  PROVE  /\ Len(Steps) \in Nat /\ 1 \in JobSteps
         /\ JobSteps \in SUBSET (Nat \ {0})
         /\ \A n \in Nat \ {0} : GoodStep(n)
<1> DEFINE Claim == /\ Len(Steps) \in Nat /\ 1 \in JobSteps
                    /\ JobSteps \in SUBSET (Nat \ {0})
                    /\ \A n \in Nat \ {0} : GoodStep(n)
<1>1. CASE batch /\ op = "ap_delta"
  <2>1. Steps = <<"batch", "batch", "verify">>
    BY <1>1 DEF Steps, TestBatch
  <2>2. Len(Steps) \in Nat /\ Len(Steps) = 3 /\ Steps[1] = "batch" /\ Steps[2] = "batch" /\ Steps[3] = "verify"
    BY <2>1
  <2>3. /\ Place(1) = "prep" /\ Place(2) = "prep" /\ Place(3) = "verify"
        /\ \A n \in Nat : n > 3 => Place(n) = "free"
    BY <1>1, <2>2, JobNames DEF Place, AllJobs
  <2>4. JobSteps = {1, 2}
    BY <1>1, <2>2, JobNames DEF JobSteps, AllJobs
  <2>5. \A n \in Nat \ {0} : n = 1 \/ n = 2 \/ n = 3 \/ n > 3
    OBVIOUS
  <2> QED BY <1>1, <2>2, <2>3, <2>4, <2>5 DEF GoodStep, Silent
<1>2. CASE batch /\ op # "ap_delta"
  <2>1. Steps = <<"batch", "verify">>
    BY <1>2 DEF Steps, TestBatch
  <2>2. Len(Steps) \in Nat /\ Len(Steps) = 2 /\ Steps[1] = "batch" /\ Steps[2] = "verify"
    BY <2>1
  <2>3. /\ Place(1) = "prep" /\ Place(2) = "verify"
        /\ \A n \in Nat : n > 2 => Place(n) = "free"
    BY <1>2, <2>2, JobNames DEF Place, AllJobs
  <2>4. JobSteps = {1}
    BY <1>2, <2>2, JobNames DEF JobSteps, AllJobs
  <2>5. \A n \in Nat \ {0} : n = 1 \/ n = 2 \/ n > 2
    OBVIOUS
  <2> QED BY <1>2, <2>2, <2>3, <2>4, <2>5 DEF GoodStep, Silent
<1>3. CASE ~batch /\ op = "noop"
  <2>1. Steps = <<"noop", "verifyLast">>
    BY <1>3 DEF Steps, TestNoop
  <2>2. Len(Steps) \in Nat /\ Len(Steps) = 2 /\ Steps[1] = "noop" /\ Steps[2] = "verifyLast"
    BY <2>1
  <2>3. /\ Place(1) = "prep" /\ Place(2) = "verify"
        /\ \A n \in Nat : n > 2 => Place(n) = "free"
    BY <1>3, <2>2, JobNames DEF Place, AllJobs
  <2>4. JobSteps = {1}
    BY <1>3, <2>2, JobNames DEF JobSteps, AllJobs
  <2>5. \A n \in Nat \ {0} : n = 1 \/ n = 2 \/ n > 2
    OBVIOUS
  <2> QED BY <1>3, <2>2, <2>3, <2>4, <2>5 DEF GoodStep, Silent
<1>4. CASE ~batch /\ op = "drain"
  <2>1. Steps = <<"memmove", "drain", "verify">>
    BY <1>4 DEF Steps, TestMemory
  <2>2. Len(Steps) \in Nat /\ Len(Steps) = 3 /\ Steps[1] = "memmove" /\ Steps[2] = "drain" /\ Steps[3] = "verify"
    BY <2>1
  <2>3. /\ Place(1) = "prep" /\ Place(2) = "prep" /\ Place(3) = "verify"
        /\ \A n \in Nat : n > 3 => Place(n) = "free"
    BY <1>4, <2>2, JobNames DEF Place, AllJobs
  <2>4. JobSteps = {1, 2}
    BY <1>4, <2>2, JobNames DEF JobSteps, AllJobs
  <2>5. \A n \in Nat \ {0} : n = 1 \/ n = 2 \/ n = 3 \/ n > 3
    OBVIOUS
  <2> QED BY <1>4, <2>2, <2>3, <2>4, <2>5 DEF GoodStep, Silent
<1>5. CASE ~batch /\ op \in {"compare", "compval"}
  <2>1. Steps = <<op, "verify", "spoil", op, "verifyMismatch">>
    BY <1>5 DEF Steps, TestMemory
  <2>2. Len(Steps) \in Nat /\ Len(Steps) = 5 /\ Steps[1] = op /\ Steps[2] = "verify" /\ Steps[3] = "spoil" /\ Steps[4] = op /\ Steps[5] = "verifyMismatch"
    BY <2>1, <1>5 DEF AllJobs
  <2>3. /\ Place(1) = "prep" /\ Place(2) = "verify" /\ Place(3) = "spoil" /\ Place(4) = "prep" /\ Place(5) = "verify"
        /\ \A n \in Nat : n > 5 => Place(n) = "free"
    BY <1>5, <2>2, JobNames DEF Place, AllJobs
  <2>4. JobSteps = {1, 4}
    BY <1>5, <2>2, JobNames DEF JobSteps, AllJobs
  <2>5. \A n \in Nat \ {0} : n = 1 \/ n = 2 \/ n = 3 \/ n = 4 \/ n = 5 \/ n > 5
    OBVIOUS
  <2> QED BY <1>5, <2>2, <2>3, <2>4, <2>5 DEF GoodStep, Silent
<1>6. CASE ~batch /\ op = "cflush"
  <2>1. Steps = <<"cflush">>
    BY <1>6 DEF Steps, TestMemory
  <2>2. Len(Steps) \in Nat /\ Len(Steps) = 1 /\ Steps[1] = "cflush"
    BY <2>1
  <2>3. /\ Place(1) = "prep"
        /\ \A n \in Nat : n > 1 => Place(n) = "free"
    BY <1>6, <2>2, JobNames DEF Place, AllJobs
  <2>4. JobSteps = {1}
    BY <1>6, <2>2, JobNames DEF JobSteps, AllJobs
  <2>5. \A n \in Nat \ {0} : n = 1 \/ n > 1
    OBVIOUS
  <2> QED BY <1>6, <2>2, <2>3, <2>4, <2>5 DEF GoodStep, Silent
<1>7. CASE ~batch /\ op = "ap_delta"
  <2>1. Steps = <<"cr_delta", "ap_delta", "verify">>
    BY <1>7 DEF Steps, TestDelta
  <2>2. Len(Steps) \in Nat /\ Len(Steps) = 3 /\ Steps[1] = "cr_delta" /\ Steps[2] = "ap_delta" /\ Steps[3] = "verify"
    BY <2>1
  <2>3. /\ Place(1) = "prep" /\ Place(2) = "prep" /\ Place(3) = "verify"
        /\ \A n \in Nat : n > 3 => Place(n) = "free"
    BY <1>7, <2>2, JobNames DEF Place, AllJobs
  <2>4. JobSteps = {1, 2}
    BY <1>7, <2>2, JobNames DEF JobSteps, AllJobs
  <2>5. \A n \in Nat \ {0} : n = 1 \/ n = 2 \/ n = 3 \/ n > 3
    OBVIOUS
  <2> QED BY <1>7, <2>2, <2>3, <2>4, <2>5 DEF GoodStep, Silent
<1>8. CASE ~batch /\ op \notin {"noop", "drain", "compare", "compval", "cflush", "ap_delta"}
  <2>1. Steps = <<op, "verify">>
    BY <1>8 DEF Steps, TestMemory, TestDelta, TestCrc, TestDif, AllJobs
  <2>2. Len(Steps) \in Nat /\ Len(Steps) = 2 /\ Steps[1] = op /\ Steps[2] = "verify"
    BY <2>1, <1>8 DEF AllJobs
  <2>3. /\ Place(1) = "prep" /\ Place(2) = "verify"
        /\ \A n \in Nat : n > 2 => Place(n) = "free"
    BY <1>8, <2>2, JobNames DEF Place, AllJobs
  <2>4. JobSteps = {1}
    BY <1>8, <2>2, JobNames DEF JobSteps, AllJobs
  <2>5. \A n \in Nat \ {0} : n = 1 \/ n = 2 \/ n > 2
    OBVIOUS
  <2> QED BY <1>8, <2>2, <2>3, <2>4, <2>5 DEF GoodStep, Silent
<1> QED
  BY <1>1, <1>2, <1>3, <1>4, <1>5, <1>6, <1>7, <1>8

-----------------------------------------------------------------------------
(* The tasks of a round, and what leaves a descriptor's invariant alone.   *)

LEMMA TestFacts ==
  ASSUME TestTypes
  PROVE  /\ op \in AllJobs \ {"batch"} /\ batch \in BOOLEAN /\ bof \in BOOLEAN /\ dedicated \in BOOLEAN
         /\ spoiled \in BOOLEAN /\ failedAlloc \in BOOLEAN
         /\ step \in Nat \ {0} /\ step \in 1 .. Len(Steps) + 1 /\ k \in 1 .. NumDesc
         /\ itr \in Int /\ itr <= NumDesc /\ itr > -QueueRange - 1
         /\ nodes \in Seq(Task \cup {0}) /\ live \subseteq Task
         /\ desc \in [Task -> Descs] /\ delta \in [Task -> SUBSET Unit]
         /\ unit \in [Task -> [Unit -> Marks]]
         /\ comp \in [Task -> Records] /\ queue \subseteq Entries
         /\ timedOut \subseteq Task /\ lost \subseteq Task /\ hurt \subseteq Task
         /\ strayed \subseteq Task /\ redone \subseteq Task /\ troubles \in 0 .. Troubles
<1> USE DEF TestTypes, TestTypeOK, Descs, Marks
<1>1. op \in AllJobs \ {"batch"}
  BY OpcodesAssumption, JobNames, Zenon
<1>2. batch \in BOOLEAN /\ bof \in BOOLEAN /\ dedicated \in BOOLEAN
  BY Zenon
<1>3. spoiled \in BOOLEAN /\ failedAlloc \in BOOLEAN
  BY Zenon
<1>4. step \in 1 .. Len(Steps) + 1 /\ k \in 1 .. NumDesc
  OBVIOUS
<1>5. Len(Steps) \in Nat
  BY <1>1, <1>2, StepTable
<1>6. step \in Nat \ {0}
  BY <1>4, <1>5
<1>7. itr \in Int /\ itr <= NumDesc /\ itr > -QueueRange - 1
  BY AccelConstants
<1>8. /\ timedOut \subseteq Task /\ lost \subseteq Task /\ hurt \subseteq Task
      /\ strayed \subseteq Task /\ redone \subseteq Task
  OBVIOUS
<1> QED BY <1>1, <1>2, <1>3, <1>4, <1>6, <1>7, <1>8

\* What the round's list of tasks looks like.
LEMMA RoundFacts ==
  ASSUME TestTypes, Held
  PROVE  /\ itr \in 1 .. NumDesc /\ RoundSize \in 1 .. QueueRange /\ RoundSize <= itr
         /\ itr < QueueRange => RoundSize = itr
         /\ itr >= QueueRange => RoundSize = QueueRange
         /\ Len(nodes) = RoundSize
         /\ \A i \in 1 .. RoundSize : /\ nodes[i] = NumDesc - itr + 1 + RoundSize - i
                                      /\ nodes[i] \in Task /\ nodes[i] \in live
                                      /\ nodes[i] > NumDesc - itr
                                      /\ nodes[i] <= NumDesc - itr + RoundSize
         /\ \A i, j \in 1 .. RoundSize : nodes[i] = nodes[j] => i = j
         /\ \A t : InList(t) <=> \E i \in 1 .. RoundSize : nodes[i] = t
<1>1. itr \in 1 .. NumDesc
  BY TestFacts DEF Held
<1>2. RoundSize \in 1 .. QueueRange /\ RoundSize <= itr
      /\ (itr < QueueRange => RoundSize = itr) /\ (itr >= QueueRange => RoundSize = QueueRange)
  BY <1>1, AccelConstants DEF RoundSize
<1> DEFINE R == RoundSize
<1>3. R \in Nat /\ nodes = [i \in 1 .. R |-> NumDesc - itr + 1 + R - i]
  BY <1>2, AccelConstants DEF Held, RoundTasks
<1> HIDE DEF R
<1>4. Len(nodes) = R
  BY <1>3
<1>5. \A i \in 1 .. R : nodes[i] = NumDesc - itr + 1 + R - i
  BY <1>3
<1>6. R \in 1 .. itr
  BY <1>1, <1>2 DEF R
<1>7. \A i \in 1 .. R : nodes[i] \in Int /\ nodes[i] > NumDesc - itr /\ nodes[i] <= NumDesc - itr + R
  BY <1>5, <1>6, <1>1, AccelConstants
<1>8. \A i \in 1 .. R : nodes[i] \in Task
  BY <1>7, <1>6, <1>1, AccelConstants DEF Task
<1>9. \A i, j \in 1 .. R : nodes[i] = nodes[j] => i = j
  BY <1>5, <1>6, <1>1, AccelConstants
<1>10. \A i \in 1 .. R : nodes[i] \in live
  BY DEF Held, R
<1>11. \A t : InList(t) <=> \E i \in 1 .. R : nodes[i] = t
  BY <1>4 DEF InList
<1> QED BY <1>1, <1>2, <1>4, <1>5, <1>7, <1>8, <1>9, <1>10, <1>11 DEF R

\* The invariant of a descriptor is about its own state only.
LEMMA JobFrame ==
  ASSUME NEW t, NEW n, UNCHANGED <<op, batch, spoiled>>, hurt \subseteq hurt',
         redone \subseteq redone', desc'[t] = desc[t], comp'[t] = comp[t],
         unit'[t] = unit[t], delta'[t] = delta[t], JobInv(t, n)
  PROVE  JobInv(t, n)'
<1>1. Steps' = Steps
  BY DEF Steps
<1> QED BY <1>1 DEF JobInv, DeltaInv

LEMMA SettledFrame ==
  ASSUME NEW t, NEW n, UNCHANGED <<op, batch, spoiled>>, hurt \subseteq hurt',
         redone \subseteq redone', desc'[t] = desc[t], comp'[t] = comp[t],
         unit'[t] = unit[t], delta'[t] = delta[t], Settled(t, n)
  PROVE  Settled(t, n)'
<1>1. Steps' = Steps
  BY DEF Steps
<1>2. JobInv(t, n)'
  BY JobFrame DEF Settled
<1> QED BY <1>1, <1>2 DEF Settled

\* The steps of a test do not change.
LEMMA StepsFrame ==
  ASSUME UNCHANGED <<op, batch>>
  PROVE  /\ Steps' = Steps /\ JobSteps' = JobSteps
         /\ \A n : Place(n)' = Place(n)
<1>1. Steps' = Steps
  BY DEF Steps
<1> QED BY <1>1 DEF JobSteps, Place

\* The state of a descriptor that nobody touches.
LEMMA TasksFrame ==
  ASSUME TestTypes, UNCHANGED <<setting, spoiled, desc, comp, unit, delta>>, hurt \subseteq hurt', redone \subseteq redone'
  PROVE  \A t, n : /\ JobInv(t, n) => JobInv(t, n)'
                   /\ Settled(t, n) => Settled(t, n)'
  BY JobFrame, SettledFrame DEF setting

\* So with what a finished one has done.
LEMMA FinishedFrame ==
  ASSUME UNCHANGED <<op, batch, bof>>, hurt \subseteq hurt', redone \subseteq redone',
         NEW t, unit'[t] = unit[t], delta'[t] = delta[t], Finished(t)
  PROVE  Finished(t)'
  BY DEF Finished, UnitDone, DeltaWhole

\* The list of the round when its variables stay.
LEMMA HeldFrame ==
  ASSUME UNCHANGED <<itr, nodes, live>>, UNCHANGED <<batch, dedicated>>
  PROVE  Held' = Held /\ Left' = Left /\ RoundSize' = RoundSize
<1>1. RoundSize' = RoundSize
  BY DEF RoundSize, QueueRange
<1> QED BY <1>1 DEF Held, Left, RoundTasks

LEMMA TestInitInv ==
  ASSUME TestInit
  PROVE  AccelInv
<1> USE DEF TestInit
<1>1. op \in AllJobs \ {"batch"} /\ batch \in BOOLEAN
  BY OpcodesAssumption, JobNames
<1>2. Len(Steps) \in Nat
  BY <1>1, StepTable
<1>3. TestTypeOK
  <2>1. op \in Opcodes \cup BatchOpcodes
    OBVIOUS
  <2>2. {batch, dedicated, bof, spoiled, failedAlloc} \subseteq BOOLEAN
    BY <1>1
  <2>3. step \in 1 .. Len(Steps) + 1 /\ k \in 1 .. NumDesc /\ itr \in -QueueRange .. NumDesc
    BY <1>2, AccelConstants
  <2>4. desc \in [Task -> Descs] /\ delta \in [Task -> SUBSET Unit]
    BY AccelConstants DEF Descs, NoDesc
  <2>5. unit \in [Task -> [Unit -> Marks]]
    BY DEF NoUnits, Marks
  <2>6. \A t \in Task : comp[t].bytes \in 0 .. Word - 1
    BY AccelConstants DEF NoRecord
  <2>7. troubles \in 0 .. Troubles
    BY AccelConstants
  <2> QED BY <2>1, <2>2, <2>3, <2>4, <2>5, <2>6, <2>7 DEF TestTypeOK, Descs, Marks
<1>4. comp \in [Task -> Records]
  BY AccelConstants DEF NoRecord, Records
<1>5. ListInv /\ StepInv /\ UndefinedExplained
  BY DEF ListInv, StepInv, UndefinedExplained, Active, Left
<1>6. UnitsInv
  BY DEF UnitsInv, NoUnits
<1>7. WorkInv /\ EntryInv
  BY DEF WorkInv, EntryInv, Active
<1>8. DoneInv
  <2>1. \A t \in Task : ~(t <= NumDesc - itr)
    BY AccelConstants DEF Task
  <2> QED BY <2>1 DEF DoneInv
<1>9. OutcomeInv /\ StaysInBuffers /\ FailExplained
  BY DEF OutcomeInv, StaysInBuffers, FailExplained
<1> QED BY <1>3, <1>4, <1>5, <1>6, <1>7, <1>8, <1>9 DEF AccelInv, TestTypes

-----------------------------------------------------------------------------
(* Allocation and preparation.                                             *)

LEMMA RoundTaskTypes ==
  ASSUME TestTypes, itr > 0
  PROVE  /\ RoundSize \in Nat /\ 1 <= RoundSize /\ RoundSize <= NumDesc
         /\ RoundTasks \in [1 .. RoundSize -> Task] /\ RoundTasks \in Seq(Task)
<1>1. itr \in 1 .. NumDesc
  BY TestFacts
<1>2. RoundSize \in 1 .. itr
  BY <1>1, AccelConstants DEF RoundSize
<1>3. \A i \in 1 .. RoundSize : NumDesc - itr + 1 + RoundSize - i \in Task
  BY <1>1, <1>2, AccelConstants DEF Task
<1>4. RoundTasks \in [1 .. RoundSize -> Task]
  BY <1>3 DEF RoundTasks
<1>5. RoundSize \in Nat /\ 1 <= RoundSize /\ RoundSize <= NumDesc
  BY <1>1, <1>2, AccelConstants
<1> QED BY <1>4, <1>5

\* What is at the device between two rounds was given up.
LEMMA OnlyGivenUp ==
  ASSUME AccelInv, pc \notin {"submit", "wait", "exit"}
  PROVE  \A e \in queue : e.task \in timedOut
  BY DEF AccelInv, EntryInv

LEMMA AllocKeeps ==
  ASSUME AccelInv, Alloc
  PROVE  AccelInv'
<1>1. TestTypes /\ Left /\ failedAlloc = FALSE
  BY TestFacts DEF AccelInv, Alloc, ListInv
<1>2. /\ pc = "round" /\ itr > 0 /\ rc = "ok" /\ spoiled' = FALSE
      /\ nodes' = RoundTasks \o nodes
      /\ live' = live \cup {RoundTasks[i] : i \in 1 .. RoundSize}
      /\ UNCHANGED <<op, batch, dedicated, bof, rc, itr, failedAlloc, desc, comp, unit, delta, queue>>
      /\ UNCHANGED <<troubles, timedOut, lost, hurt, strayed, redone>>
  BY DEF Alloc, setting, jobVars, happened
<1>3. \/ (\E i \in 1 .. Len(nodes) : nodes[i] \notin live) /\ pc' = "undefined" /\ step' = step /\ k' = k
      \/ (\A i \in 1 .. Len(nodes) : nodes[i] \in live) /\ step' = 1 /\ k' = 1 /\ pc' = Place(1)
  BY DEF Alloc, GoTo
<1>4. Place(1) = "prep" /\ 1 \in JobSteps /\ Len(Steps) \in Nat /\ Steps[1] # "ap_delta"
  BY <1>1, TestFacts, StepTable DEF GoodStep
<1>5. Steps' = Steps /\ JobSteps' = JobSteps /\ \A n : Place(n)' = Place(n)
  BY <1>2, StepsFrame
<1>6. TestTypes'
  <2>1. nodes' \in Seq(Task \cup {0}) /\ live' \subseteq Task
    <3>1. RoundTasks \in Seq(Task \cup {0})
      BY <1>1, <1>2, RoundTaskTypes
    <3>2. nodes \in Seq(Task \cup {0}) /\ live \subseteq Task
      BY <1>1, TestFacts
    <3> QED BY <1>1, <1>2, <3>1, <3>2, RoundTaskTypes
  <2>2. step' \in 1 .. Len(Steps) + 1 /\ k' \in 1 .. NumDesc
    BY <1>1, <1>3, <1>4, TestFacts, AccelConstants
  <2>3. pc' \in {"prep", "undefined"}
    BY <1>3, <1>4
  <2>4. {batch, dedicated, bof, spoiled', failedAlloc} \subseteq BOOLEAN
    BY <1>1, <1>2, TestFacts
  <2> QED BY <1>1, <1>2, <1>5, <2>1, <2>2, <2>3, <2>4 DEF TestTypes, TestTypeOK, Entries, QueueRange
<1>7. \A e \in queue : e.task \in timedOut
  BY <1>2, OnlyGivenUp
<1>8. UnitsInv' /\ StaysInBuffers' /\ DoneInv'
  BY <1>2, <1>3, <1>4 DEF AccelInv, UnitsInv, StaysInBuffers, DoneInv, Finished, UnitDone, DeltaWhole
<1>9. EntryInv' /\ OutcomeInv' /\ FailExplained'
  BY <1>2, <1>3, <1>4, <1>7 DEF AccelInv, EntryInv, OutcomeInv, FailExplained
<1>10. StepInv'
  BY <1>2, <1>3, <1>4, <1>5 DEF StepInv, Active
<1>11. WorkInv'
  BY <1>2, <1>3, <1>4, <1>5 DEF WorkInv, Active
<1>12. ListInv' /\ UndefinedExplained'
  <2>1. CASE \E i \in 1 .. Len(nodes) : nodes[i] \notin live
    <3>1. nodes # <<>>
      BY <2>1
    <3> QED BY <1>1, <1>2, <1>3, <2>1, <3>1 DEF ListInv, UndefinedExplained, Left, Active
  <2>2. CASE \A i \in 1 .. Len(nodes) : nodes[i] \in live
    <3>1. nodes = <<>>
      <4>1. nodes # <<>> => 1 \in 1 .. Len(nodes)
        BY <1>1, TestFacts
      <4> QED BY <1>1, <2>2, <4>1 DEF Left
    <3>2. nodes' = RoundTasks
      BY <1>1, <1>2, <3>1, RoundTaskTypes
    <3>3. RoundSize' = RoundSize /\ RoundTasks' = RoundTasks
      BY <1>2 DEF RoundSize, RoundTasks, QueueRange
    <3>4. Held'
      BY <1>2, <3>2, <3>3 DEF Held
    <3>5. k' \in (1 .. RoundSize)' /\ pc' = "prep"
      BY <1>1, <1>2, <1>3, <1>4, <2>2, <3>3, RoundTaskTypes
    <3> QED BY <1>1, <1>2, <3>4, <3>5 DEF ListInv, UndefinedExplained, Active
  <2> QED BY <2>1, <2>2
<1> QED BY <1>6, <1>8, <1>9, <1>10, <1>11, <1>12 DEF AccelInv

\* An exit before the round's work has begun leaves the device what was given up.
LEMMA AllocFailsKeeps ==
  ASSUME AccelInv, AllocFails
  PROVE  AccelInv'
<1>1. TestTypes /\ Left /\ failedAlloc = FALSE
  BY DEF AccelInv, AllocFails, ListInv
<1>2. /\ pc = "round" /\ itr > 0 /\ rc' = "nomem" /\ failedAlloc' = TRUE
      /\ pc' \in {"exit", "undefined"}
      /\ UNCHANGED <<op, batch, dedicated, bof, step, k, itr, desc, comp, unit, delta, spoiled, queue>>
      /\ UNCHANGED <<troubles, timedOut, lost, hurt, strayed, redone>>
  BY DEF AllocFails, setting, jobVars, happened
<1>3. nodes' \in {<<>>, <<0>>, <<NumDesc - itr + 1>> \o nodes}
  BY DEF AllocFails
<1>4. live' = IF nodes' # <<>> /\ nodes'[1] # 0 THEN live \cup {nodes'[1]} ELSE live
  BY DEF AllocFails
<1>5. Steps' = Steps /\ JobSteps' = JobSteps /\ \A n : Place(n)' = Place(n)
  BY <1>2, StepsFrame
<1>6. NumDesc - itr + 1 \in Task
  <2>1. itr \in Int /\ itr <= NumDesc
    BY <1>1, TestFacts
  <2> QED BY <1>2, <2>1, AccelConstants DEF Task
<1>7. nodes' \in Seq(Task \cup {0}) /\ live' \subseteq Task
  <2>1. nodes \in Seq(Task \cup {0}) /\ live \subseteq Task
    BY <1>1, TestFacts
  <2>2. CASE nodes' = <<>>
    BY <1>4, <2>1, <2>2
  <2>3. CASE nodes' = <<0>>
    BY <1>4, <2>1, <2>3
  <2>4. CASE nodes' = <<NumDesc - itr + 1>> \o nodes
    <3>1. nodes' \in Seq(Task \cup {0}) /\ nodes'[1] = NumDesc - itr + 1
      BY <1>6, <2>1, <2>4
    <3> QED BY <1>4, <1>6, <2>1, <3>1
  <2> QED BY <1>3, <2>2, <2>3, <2>4
<1>8. TestTypes'
  <2>1. {batch, dedicated, bof, spoiled, failedAlloc'} \subseteq BOOLEAN
    BY <1>1, <1>2, TestFacts
  <2> QED BY <1>1, <1>2, <1>5, <1>7, <2>1 DEF TestTypes, TestTypeOK, Entries, QueueRange
<1>9. \A e \in queue : e.task \in timedOut
  BY <1>2, OnlyGivenUp
<1>10. UnitsInv' /\ StaysInBuffers' /\ DoneInv' /\ UndefinedExplained'
  BY <1>2 DEF AccelInv, UnitsInv, StaysInBuffers, DoneInv, Finished, UnitDone, DeltaWhole, UndefinedExplained
<1>11. EntryInv' /\ OutcomeInv' /\ FailExplained'
  BY <1>2, <1>9 DEF EntryInv, OutcomeInv, FailExplained, Active
<1>12. StepInv' /\ WorkInv' /\ ListInv'
  BY <1>2 DEF StepInv, WorkInv, ListInv, Active
<1> QED BY <1>8, <1>10, <1>11, <1>12 DEF AccelInv

-----------------------------------------------------------------------------
(* One descriptor: prepared, resumed, completed.                           *)

\* What changing the fields of a descriptor gives.
LEMMA DescPrepared ==
  ASSUME NEW d \in Descs, NEW l \in 0 .. Word - 1, NEW z \in 0 .. Word - 1
  PROVE  [d EXCEPT !.len = l, !.recSize = z] \in Descs
  BY DEF Descs

LEMMA DescResumed ==
  ASSUME NEW d \in Descs, NEW l \in 0 .. Word - 1, NEW x \in Nat, NEW y \in Nat,
         NEW e, e = [d EXCEPT !.src = x, !.dst = y, !.len = l]
  PROVE  /\ e \in Descs /\ e.src = x /\ e.dst = y /\ e.len = l
         /\ e.delta = d.delta /\ e.recSize = d.recSize
  BY DEF Descs

LEMMA JobPrepared ==
  ASSUME NEW o \in AllJobs, NEW n, NEW d, NEW c, NEW w, NEW s,
         d.src = 0, d.dst = 0, d.len = JobOf[o].len,
         c.status = "none", JobOf[o].len > 0 => w = NoUnits
  PROVE  JobState(o, n, d, c, w, s)
<1> DEFINE j == JobOf[o]
<1>1. GoodJob(o, j)
  BY JobTable
<1> HIDE DEF j
<1>2. j.len \in {0, Size} /\ j.uses \in SUBSET {"src", "dst"}
  BY <1>1 DEF GoodJob
<1>3. d.src = 0 /\ d.dst = 0 /\ d.len = j.len /\ d["src"] = 0 /\ d["dst"] = 0
  BY DEF j
<1>4. Base(j, d) = 0 /\ Rest(j, d, c) = 0 .. 0 + j.len - 1
  BY <1>3 DEF Base, Rest
<1>5. j.len > 0 => \A u \in Unit : w[u] = "none" /\ u \in 0 .. j.len - 1
  BY <1>2, AccelConstants DEF NoUnits, Unit, j
<1>6. Covers(o, d, c, w)
  <2>1. \A f \in j.uses : d[f] = 0
    BY <1>2, <1>3
  <2>2. j.len > 0 => j.len = Size
    BY <1>2, AccelConstants
  <2>3. d.len <= Size /\ Base(j, d) + d.len <= Size
    BY <1>2, <1>3, <1>4, AccelConstants
  <2>4. j.len > 0 => Base(j, d) + d.len = Size
    BY <1>3, <1>4, <2>2, AccelConstants
  <2>5. j.len > 0 => \A u \in Unit : w[u] = "none" /\ u \in Rest(j, d, c)
    BY <1>4, <1>5, <1>2, AccelConstants
  <2> QED BY <1>3, <1>4, <2>1, <2>3, <2>4, <2>5 DEF Covers, j
<1>7. Tells(o, n, d, c)
  BY DEF Tells
<1>8. Compares(o, d, c, s)
  BY <1>3, AccelConstants DEF Compares, Unit
<1> QED BY <1>6, <1>7, <1>8 DEF JobState

\* The resumption covers what the record left.
LEMMA JobResumed ==
  ASSUME NEW o \in AllJobs, NEW n, NEW d \in Descs, NEW c \in Records, NEW w, NEW s,
         JobState(o, n, d, c, w, s), c.status \in JobOf[o].resumes,
         NEW mv, mv = IF c.back THEN JobOf[o].movesBack ELSE JobOf[o].moves,
         NEW e \in Descs, NEW r, r.status = "none",
         e.src = d.src + (IF "src" \in mv THEN c.bytes ELSE 0),
         e.dst = d.dst + (IF "dst" \in mv THEN c.bytes ELSE 0),
         e.len = d.len - (IF "len" \in mv THEN c.bytes ELSE 0)
  PROVE  JobState(o, n, e, r, w, s)
<1> DEFINE j == JobOf[o]
<1>1. GoodJob(o, j)
  BY JobTable
<1> HIDE DEF j
<1>2. j.uses \in SUBSET {"src", "dst"} /\ j.len = Size /\ j.uses # {} /\ j.resumes # {}
  BY <1>1 DEF GoodJob, j
<1>3. d.src \in Nat /\ d.dst \in Nat /\ d.len \in Nat /\ c.bytes \in Nat
  BY AccelConstants DEF Descs, Records
<1>4. c.status # "none" /\ c.status \notin {"success", "batchfail"} /\ c.back \in BOOLEAN
  BY <1>1 DEF GoodJob, Records, j
<1>5. c.status # "error"
  BY <1>1 DEF GoodJob, j
<1>6. c.bytes <= d.len /\ c.bytes < d.len /\ (c.back => o = "memmove")
  BY <1>4, <1>5 DEF JobState, Tells
<1>7. \A f \in {"src", "dst"} : e[f] = d[f] + IF f \in mv THEN c.bytes ELSE 0
  OBVIOUS
<1>8. ~c.back => (o \notin Untracked => \A f \in j.uses \cup {"len"} : f \in mv)
  BY <1>1, <1>2 DEF GoodJob, j
<1>9. c.back => mv = {"len"} /\ o = "memmove"
  BY <1>1, <1>6 DEF GoodJob, j
<1>10. Covers(o, e, r, w)
  <2>1. e.len <= Size /\ e.len # 0
    <3>1. d.len <= Size
      BY DEF JobState, Covers
    <3> QED BY <1>3, <1>6, <3>1, AccelConstants
  <2>2. o = "cflush" => e.dst = 0
    <3>1. o = "cflush" => "dst" \notin mv /\ d.dst = 0
      BY <1>1, <1>4, <1>6 DEF GoodJob, j, JobState, Covers
    <3> QED BY <3>1
  <2>3. ASSUME o \notin Untracked
        PROVE  /\ \A f \in j.uses : e[f] = Base(j, e)
               /\ Base(j, e) + e.len <= Size
               /\ o # "memmove" => Base(j, e) + e.len = Size
               /\ \A u \in Unit : w[u] = "none" <=> u \in Rest(j, e, r)
    <3>1. /\ \A f \in j.uses : d[f] = Base(j, d)
          /\ Base(j, d) + d.len <= Size
          /\ o # "memmove" => Base(j, d) + d.len = Size
          /\ \A u \in Unit : w[u] = "none" <=> u \in Rest(j, d, c)
      BY <1>2, <2>3, AccelConstants DEF JobState, Covers, j
    <3>2. CASE c.back
      <4>1. e.src = d.src /\ e.dst = d.dst /\ e.len = d.len - c.bytes
        BY <1>3, <1>9, <3>2
      <4>2. \A f \in j.uses : e[f] = d[f]
        BY <1>2, <4>1
      <4>3. Base(j, e) = Base(j, d) /\ Base(j, d) \in Nat
        BY <1>3, <4>1 DEF Base
      <4>4. Rest(j, e, r) = Rest(j, d, c)
        BY <1>3, <1>4, <3>2, <4>1, <4>3 DEF Rest
      <4> QED BY <1>3, <1>6, <1>9, <3>1, <3>2, <4>1, <4>2, <4>3, <4>4, AccelConstants
    <3>3. CASE ~c.back
      <4>1. e.len = d.len - c.bytes
        BY <1>8, <2>3, <3>3
      <4>2. \A f \in j.uses : e[f] = d[f] + c.bytes
        BY <1>2, <1>7, <1>8, <2>3, <3>3
      <4>3. Base(j, e) = Base(j, d) + c.bytes /\ Base(j, d) \in Nat
        BY <1>2, <1>3, <4>2 DEF Base
      <4>4. Rest(j, e, r) = Rest(j, d, c)
        BY <1>3, <1>4, <3>3, <4>1, <4>3 DEF Rest
      <4> QED BY <1>3, <1>6, <3>1, <4>1, <4>2, <4>3, <4>4, AccelConstants
    <3> QED BY <1>4, <3>2, <3>3
  <2> QED BY <1>2, <2>1, <2>2, <2>3, AccelConstants DEF Covers, j
<1>11. Compares(o, e, r, s)
  <2>1. ASSUME o \in {"compare", "compval"} PROVE ~c.back /\ "src" \in j.uses /\ o \notin Untracked
    BY <1>1, <1>6, <2>1 DEF GoodJob, Untracked
  <2>2. ASSUME o \in {"compare", "compval"} PROVE e.src = d.src + c.bytes
    BY <1>8, <2>1, <2>2
  <2> QED BY <1>4, <2>2 DEF Compares, JobState
<1> QED BY <1>10, <1>11 DEF JobState, Tells

\* The device stays in the buffers.
LEMMA InBuffers ==
  ASSUME NEW o \in AllJobs, o # "dix_gen", NEW n, NEW d \in Descs, NEW c, NEW w, NEW s,
         JobState(o, n, d, c, w, s), NEW f \in JobOf[o].uses, NEW i \in 0 .. d.len - 1
  PROVE  d[f] + i \in Unit
<1> DEFINE j == JobOf[o]
<1>1. GoodJob(o, j)
  BY JobTable
<1> HIDE DEF j
<1>2. j.uses \in SUBSET {"src", "dst"} /\ f \in j.uses /\ j.len \in Nat /\ j.len > 0 /\ Size \in Nat
  BY <1>1, AccelConstants DEF GoodJob, j
<1>3. d.src \in Nat /\ d.dst \in Nat /\ d.len \in Nat
  BY AccelConstants DEF Descs
<1>4. d.len <= Size
  BY DEF JobState, Covers
<1>5. CASE o = "cflush"
  <2>1. f = "dst" /\ d[f] = 0
    BY <1>1, <1>2, <1>5 DEF GoodJob, JobState, Covers
  <2> QED BY <1>2, <1>3, <1>4, <2>1 DEF Unit
<1>6. CASE o # "cflush"
  <2>1. d[f] = Base(j, d) /\ Base(j, d) + d.len <= Size
    BY <1>2, <1>6 DEF JobState, Covers, Untracked, j
  <2>2. Base(j, d) \in Nat
    BY <1>3 DEF Base
  <2> QED BY <1>2, <1>3, <2>1, <2>2 DEF Unit
<1> QED BY <1>5, <1>6

\* What the device leaves: the record, and the units of a single descriptor or of a batch.
Ended(n, status, b, back, m, z) ==
  [status |-> status, bytes |-> b, back |-> back, mismatch |-> m, recSize |-> z, step |-> n]
Part(d, b, back) == IF back THEN d.len - b .. d.len - 1 ELSE 0 .. b - 1
UnitsDone(o, d, h, w, g) ==
  [u \in Unit |-> IF \E i \in h : \A f \in JobOf[o].uses : d[f] + i = u THEN g[u] ELSE w[u]]
Differs(d, b, s) == s /\ \E i \in 0 .. b - 1 : d.src + i = Size \div 2
SingleEnds(o, d, s, status, b, back, m) ==
  /\ o # "batch" /\ s \in BOOLEAN /\ b \in 0 .. d.len /\ back \in BOOLEAN
  /\ status \in {"success", "fault", "xlat", "error"}
  /\ status = "success" => b = d.len
  /\ status # "success" => b < d.len \/ (status = "error" /\ JobOf[o].len = 0)
  /\ status = "xlat" => o = "memmove"
  /\ back => o = "memmove" /\ status # "success"
  /\ m = Differs(d, b, s) /\ (status # "success" => ~m)
Marking(g) == \A u \in Unit : g[u] # "none"
BatchEnd(d, b, bad) ==
  IF b < d.len THEN "batchfault" ELSE IF bad # "success" THEN "batchfail" ELSE "success"
BatchUnits(d, b, bad, x, w, g) ==
  [u \in Unit |-> IF u \notin d.src .. d.src + b - 1 THEN w[u]
                  ELSE IF u = x /\ bad # "success" THEN bad ELSE g[u]]

\* The record of a descriptor says what the device has done.
LEMMA JobDone ==
  ASSUME NEW o \in AllJobs, NEW n, NEW d \in Descs, NEW c, NEW w, NEW s,
         JobState(o, n, d, c, w, s), c.status = "none",
         NEW status, NEW b, NEW back, NEW m, SingleEnds(o, d, s, status, b, back, m),
         NEW z, NEW g, Marking(g)
  PROVE  JobState(o, n, d, Ended(n, status, b, back, m, z), UnitsDone(o, d, Part(d, b, back), w, g), s)
<1> DEFINE r == Ended(n, status, b, back, m, z)
           h == Part(d, b, back)
           v == UnitsDone(o, d, h, w, g)
<1>1. /\ o # "batch" /\ s \in BOOLEAN /\ b \in 0 .. d.len /\ back \in BOOLEAN
      /\ status \in {"success", "fault", "xlat", "error"}
      /\ status = "success" => b = d.len
      /\ status # "success" => b < d.len \/ (status = "error" /\ JobOf[o].len = 0)
      /\ status = "xlat" => o = "memmove"
      /\ back => o = "memmove" /\ status # "success"
      /\ m = Differs(d, b, s) /\ (status # "success" => ~m)
  BY DEF SingleEnds
<1> USE DEF Ended, Part, UnitsDone, Differs, Marking
<1> DEFINE j == JobOf[o]
<1>2. GoodJob(o, j)
  BY JobTable
<1> HIDE DEF j
<1>3. /\ r.status = status /\ r.bytes = b /\ r.back = back /\ r.mismatch = m /\ r.step = n
      /\ status # "none"
  BY <1>1
<1>4. d.src \in Nat /\ d.dst \in Nat /\ d.len \in Nat /\ b \in Nat /\ b <= d.len /\ Size \in Nat
  BY <1>1, AccelConstants DEF Descs
<1>5. Covers(o, d, r, v)
  <2>1. ASSUME o \notin Untracked, j.len > 0
        PROVE  \A u \in Unit : v[u] = "none" <=> u \in Rest(j, d, r)
    <3>1. /\ \A f \in j.uses : d[f] = Base(j, d)
          /\ \A u \in Unit : w[u] = "none" <=> u \in Rest(j, d, c)
      BY <2>1 DEF JobState, Covers, j
    <3>2. Base(j, d) \in Nat
      BY <1>4 DEF Base
    <3>3. j.uses # {}
      BY <1>2, <2>1, AccelConstants DEF GoodJob
    <3> TAKE u \in Unit
    <3>4. u \in Nat
      BY AccelConstants DEF Unit
    <3>5. v[u] = IF \E i \in h : Base(j, d) + i = u THEN g[u] ELSE w[u]
      BY <3>1, <3>3 DEF j
    <3>6. w[u] = "none" <=> u \in Base(j, d) .. Base(j, d) + d.len - 1
      BY <3>1 DEF Rest
    <3>7. Rest(j, d, r) = IF back THEN Base(j, d) .. Base(j, d) + d.len - 1 - b
                          ELSE Base(j, d) + b .. Base(j, d) + d.len - 1
      BY <1>3 DEF Rest
    <3>8. (\E i \in h : Base(j, d) + i = u) <=> u - Base(j, d) \in h
      <4>1. \A i \in h : i \in Int
        BY <1>4
      <4> DEFINE x == u - Base(j, d)
      <4>2. Base(j, d) + x = u
        BY <3>2, <3>4
      <4>3. \A i \in h : Base(j, d) + i = u => i = x
        BY <3>2, <3>4, <4>1
      <4> HIDE DEF x
      <4>4. (\E i \in h : Base(j, d) + i = u) <=> x \in h
        BY <4>2, <4>3, Zenon
      <4> QED BY <4>4 DEF x
    <3>9. u - Base(j, d) \in h <=> IF back THEN u \in Base(j, d) + d.len - b .. Base(j, d) + d.len - 1
                                   ELSE u \in Base(j, d) .. Base(j, d) + b - 1
      <4> DEFINE x == Base(j, d)
      <4>1. x \in Nat /\ d.len \in Nat /\ b \in Nat /\ u \in Nat
        BY <1>4, <3>2, <3>4
      <4>2. h = IF back THEN d.len - b .. d.len - 1 ELSE 0 .. b - 1
        OBVIOUS
      <4> HIDE DEF x
      <4>3. u - x \in d.len - b .. d.len - 1 <=> u \in x + d.len - b .. x + d.len - 1
        BY ONLY <4>1
      <4>4. u - x \in 0 .. b - 1 <=> u \in x .. x + b - 1
        BY ONLY <4>1
      <4>5. u - x \in h <=> IF back THEN u \in x + d.len - b .. x + d.len - 1 ELSE u \in x .. x + b - 1
        BY ONLY <4>2, <4>3, <4>4
      <4> QED BY <4>5 DEF x
    <3> DEFINE x == Base(j, d)
    <3> HIDE DEF x
    <3>10. v[u] = "none" <=> u - x \notin h /\ u \in x .. x + d.len - 1
      BY <3>5, <3>6, <3>8 DEF x
    <3>11. CASE back
      <4>1. u - x \in h <=> u \in x + d.len - b .. x + d.len - 1
        BY <3>9, <3>11 DEF x
      <4>2. Rest(j, d, r) = x .. x + d.len - 1 - b /\ x \in Nat
        BY <3>2, <3>7, <3>11 DEF x
      <4>3. u \notin x + d.len - b .. x + d.len - 1 /\ u \in x .. x + d.len - 1
            <=> u \in x .. x + d.len - 1 - b
        BY ONLY <1>4, <3>4, <4>2
      <4> QED BY <3>10, <4>1, <4>2, <4>3
    <3>12. CASE ~back
      <4>1. u - x \in h <=> u \in x .. x + b - 1
        BY <3>9, <3>12 DEF x
      <4>2. Rest(j, d, r) = x + b .. x + d.len - 1 /\ x \in Nat
        BY <3>2, <3>7, <3>12 DEF x
      <4>3. u \notin x .. x + b - 1 /\ u \in x .. x + d.len - 1 <=> u \in x + b .. x + d.len - 1
        BY ONLY <1>4, <3>4, <4>2
      <4> QED BY <3>10, <4>1, <4>2, <4>3
    <3> QED BY <3>11, <3>12
  <2> QED BY <2>1 DEF JobState, Covers, j
<1>6. Tells(o, n, d, r)
  BY <1>1, <1>3, <1>4 DEF Tells
<1>7. Compares(o, d, r, s)
  <2>1. ASSUME o \in {"compare", "compval"} PROVE Base(j, d) = d.src /\ d.src + d.len = Size
    <3>1. "src" \in j.uses /\ j.len > 0 /\ o \notin Untracked /\ o # "memmove"
      BY <1>2, <2>1, AccelConstants DEF GoodJob, Untracked
    <3>2. Base(j, d) = d.src
      BY <3>1 DEF Base
    <3> QED BY <3>1, <3>2 DEF JobState, Covers, j
  <2>2. ASSUME o \in {"compare", "compval"} PROVE s => d.src <= Size \div 2
    BY <2>2 DEF JobState, Compares
  <2> DEFINE x == Size \div 2
  <2>3. x \in Nat /\ x < Size
    BY AccelConstants DEF Unit
  <2>4. m = (s /\ \E i \in 0 .. b - 1 : d.src + i = x)
    BY <1>1
  <2>5. ASSUME o \in {"compare", "compval"}, s PROVE d.src <= x
    BY <2>2, <2>5
  <2> HIDE DEF x
  <2>6. ASSUME d.src <= x PROVE (\E i \in 0 .. b - 1 : d.src + i = x) <=> x < d.src + b
    <3>1. x - d.src \in Nat /\ d.src + (x - d.src) = x
      BY <1>4, <2>3, <2>6
    <3>2. x < d.src + b => x - d.src \in 0 .. b - 1
      BY ONLY <1>4, <2>3, <2>6
    <3>3. \A i \in 0 .. b - 1 : d.src + i = x => x < d.src + b
      BY ONLY <1>4, <2>3
    <3> QED BY ONLY <3>1, <3>2, <3>3
  <2>7. ASSUME o \in {"compare", "compval"}, status = "success" PROVE m = s
    BY <1>1, <1>4, <2>1, <2>5, <2>3, <2>4, <2>6, <2>7
  <2>8. ASSUME o \in {"compare", "compval"}, status # "success", s PROVE d.src + b <= x
    <3>1. d.src <= x /\ ~m
      BY <1>1, <2>8, <2>5
    <3>2. ~(x < d.src + b)
      BY <2>4, <2>6, <2>8, <3>1
    <3> QED BY <1>4, <2>3, <3>2
  <2>9. ASSUME o \in {"compare", "compval"}, status # "success" PROVE s => d.src + b <= Size \div 2
    BY <2>8, <2>9 DEF x
  <2> QED BY <1>3, <2>7, <2>9 DEF Compares
<1> QED BY <1>5, <1>6, <1>7 DEF JobState

\* The same for a batch, one of whose descriptors may have failed.
LEMMA BatchDone ==
  ASSUME NEW n, NEW d \in Descs, NEW c, NEW w, NEW s,
         JobState("batch", n, d, c, w, s), c.status = "none",
         NEW b \in 0 .. d.len, NEW bad \in {"success", "fault", "error"}, NEW x,
         NEW m, NEW z, NEW r, r = Ended(n, BatchEnd(d, b, bad), b, FALSE, m, z),
         NEW g, \A u \in Unit : g[u] # "none",
         NEW v, v = BatchUnits(d, b, bad, x, w, g)
  PROVE  JobState("batch", n, d, r, v, s)
<1> USE DEF Ended, BatchEnd, BatchUnits
<1> DEFINE status == BatchEnd(d, b, bad)
           j == JobOf["batch"]
<1>1. GoodJob("batch", j)
  BY JobTable DEF AllJobs
<1> HIDE DEF j
<1>2. /\ r.status = status /\ r.bytes = b /\ r.back = FALSE /\ r.step = n /\ status # "none"
  OBVIOUS
<1>3. d.src \in Nat /\ d.len \in Nat /\ b \in Nat /\ b <= d.len /\ Size \in Nat
  BY AccelConstants DEF Descs
<1>4. "src" \in j.uses /\ j.len > 0 /\ Base(j, d) = d.src
  BY <1>1, AccelConstants DEF GoodJob, Base
<1>5. /\ d.src + d.len = Size
      /\ \A u \in Unit : w[u] = "none" <=> u \in Rest(j, d, c)
  BY <1>4 DEF JobState, Covers, Untracked, j
<1>6. \A u \in Unit : v[u] = "none" <=> u \in Rest(j, d, r)
  <2> TAKE u \in Unit
  <2>1. w[u] = "none" <=> u \in d.src .. d.src + d.len - 1
    BY <1>4, <1>5 DEF Rest
  <2>2. Rest(j, d, r) = d.src + b .. d.src + d.len - 1
    BY <1>2, <1>4 DEF Rest
  <2>3. v[u] = "none" <=> u \notin d.src .. d.src + b - 1 /\ w[u] = "none"
    OBVIOUS
  <2>4. u \in Int
    BY AccelConstants DEF Unit
  <2> QED BY <1>3, <2>1, <2>2, <2>3, <2>4
<1>7. Covers("batch", d, r, v)
  BY <1>6 DEF JobState, Covers, j
<1>8. Tells("batch", n, d, r)
  BY <1>2, <1>3 DEF Tells
<1> QED BY <1>7, <1>8 DEF JobState, Compares

-----------------------------------------------------------------------------
(* Preparation and submission.                                             *)

\* The job of the current step.
LEMMA CurrentFacts ==
  ASSUME AccelInv, step \in JobSteps
  PROVE  /\ Steps[step] \in AllJobs /\ CurrentJob = JobOf[Steps[step]]
         /\ GoodJob(Steps[step], CurrentJob) /\ CurrentJob.len \in {0, Size}
         /\ Place(step) = "prep" /\ (Steps[step] = "batch" <=> batch)
<1>1. op \in AllJobs \ {"batch"} /\ batch \in BOOLEAN /\ step \in Nat \ {0}
  BY TestFacts DEF AccelInv
<1>2. Place(step) = "prep" /\ (Steps[step] = "batch" <=> batch)
  BY <1>1, StepTable DEF GoodStep
<1>3. Steps[step] \in AllJobs
  BY JobNames DEF JobSteps
<1> QED BY <1>2, <1>3, JobTable DEF CurrentJob, GoodJob

LEMMA ClearedRecord ==
  ASSUME NEW t \in Task, comp \in [Task -> Records]
  PROVE  Cleared(t) \in Records /\ Cleared(t).status = "none"
<1>1. comp[t] \in Records
  OBVIOUS
<1> DEFINE c == comp[t]
<1>2. c \in Records
  BY <1>1
<1> HIDE DEF c
<1>3. [c EXCEPT !.status = "none"] \in Records /\ [c EXCEPT !.status = "none"].status = "none"
  BY <1>2 DEF Records
<1> QED BY <1>3 DEF Cleared, c

LEMMA PrepKeeps ==
  ASSUME AccelInv, Prep
  PROVE  AccelInv'
<1>1. TestTypes /\ Held /\ step \in JobSteps /\ k \in 1 .. RoundSize
  BY DEF AccelInv, Prep, ListInv, StepInv, Active
<1>2. /\ pc = "prep" /\ pc' = "submit" /\ k' = 1
      /\ UNCHANGED <<op, batch, dedicated, bof, step, rc, itr, nodes, live, failedAlloc, spoiled, queue>>
      /\ UNCHANGED <<delta, troubles, timedOut, lost, hurt, strayed, redone>>
  BY DEF Prep, setting, memVars, happened
<1> DEFINE j == CurrentJob
<1> DEFINE size(t) == IF Steps[step] = "ap_delta" THEN comp[t].recSize ELSE 0
           new(t) == [NoDesc EXCEPT !.len = j.len, !.recSize = size(t)]
<1>3. /\ desc' = [t \in Task |-> IF InList(t) THEN new(t) ELSE desc[t]]
      /\ unit' = [t \in Task |-> IF InList(t) /\ j.len > 0 THEN NoUnits ELSE unit[t]]
      /\ comp' = [t \in Task |-> IF InList(t) THEN Cleared(t) ELSE comp[t]]
  BY DEF Prep
<1>4. Steps[step] \in AllJobs /\ j = JobOf[Steps[step]] /\ j.len \in {0, Size}
  BY <1>1, CurrentFacts
<1> HIDE DEF j
<1>5. \A t : /\ new(t).src = 0 /\ new(t).dst = 0 /\ new(t).delta = 0
              /\ new(t).len = j.len /\ new(t).recSize = size(t)
  BY DEF NoDesc
<1>6. \A t \in Task : new(t) \in Descs
  <2> TAKE t \in Task
  <2>1. comp[t] \in Records
    BY <1>1, TestFacts
  <2>2. size(t) \in 0 .. Word - 1 /\ j.len \in 0 .. Word - 1
    BY <1>4, <2>1, AccelConstants DEF Records
  <2> HIDE DEF size
  <2>3. NoDesc \in Descs
    BY AccelConstants DEF NoDesc, Descs
  <2> QED BY <2>2, <2>3, DescPrepared
<1> HIDE DEF new
<1>7. Steps' = Steps /\ JobSteps' = JobSteps /\ Held' /\ RoundSize' = RoundSize
  BY <1>1, <1>2, StepsFrame, HeldFrame
<1>8. TestTypes'
  <2>1. desc' \in [Task -> Descs]
    <3>1. desc \in [Task -> Descs]
      BY <1>1, TestFacts
    <3> QED BY <1>3, <1>6, <3>1
  <2>2. unit' \in [Task -> [Unit -> Marks]]
    <3>1. NoUnits \in [Unit -> Marks]
      BY DEF NoUnits, Marks
    <3>2. unit \in [Task -> [Unit -> Marks]]
      BY <1>1, TestFacts
    <3> QED BY <1>3, <3>1, <3>2
  <2>3. comp' \in [Task -> Records]
    BY <1>1, <1>3, TestFacts, ClearedRecord
  <2>4. \A t \in Task : comp'[t].bytes \in 0 .. Word - 1
    BY <2>3 DEF Records
  <2>5. k' \in 1 .. NumDesc
    BY <1>2, AccelConstants
  <2> QED BY <1>1, <1>2, <1>7, <2>1, <2>2, <2>3, <2>4, <2>5 DEF TestTypes, TestTypeOK, Entries, QueueRange, Descs, Marks
<1>9. \A e \in queue : e.task \in timedOut
  BY <1>2, OnlyGivenUp
<1>10. ListInv' /\ StepInv' /\ UndefinedExplained'
  BY <1>1, <1>2, <1>7, RoundFacts DEF AccelInv, ListInv, StepInv, UndefinedExplained, Active
<1>11. UnitsInv'
  BY <1>2, <1>3 DEF AccelInv, UnitsInv, NoUnits
<1>12. WorkInv'
  <2>1. ASSUME NEW i \in 1 .. RoundSize, nodes[i] \notin timedOut
        PROVE  JobInv(nodes[i], step)' /\ comp'[nodes[i]].status = "none"
    <3>1. Steps[step] = "ap_delta" => Readied(nodes[i])
      BY <1>2, <2>1 DEF AccelInv, WorkInv, Active
    <3> DEFINE t == nodes[i]
    <3>2. t \in Task /\ InList(t)
      BY <1>1, <2>1, RoundFacts
    <3> HIDE DEF t
    <3>3. desc'[t] = new(t) /\ (j.len > 0 => unit'[t] = NoUnits)
          /\ comp'[t].status = "none"
      BY <1>1, <1>3, <3>2, TestFacts, ClearedRecord
    <3>4. JobState(Steps[step], step, desc'[t], comp'[t], unit'[t], spoiled)
      BY <1>4, <1>5, <3>3, JobPrepared
    <3>5. Unmoved(Steps[step], desc'[t]) /\ Recorded(Steps[step], comp'[t], delta[t])
      BY <1>5, <3>3 DEF Unmoved, Recorded
    <3>6. ASSUME t \notin redone \cup hurt
          PROVE  Applied(Steps[step], desc'[t], unit'[t], delta[t])
      <4>1. CASE Steps[step] = "ap_delta"
        <5>1. delta[t] = Unit /\ desc'[t].recSize = Size
          BY <1>5, <3>1, <3>3, <3>6, <4>1 DEF Readied, t
        <5>2. j.len > 0
          <6>1. GoodJob(Steps[step], j)
            BY <1>4, JobTable
          <6> QED BY <1>4, <4>1, <6>1, AccelConstants DEF GoodJob
        <5>3. \A u \in Unit : unit'[t][u] # "wrong"
          BY <3>3, <5>2 DEF NoUnits
        <5> QED BY <4>1, <5>1, <5>3 DEF Applied
      <4>2. CASE Steps[step] # "ap_delta"
        BY <3>3, <4>2 DEF Applied
      <4> QED BY <4>1, <4>2
    <3> QED BY <1>2, <1>7, <3>3, <3>4, <3>5, <3>6 DEF JobInv, DeltaInv, t
  <2> QED BY <1>2, <1>7, <2>1 DEF WorkInv
<1>13. EntryInv' /\ OutcomeInv' /\ FailExplained' /\ StaysInBuffers'
  BY <1>2, <1>9 DEF AccelInv, EntryInv, OutcomeInv, FailExplained, StaysInBuffers, Active
<1>14. DoneInv'
  <2>1. ASSUME NEW t \in Task, t <= NumDesc - itr PROVE unit'[t] = unit[t]
    <3>1. ~InList(t)
      BY <1>1, <2>1, RoundFacts, AccelConstants DEF Task
    <3> QED BY <1>3, <3>1
  <2>2. \A t \in Task : t <= NumDesc - itr /\ Finished(t) => Finished(t)'
    BY <1>2, <2>1, FinishedFrame
  <2> QED BY <1>2, <2>2 DEF AccelInv, DoneInv
<1> QED BY <1>8, <1>10, <1>11, <1>12, <1>13, <1>14 DEF AccelInv

\* What is at the device when a descriptor has been handed over, or lost.
LEMMA SubmittedTypes ==
  ASSUME TestTypes, NEW t \in Task, NEW d \in Descs, step \in JobSteps, DescSubmit(t, d)
  PROVE  /\ queue' \subseteq Entries /\ troubles' \in 0 .. Troubles /\ lost' \subseteq Task
         /\ queue' \subseteq queue \cup {Entry(t, d)}
<1>1. Entry(t, d) \in Entries
  <2>1. Entry(t, d) = [task |-> t, step |-> step, src |-> d.src, dst |-> d.dst,
                       delta |-> d.delta, len |-> d.len, recSize |-> d.recSize]
    BY DEF Entry
  <2> QED BY <2>1 DEF Entries, Descs
<1>2. queue \subseteq Entries /\ troubles \in 0 .. Troubles /\ lost \subseteq Task
  BY TestFacts
<1> QED BY <1>1, <1>2, AccelConstants DEF DescSubmit

LEMMA SubmitKeeps ==
  ASSUME AccelInv, Submit
  PROVE  AccelInv'
<1>1. TestTypes /\ Held /\ step \in JobSteps /\ k \in 1 .. RoundSize
  BY DEF AccelInv, Submit, ListInv, StepInv, Active
<1>2. /\ pc = "submit" /\ DescSubmit(Node, desc[Node])
      /\ UNCHANGED <<op, batch, dedicated, bof, step, rc, itr, nodes, live, failedAlloc, spoiled>>
      /\ UNCHANGED <<desc, comp, unit, delta, timedOut, hurt, strayed, redone>>
  BY DEF Submit, setting, memVars, jobVars
<1>3. /\ Len(nodes) = RoundSize /\ RoundSize \in Nat /\ k \in Nat
      /\ nodes[k] \in Task
  BY <1>1, RoundFacts, AccelConstants
<1>4. \/ k = RoundSize /\ pc' = "wait" /\ k' = 1
      \/ k < RoundSize /\ pc' = "submit" /\ k' = k + 1
  BY <1>1, <1>2, <1>3 DEF Submit
<1>5. /\ Steps' = Steps /\ JobSteps' = JobSteps /\ Held' /\ RoundSize' = RoundSize
      /\ \A n : Place(n)' = Place(n)
  BY <1>1, <1>2, StepsFrame, HeldFrame
<1> DEFINE t == nodes[k]
<1>6. desc[t] \in Descs /\ t \in Task /\ Node = t
  BY <1>1, <1>3, TestFacts DEF Descs, Node
<1> HIDE DEF t
<1>7. /\ queue' \subseteq Entries /\ troubles' \in 0 .. Troubles /\ lost' \subseteq Task
      /\ queue' \subseteq queue \cup {Entry(t, desc[t])}
  BY <1>1, <1>2, <1>6, SubmittedTypes
<1>8. \A x, n : JobInv(x, n) => JobInv(x, n)'
  BY <1>1, <1>2, TasksFrame DEF setting
<1>9. TestTypes'
  <2>1. k' \in 1 .. NumDesc
    BY <1>1, <1>3, <1>4, RoundTaskTypes, AccelConstants DEF Held
  <2> QED BY <1>1, <1>2, <1>4, <1>5, <1>7, <2>1 DEF TestTypes, TestTypeOK, Entries, QueueRange
<1>10. ListInv' /\ StepInv' /\ UndefinedExplained'
  BY <1>1, <1>2, <1>3, <1>4, <1>5 DEF AccelInv, ListInv, StepInv, UndefinedExplained, Active
<1>11. UnitsInv' /\ DoneInv' /\ StaysInBuffers' /\ OutcomeInv' /\ FailExplained'
  BY <1>2, <1>4 DEF AccelInv, UnitsInv, DoneInv, Finished, UnitDone, DeltaWhole, StaysInBuffers, OutcomeInv, FailExplained, Active
<1>12. WorkInv'
  <2>1. ASSUME NEW i \in 1 .. RoundSize, nodes[i] \notin timedOut
        PROVE  JobInv(nodes[i], step)' /\ (i >= k => comp[nodes[i]].status = "none")
    BY <1>2, <1>8, <2>1 DEF AccelInv, WorkInv, Active
  <2> QED BY <1>2, <1>3, <1>4, <1>5, <2>1 DEF WorkInv
<1>13. EntryInv'
  <2>1. ASSUME NEW e \in queue', e.task \notin timedOut
        PROVE  /\ \E i \in 1 .. RoundSize : e.task = nodes[i] /\ i <= k
               /\ e = Entry(e.task, desc[e.task]) /\ comp[e.task].status = "none"
               /\ JobInv(e.task, step)
    <3>1. CASE e \in queue
      <4>1. \A i \in 1 .. RoundSize : i < k => i <= k
        BY <1>3
      <4> QED BY <1>2, <2>1, <3>1, <4>1 DEF AccelInv, EntryInv
    <3>2. CASE e = Entry(t, desc[t])
      <4>1. e.task = t
        BY <3>2 DEF Entry
      <4>2. comp[t].status = "none" /\ JobInv(t, step)
        BY <1>1, <1>2, <1>3, <2>1, <4>1 DEF AccelInv, WorkInv, Active, t
      <4> QED BY <1>1, <1>3, <3>2, <4>1, <4>2 DEF t
    <3> QED BY <1>7, <2>1, <3>1, <3>2
  <2>2. \A x : Entry(x, desc[x])' = Entry(x, desc[x])
    BY <1>2 DEF Entry
  <2> SUFFICES ASSUME NEW e \in queue', e.task \notin timedOut
               PROVE  /\ \E i \in 1 .. RoundSize :
                            e.task = nodes[i] /\ (pc' = "submit" => i < k') /\ (pc' = "wait" => i >= k')
                      /\ e = Entry(e.task, desc[e.task])' /\ comp[e.task].status = "none"
                      /\ JobInv(e.task, step)'
    BY <1>1, <1>2, <1>4, <1>5 DEF EntryInv
  <2>3. PICK i \in 1 .. RoundSize : e.task = nodes[i] /\ i <= k
    BY <2>1
  <2>4. (pc' = "submit" => i < k') /\ (pc' = "wait" => i >= k')
    BY <1>3, <1>4, <2>3
  <2>5. e = Entry(e.task, desc[e.task])'
    BY <2>1, <2>2
  <2>6. JobInv(e.task, step)'
    BY <1>2, <1>8, <2>1
  <2> QED BY <2>1, <2>3, <2>4, <2>5, <2>6
<1> QED BY <1>9, <1>10, <1>11, <1>12, <1>13 DEF AccelInv

-----------------------------------------------------------------------------
(* Waiting.                                                                *)

\* Of a node and those after it.
LEMMA NodeFacts ==
  ASSUME TestTypes, Held, k \in 1 .. RoundSize
  PROVE  /\ RoundSize \in Nat /\ k \in Nat /\ Len(nodes) = RoundSize
         /\ Node = nodes[k] /\ Node \in Task
         /\ k < RoundSize => k + 1 \in 1 .. RoundSize /\ k + 1 \in 1 .. NumDesc
         /\ 1 \in 1 .. RoundSize /\ 1 \in 1 .. NumDesc
         /\ \A i \in 1 .. RoundSize : i \in Nat /\ (i < k + 1 => i < k \/ i = k)
                                      /\ (nodes[i] # Node /\ i >= k => i >= k + 1)
<1>1. RoundSize \in Nat /\ 1 <= RoundSize /\ RoundSize <= NumDesc
  BY RoundTaskTypes DEF Held
<1>2. k \in Nat /\ 1 <= k /\ k <= RoundSize
  BY <1>1
<1>3. Len(nodes) = RoundSize /\ Node = nodes[k] /\ Node \in Task
  BY RoundFacts DEF Node
<1>4. k < RoundSize => k + 1 \in 1 .. RoundSize /\ k + 1 \in 1 .. NumDesc
  BY <1>1, <1>2, AccelConstants
<1>5. 1 \in 1 .. RoundSize /\ 1 \in 1 .. NumDesc
  BY <1>1, AccelConstants
<1>6. \A i \in 1 .. RoundSize : i \in Nat /\ (i < k + 1 => i < k \/ i = k)
  BY <1>1, <1>2
<1>7. \A i \in 1 .. RoundSize : nodes[i] # Node /\ i >= k => i >= k + 1
  BY <1>1, <1>2, <1>3
<1> QED BY <1>1, <1>2, <1>3, <1>4, <1>5, <1>6, <1>7

LEMMA WaitTimesOutKeeps ==
  ASSUME AccelInv, WaitTimesOut
  PROVE  AccelInv'
<1>1. TestTypes /\ Held /\ step \in JobSteps /\ k \in 1 .. RoundSize
  BY DEF AccelInv, WaitTimesOut, ListInv, StepInv, Active
<1>2. /\ pc = "wait" /\ timedOut' = timedOut \cup {Node} /\ rc' = "timeout"
      /\ UNCHANGED <<op, batch, dedicated, bof, itr, nodes, live, failedAlloc, spoiled, queue>>
      /\ UNCHANGED <<desc, comp, unit, delta, troubles, lost, hurt, strayed, redone>>
  BY DEF WaitTimesOut, Waited, setting, memVars, jobVars
<1>3. \/ pc' = "exit" /\ step' = step /\ k' = k
      \/ pc' = "wait" /\ step' = step /\ k' = k + 1 /\ k # Len(nodes)
  BY <1>2 DEF WaitTimesOut, Waited
<1>4. /\ Len(nodes) = RoundSize /\ RoundSize \in Nat /\ k \in Nat /\ Node \in Task /\ Node = nodes[k]
      /\ k # Len(nodes) => k + 1 \in 1 .. RoundSize /\ k + 1 \in 1 .. NumDesc
  BY <1>1, NodeFacts
<1>5. /\ Steps' = Steps /\ JobSteps' = JobSteps /\ Held' /\ RoundSize' = RoundSize
      /\ \A n : Place(n)' = Place(n)
  BY <1>1, <1>2, StepsFrame, HeldFrame
<1>6. \A x, n : (JobInv(x, n) => JobInv(x, n)') /\ (Settled(x, n) => Settled(x, n)')
  BY <1>1, <1>2, TasksFrame DEF setting
<1>7. TestTypes'
  BY <1>1, <1>2, <1>3, <1>4, <1>5 DEF TestTypes, TestTypeOK, Entries, QueueRange
<1>8. ListInv' /\ StepInv' /\ UndefinedExplained'
  BY <1>1, <1>2, <1>3, <1>4, <1>5 DEF AccelInv, ListInv, StepInv, UndefinedExplained, Active
<1>9. UnitsInv' /\ DoneInv'
  BY <1>2, <1>3 DEF AccelInv, UnitsInv, DoneInv, Finished, UnitDone, DeltaWhole
<1>10. StaysInBuffers' /\ OutcomeInv' /\ FailExplained'
  BY <1>2, <1>3 DEF AccelInv, StaysInBuffers, OutcomeInv, FailExplained
<1>11. WorkInv'
  <2>1. ASSUME NEW i \in 1 .. RoundSize, nodes[i] \notin timedOut, nodes[i] # Node
        PROVE  JobInv(nodes[i], step)' /\ (i < k + 1 => Settled(nodes[i], step)')
    <3>1. i < k + 1 => i < k
      BY <1>1, <2>1, NodeFacts
    <3>2. JobInv(nodes[i], step) /\ (i < k => Settled(nodes[i], step))
      BY <1>2, <2>1 DEF AccelInv, WorkInv, Active
    <3> QED BY <1>2, <1>3, <1>6, <3>1, <3>2
  <2> QED BY <1>2, <1>3, <1>5, <2>1 DEF WorkInv, Active
<1>12. EntryInv'
  <2>1. \A x : Entry(x, desc[x])' = Entry(x, desc[x])
    BY <1>2, <1>3 DEF Entry
  <2> SUFFICES ASSUME NEW e \in queue, e.task \notin timedOut, e.task # Node
               PROVE  /\ \E i \in 1 .. RoundSize : e.task = nodes[i] /\ (pc' = "wait" => i >= k')
                      /\ e = Entry(e.task, desc[e.task])' /\ comp[e.task].status = "none"
                      /\ JobInv(e.task, step)'
    BY <1>1, <1>2, <1>3, <1>5 DEF EntryInv
  <2>2. PICK i \in 1 .. RoundSize : e.task = nodes[i] /\ i >= k
    BY <1>2 DEF AccelInv, EntryInv
  <2>3. i >= k + 1
    BY <1>1, <2>2, NodeFacts
  <2>4. e = Entry(e.task, desc[e.task]) /\ comp[e.task].status = "none" /\ JobInv(e.task, step)
    BY DEF AccelInv, EntryInv
  <2> QED BY <1>3, <1>6, <2>1, <2>2, <2>3, <2>4
<1> QED BY <1>7, <1>8, <1>9, <1>10, <1>11, <1>12 DEF AccelInv

\* Where the program goes when the last wait of a job is over.
LEMMA NextStep ==
  ASSUME AccelInv, step \in JobSteps, UNCHANGED <<op, batch>>, GoTo(step + 1)
  PROVE  /\ step' = step + 1 /\ step' - 1 = step /\ k' = 1 /\ pc' \in {"prep", "verify", "free"}
         /\ step' \in 1 .. Len(Steps) + 1
         /\ pc' = "prep" => step' \in JobSteps
         /\ pc' = "prep" /\ Steps[step'] = "ap_delta" => Steps[step] = "cr_delta" /\ ~batch
         /\ Place(step') = pc'
         /\ pc' = "free" => op \in Silent
         /\ op \in {"compare", "compval"} /\ ~batch => (step >= 4 <=> step' >= 4)
<1>1. op \in AllJobs \ {"batch"} /\ batch \in BOOLEAN /\ step \in Nat \ {0}
  BY TestFacts DEF AccelInv
<1>2. GoodStep(step) /\ Len(Steps) \in Nat
  BY <1>1, StepTable
<1>3. step \in 1 .. Len(Steps)
  BY DEF JobSteps
<1>4. step' = step + 1 /\ k' = 1 /\ pc' = Place(step + 1)
  BY DEF GoTo
<1>5. step' \in 1 .. Len(Steps) + 1 /\ step' - 1 = step
  BY <1>2, <1>3, <1>4
<1>6. /\ pc' \in {"prep", "verify", "free"} /\ (pc' = "free" => op \in Silent)
      /\ (pc' = "prep" => step' \in JobSteps)
      /\ (pc' = "prep" /\ Steps[step'] = "ap_delta" => Steps[step] = "cr_delta" /\ ~batch)
  BY <1>2, <1>4 DEF GoodStep
<1>7. op \in {"compare", "compval"} /\ ~batch => step \in {1, 4}
  BY <1>2 DEF GoodStep
<1> QED BY <1>4, <1>5, <1>6, <1>7

\* A created delta record is ready to be applied.
LEMMA RecordReady ==
  ASSUME AccelInv, NEW t \in Task, NEW n, Steps[n] = "cr_delta", ~batch, Settled(t, n)
  PROVE  Readied(t)
<1>1. PICK d, c : d = desc[t] /\ c = comp[t]
  OBVIOUS
<1>2. d \in Descs /\ c \in Records /\ delta[t] \subseteq Unit
  BY <1>1, TestFacts DEF AccelInv
<1> DEFINE j == JobOf["cr_delta"]
<1>3. GoodJob("cr_delta", j)
  BY JobTable DEF AllJobs
<1> HIDE DEF j
<1>4. SUFFICES ASSUME t \notin redone \cup hurt
               PROVE  delta[t] = Unit /\ c.recSize = Size
  BY <1>1 DEF Readied
<1>5. /\ Covers("cr_delta", d, c, unit[t]) /\ Tells("cr_delta", n, d, c) /\ c.status # "none"
      /\ c.status \notin j.resumes /\ c.status # "error"
  BY <1>1, <1>4 DEF Settled, JobInv, JobState, j
<1>6. c.status = "success"
  BY <1>3, <1>5 DEF Tells, GoodJob
<1>7. c.bytes = d.len /\ d.src = 0 /\ d.dst = 0
        /\ c.recSize = c.bytes /\ 0 .. c.bytes - 1 \subseteq delta[t]
  BY <1>1, <1>4, <1>5, <1>6 DEF Tells, Settled, JobInv, DeltaInv, Unmoved, Recorded, DeltaJobs
<1>8. j.len > 0
  BY <1>3, AccelConstants DEF GoodJob
<1>9. Base(j, d) = 0 /\ Base(j, d) + d.len = Size
  BY <1>5, <1>7, <1>8 DEF Covers, Base, Untracked, j
<1>10. d.len = Size
  BY <1>2, <1>9, AccelConstants DEF Descs
<1> QED BY <1>2, <1>7, <1>10 DEF Unit

LEMMA WaitDoneKeeps ==
  ASSUME AccelInv, WaitDone
  PROVE  AccelInv'
<1>1. TestTypes /\ Held /\ step \in JobSteps /\ k \in 1 .. RoundSize
  BY DEF AccelInv, WaitDone, ListInv, StepInv, Active
<1>2. /\ pc = "wait" /\ comp[Node].status # "none" /\ ~Resumable(Node) /\ rc' = "ok"
      /\ UNCHANGED <<op, batch, dedicated, bof, itr, nodes, live, failedAlloc, spoiled, queue>>
      /\ UNCHANGED <<desc, comp, unit, delta, troubles, timedOut, lost, hurt, strayed, redone>>
  BY DEF WaitDone, Waited, setting, memVars, jobVars, happened
<1>3. /\ Len(nodes) = RoundSize /\ RoundSize \in Nat /\ k \in Nat /\ Node \in Task /\ Node = nodes[k]
      /\ (k < RoundSize => k + 1 \in 1 .. RoundSize /\ k + 1 \in 1 .. NumDesc)
      /\ 1 \in 1 .. RoundSize /\ 1 \in 1 .. NumDesc
  BY <1>1, NodeFacts
<1>4. \/ k = RoundSize /\ GoTo(step + 1)
      \/ k < RoundSize /\ pc' = "wait" /\ step' = step /\ k' = k + 1
  BY <1>1, <1>2, <1>3 DEF WaitDone, Waited
<1>5. /\ Steps' = Steps /\ JobSteps' = JobSteps /\ Held' /\ RoundSize' = RoundSize
      /\ \A n : Place(n)' = Place(n)
  BY <1>1, <1>2, StepsFrame, HeldFrame
<1>6. \A x, n : (JobInv(x, n) => JobInv(x, n)') /\ (Settled(x, n) => Settled(x, n)')
  BY <1>1, <1>2, TasksFrame DEF setting
<1>7. \/ /\ k = RoundSize /\ step' = step + 1 /\ step' - 1 = step /\ k' = 1
         /\ pc' \in {"prep", "verify", "free"} /\ step' \in 1 .. Len(Steps) + 1
         /\ (pc' = "prep" => step' \in JobSteps) /\ Place(step') = pc'
         /\ (pc' = "prep" /\ Steps[step'] = "ap_delta" => Steps[step] = "cr_delta" /\ ~batch)
         /\ (pc' = "free" => op \in Silent)
         /\ (op \in {"compare", "compval"} /\ ~batch => (step >= 4 <=> step' >= 4))
      \/ k < RoundSize /\ pc' = "wait" /\ step' = step /\ k' = k + 1
  BY <1>1, <1>2, <1>4, NextStep
<1>8. TestTypes'
  BY <1>1, <1>2, <1>3, <1>5, <1>7 DEF TestTypes, TestTypeOK, Entries, QueueRange
<1>9. ListInv' /\ StepInv' /\ UndefinedExplained'
  BY <1>1, <1>2, <1>3, <1>5, <1>7 DEF AccelInv, ListInv, StepInv, UndefinedExplained, Active
<1>10. UnitsInv' /\ StaysInBuffers' /\ OutcomeInv' /\ FailExplained'
  BY <1>2, <1>7 DEF AccelInv, UnitsInv, StaysInBuffers, OutcomeInv, FailExplained
<1>11. DoneInv'
  <2>1. \A i \in 1 .. RoundSize : ~(i < 1)
    OBVIOUS
  <2> QED BY <1>2, <1>5, <1>7, <2>1 DEF AccelInv, DoneInv, Finished, UnitDone, DeltaWhole
<1>12. ASSUME NEW i \in 1 .. RoundSize, nodes[i] \notin timedOut
       PROVE  /\ JobInv(nodes[i], step)
              /\ i < k + 1 => Settled(nodes[i], step)
  <2>1. JobInv(nodes[i], step) /\ (i < k => Settled(nodes[i], step))
    BY <1>2, <1>12 DEF AccelInv, WorkInv, Active
  <2>2. i < k + 1 => i < k \/ i = k
    BY <1>1, NodeFacts
  <2>3. ASSUME i = k PROVE Settled(nodes[i], step)
    BY <1>2, <1>3, <2>1, <2>3 DEF Settled, Resumable, CurrentJob
  <2> QED BY <2>1, <2>2, <2>3
<1>13. WorkInv'
  <2> SUFFICES ASSUME NEW i \in 1 .. RoundSize, nodes[i] \notin timedOut
               PROVE  /\ pc' = "prep" /\ Steps[step'] = "ap_delta" => Readied(nodes[i])'
                      /\ pc' \in {"submit", "wait"} => JobInv(nodes[i], step)'
                      /\ pc' = "wait" /\ i < k' => Settled(nodes[i], step)'
                      /\ pc' = "verify" => Settled(nodes[i], step - 1)'
    BY <1>2, <1>5, <1>7 DEF WorkInv
  <2>1. CASE pc' = "wait"
    BY <1>2, <1>6, <1>7, <1>12, <2>1
  <2>2. CASE pc' = "verify"
    <3>1. i < k + 1
      BY <1>3, <1>7, <2>2
    <3>2. Settled(nodes[i], step)
      BY <1>12, <3>1
    <3>3. step' - 1 = step
      BY <1>7, <2>2
    <3> QED BY <1>2, <1>6, <2>2, <3>2, <3>3
  <2>3. CASE pc' = "prep" /\ Steps[step'] = "ap_delta"
    <3>1. i < k + 1 /\ Steps[step] = "cr_delta" /\ ~batch
      BY <1>3, <1>7, <2>3
    <3>2. Settled(nodes[i], step) /\ nodes[i] \in Task
      BY <1>1, <1>12, <3>1, RoundFacts
    <3>3. Readied(nodes[i])
      BY <3>1, <3>2, RecordReady
    <3> QED BY <1>2, <2>3, <3>3 DEF Readied
  <2> QED BY <1>7, <2>1, <2>2, <2>3
<1>14. EntryInv'
  <2>1. ASSUME NEW e \in queue, e.task \notin timedOut
        PROVE  /\ k < RoundSize
               /\ \E i \in 1 .. RoundSize : e.task = nodes[i] /\ i >= k + 1
               /\ e = Entry(e.task, desc[e.task]) /\ comp[e.task].status = "none"
               /\ JobInv(e.task, step)
    <3>1. e = Entry(e.task, desc[e.task]) /\ comp[e.task].status = "none" /\ JobInv(e.task, step)
      BY <2>1 DEF AccelInv, EntryInv
    <3>2. PICK i \in 1 .. RoundSize : e.task = nodes[i] /\ i >= k
      BY <1>2, <2>1 DEF AccelInv, EntryInv
    <3>3. nodes[i] # Node
      BY <1>2, <3>1, <3>2
    <3>4. i >= k + 1
      BY <1>1, <3>2, <3>3, NodeFacts
    <3>5. k < RoundSize
      BY <1>3, <3>4
    <3> QED BY <3>1, <3>2, <3>4, <3>5
  <2> SUFFICES ASSUME NEW e \in queue, e.task \notin timedOut
               PROVE  /\ pc' \in {"submit", "wait", "exit"}
                      /\ \E i \in 1 .. RoundSize :
                            e.task = nodes[i] /\ (pc' = "submit" => i < k') /\ (pc' = "wait" => i >= k')
                      /\ e = Entry(e.task, desc[e.task])' /\ comp[e.task].status = "none"
                      /\ step' \in JobSteps /\ JobInv(e.task, step)'
    BY <1>2, <1>5 DEF EntryInv
  <2>2. pc' = "wait" /\ step' = step /\ k' = k + 1
    BY <1>3, <1>7, <2>1
  <2>3. e = Entry(e.task, desc[e.task])'
    BY <1>2, <2>1, <2>2 DEF Entry
  <2>4. JobInv(e.task, step)'
    BY <1>6, <2>1, <2>2
  <2> QED BY <1>1, <2>1, <2>2, <2>3, <2>4
<1> QED BY <1>8, <1>9, <1>10, <1>11, <1>13, <1>14 DEF AccelInv

LEMMA ModWord ==
  ASSUME NEW a \in Int
  PROVE  /\ a % Word \in 0 .. Word - 1
         /\ a \in 0 .. Word - 1 => a % Word = a
<1> DEFINE W == Word
<1>1. W \in Nat /\ W > 0
  BY AccelConstants
<1> HIDE DEF W
<1>2. a % W \in 0 .. W - 1
  BY <1>1, SMT
<1>3. ASSUME a \in 0 .. W - 1 PROVE a % W = a
  <2> DEFINE q == a \div W
             r == a % W
  <2>1. q \in Int /\ r \in 0 .. W - 1 /\ a = W * q + r
    BY <1>1, SMT
  <2> HIDE DEF q, r
  <2>2. q < 0 => W * q <= -W
    BY <1>1, <2>1, SMT
  <2>3. q > 0 => W * q >= W
    BY <1>1, <2>1, SMT
  <2>4. q = 0
    BY <1>1, <1>3, <2>1, <2>2, <2>3
  <2>5. W * q = 0
    BY <1>1, <2>4
  <2> QED BY <1>1, <2>1, <2>5 DEF r
<1> QED BY <1>2, <1>3 DEF W

\* What a wait resubmits, and what it is a resumption of.
LEMMA ResumedFacts ==
  ASSUME TestTypes, NEW t \in Task, step \in JobSteps
  PROVE  /\ ResumedAt(t) \in Descs
         /\ ResumedAt(t).src = desc[t].src + MovedBy(t, "src", comp[t].bytes)
         /\ ResumedAt(t).dst = desc[t].dst + MovedBy(t, "dst", comp[t].bytes)
         /\ ResumedAt(t).delta = desc[t].delta /\ ResumedAt(t).recSize = desc[t].recSize
         /\ comp[t].bytes <= desc[t].len =>
               ResumedAt(t).len = desc[t].len - MovedBy(t, "len", comp[t].bytes)
<1> DEFINE e == ResumedAt(t)
           b == comp[t].bytes
<1>1. desc[t] \in Descs /\ comp[t] \in Records
  BY TestFacts
<1>2. /\ desc[t].src \in Nat /\ desc[t].dst \in Nat /\ desc[t].len \in 0 .. Word - 1
      /\ b \in 0 .. Word - 1 /\ desc[t].delta = 0 /\ desc[t].recSize \in 0 .. Word - 1
  BY <1>1 DEF Descs, Records
<1> DEFINE x == desc[t].src + MovedBy(t, "src", b)
           y == desc[t].dst + MovedBy(t, "dst", b)
<1>3. e = [desc[t] EXCEPT !.src = x, !.dst = y, !.len = (desc[t].len - MovedBy(t, "len", b)) % Word]
  BY DEF ResumedAt
<1> HIDE DEF e, b
<1>4. \A f : MovedBy(t, f, b) \in {0, b}
  BY DEF MovedBy
<1> DEFINE a == desc[t].len - MovedBy(t, "len", b)
<1>5. b \in Nat /\ a \in Int /\ (b <= desc[t].len => a \in 0 .. Word - 1)
  BY <1>2, <1>4, AccelConstants
<1> HIDE DEF a
<1>6. a % Word \in 0 .. Word - 1 /\ (b <= desc[t].len => a % Word = a)
  BY <1>5, ModWord
<1>7. x \in Nat /\ y \in Nat
  BY <1>2, <1>4, <1>5
<1>8. e = [desc[t] EXCEPT !.src = x, !.dst = y, !.len = a % Word]
  BY <1>3 DEF a
<1> HIDE DEF x, y
<1>9. /\ e \in Descs /\ e.src = x /\ e.dst = y /\ e.len = a % Word
      /\ e.delta = desc[t].delta /\ e.recSize = desc[t].recSize
  <2> DEFINE l == a % Word
             d == desc[t]
  <2>1. /\ d \in Descs /\ l \in 0 .. Word - 1 /\ x \in Nat /\ y \in Nat
        /\ e = [d EXCEPT !.src = x, !.dst = y, !.len = l]
    BY <1>1, <1>6, <1>7, <1>8
  <2> HIDE DEF l, d
  <2>2. e \in Descs /\ e.src = x /\ e.dst = y /\ e.len = l /\ e.delta = d.delta /\ e.recSize = d.recSize
    BY <2>1 DEF Descs
  <2> QED BY <2>2 DEF l, d
<1> QED BY <1>6, <1>9 DEF e, b, a, x, y

LEMMA WaitResumesKeeps ==
  ASSUME AccelInv, WaitResumes
  PROVE  AccelInv'
<1>1. TestTypes /\ Held /\ step \in JobSteps /\ k \in 1 .. RoundSize
  BY DEF AccelInv, WaitResumes, ListInv, StepInv, Active
<1>2. PICK t, e : t = Node /\ e = ResumedAt(t)
  OBVIOUS
<1>3. /\ pc = "wait" /\ Resumable(t) /\ DescSubmit(t, e)
      /\ desc' = [desc EXCEPT ![t] = e] /\ comp' = [comp EXCEPT ![t] = Cleared(t)]
      /\ UNCHANGED <<op, batch, dedicated, bof, pc, step, k, rc, itr, nodes, live, failedAlloc>>
      /\ UNCHANGED <<unit, delta, spoiled, timedOut, hurt, strayed>>
      /\ redone' = IF Steps[step] \in DeltaJobs THEN redone \cup {t} ELSE redone
  BY <1>2 DEF WaitResumes, setting, memVars
<1>4. /\ k \in Nat /\ t \in Task /\ t = nodes[k]
  BY <1>1, <1>2, NodeFacts
<1>5. e \in Descs /\ desc \in [Task -> Descs] /\ comp \in [Task -> Records] /\ queue \subseteq Entries
  BY <1>1, <1>2, <1>4, ResumedFacts, TestFacts DEF Descs
<1>6. /\ e.src = desc[t].src + MovedBy(t, "src", comp[t].bytes)
      /\ e.dst = desc[t].dst + MovedBy(t, "dst", comp[t].bytes)
      /\ (comp[t].bytes <= desc[t].len => e.len = desc[t].len - MovedBy(t, "len", comp[t].bytes))
  BY <1>1, <1>2, <1>4, ResumedFacts
<1>7. Cleared(t) \in Records /\ Cleared(t).status = "none"
  BY <1>4, <1>5, ClearedRecord
<1>8. Steps[step] \in AllJobs /\ CurrentJob = JobOf[Steps[step]]
  BY <1>1, CurrentFacts
<1>9. comp[t].status \in CurrentJob.resumes /\ comp[t].status # "none"
  BY <1>1, <1>3, CurrentFacts DEF Resumable, GoodJob
<1>10. /\ queue' \subseteq Entries /\ troubles' \in 0 .. Troubles /\ lost' \subseteq Task
      /\ queue' \subseteq queue \cup {Entry(t, e)}
  BY <1>1, <1>3, <1>4, <1>5, SubmittedTypes
<1>11. desc' \in [Task -> Descs] /\ comp' \in [Task -> Records] /\ desc'[t] = e /\ comp'[t] = Cleared(t)
  BY <1>3, <1>4, <1>5, <1>7
<1>12. \A x \in Task : x # t => desc'[x] = desc[x] /\ comp'[x] = comp[x]
  BY <1>3, <1>5
<1>13. /\ Steps' = Steps /\ JobSteps' = JobSteps /\ Held' /\ RoundSize' = RoundSize
       /\ \A n : Place(n)' = Place(n)
  BY <1>1, <1>3, StepsFrame, HeldFrame
<1>14. \A x \in Task : \A n : x # t => (JobInv(x, n) => JobInv(x, n)') /\ (Settled(x, n) => Settled(x, n)')
  <2>1. redone \subseteq redone' /\ hurt \subseteq hurt'
    BY <1>3
  <2> QED BY <1>3, <1>12, <2>1, JobFrame, SettledFrame
<1>15. ASSUME t \notin timedOut PROVE JobInv(t, step)'
  <2>1. JobInv(t, step)
    BY <1>1, <1>3, <1>4, <1>15 DEF AccelInv, WorkInv, Active
  <2> DEFINE o == Steps[step]
             d == desc[t]
             c == comp[t]
             mv == IF c.back THEN JobOf[o].movesBack ELSE JobOf[o].moves
             r == Cleared(t)
  <2>2. JobState(o, step, d, c, unit[t], spoiled) /\ d \in Descs /\ c \in Records
    BY <1>4, <1>5, <2>1 DEF JobInv
  <2>3. c.bytes <= d.len
    BY <1>9, <2>2 DEF JobState, Tells
  <2>4. \A f : MovedBy(t, f, c.bytes) = IF f \in mv THEN c.bytes ELSE 0
    BY <1>8 DEF MovedBy, Moves
  <2>5. /\ e.src = d.src + (IF "src" \in mv THEN c.bytes ELSE 0)
        /\ e.dst = d.dst + (IF "dst" \in mv THEN c.bytes ELSE 0)
        /\ e.len = d.len - (IF "len" \in mv THEN c.bytes ELSE 0)
    BY <1>6, <2>3, <2>4
  <2>6. c.status \in JobOf[o].resumes /\ o \in AllJobs /\ r.status = "none"
    BY <1>7, <1>8, <1>9
  <2> HIDE DEF o, d, c, mv, r
  <2>7. mv = IF c.back THEN JobOf[o].movesBack ELSE JobOf[o].moves
    BY DEF mv
  <2>8. JobState(o, step, e, r, unit[t], spoiled)
    BY <1>5, <2>2, <2>5, <2>6, <2>7, JobResumed
  <2>9. DeltaInv(t, step)'
    BY <1>3, <1>13 DEF DeltaInv, Unmoved, Recorded, Applied, DeltaJobs
  <2> QED BY <1>3, <1>7, <1>11, <1>13, <2>8, <2>9 DEF JobInv, o, r
<1>16. TestTypes'
  <2>1. \A x \in Task : comp'[x].bytes \in 0 .. Word - 1
    BY <1>11 DEF Records
  <2>2. timedOut' \cup lost' \cup hurt' \cup strayed' \cup redone' \subseteq Task
    <3>1. redone' \subseteq redone \cup {t}
      BY <1>3
    <3> QED BY <1>1, <1>3, <1>4, <1>10, <3>1, TestFacts
  <2> QED BY <1>1, <1>3, <1>10, <1>11, <1>13, <2>1, <2>2 DEF TestTypes, TestTypeOK, Entries, QueueRange, Descs
<1>17. ListInv' /\ StepInv' /\ UndefinedExplained'
  BY <1>1, <1>3, <1>13 DEF AccelInv, ListInv, StepInv, UndefinedExplained, Active
<1>18. UnitsInv' /\ DoneInv' /\ StaysInBuffers' /\ OutcomeInv' /\ FailExplained'
  BY <1>3 DEF AccelInv, UnitsInv, DoneInv, Finished, UnitDone, DeltaWhole, StaysInBuffers, OutcomeInv, FailExplained, Active
<1>19. WorkInv'
  <2>1. ASSUME NEW i \in 1 .. RoundSize, nodes[i] \notin timedOut
        PROVE  JobInv(nodes[i], step)' /\ (i < k => Settled(nodes[i], step)')
    <3>1. JobInv(nodes[i], step) /\ (i < k => Settled(nodes[i], step))
      BY <1>3, <2>1 DEF AccelInv, WorkInv, Active
    <3>2. CASE nodes[i] = t
      <4>1. i = k
        BY <1>1, <1>4, <3>2, RoundFacts
      <4> QED BY <1>3, <1>4, <1>15, <2>1, <3>2, <4>1
    <3>3. CASE nodes[i] # t
      <4>1. nodes[i] \in Task
        BY <1>1, RoundFacts
      <4> QED BY <1>3, <1>14, <3>1, <3>3, <4>1
    <3> QED BY <3>2, <3>3
  <2> QED BY <1>3, <1>13, <2>1 DEF WorkInv, Active
<1>20. EntryInv'
  <2> SUFFICES ASSUME NEW x \in queue', x.task \notin timedOut
               PROVE  /\ \E i \in 1 .. RoundSize : x.task = nodes[i] /\ i >= k
                      /\ x = Entry(x.task, desc[x.task])' /\ comp'[x.task].status = "none"
                      /\ JobInv(x.task, step)'
    BY <1>1, <1>3, <1>13 DEF EntryInv
  <2>1. CASE x = Entry(t, e)
    <3>1. x.task = t
      BY <2>1 DEF Entry
    <3>2. x = Entry(x.task, desc[x.task])'
      BY <1>3, <1>11, <2>1, <3>1 DEF Entry
    <3>3. k \in 1 .. RoundSize /\ x.task = nodes[k] /\ k >= k
      BY <1>1, <1>4, <3>1
    <3>4. comp'[x.task].status = "none"
      BY <1>7, <1>11, <3>1
    <3>5. JobInv(x.task, step)'
      BY <1>15, <3>1
    <3> QED BY <3>2, <3>3, <3>4, <3>5
  <2>2. CASE x \in queue
    <3>1. /\ x = Entry(x.task, desc[x.task]) /\ comp[x.task].status = "none"
          /\ JobInv(x.task, step)
          /\ \E i \in 1 .. RoundSize : x.task = nodes[i] /\ i >= k
      BY <1>3, <2>2 DEF AccelInv, EntryInv
    <3>2. x.task # t /\ x.task \in Task
      BY <1>5, <1>9, <2>2, <3>1 DEF Entries
    <3>3. x = Entry(x.task, desc[x.task])' /\ comp'[x.task].status = "none"
      BY <1>3, <1>12, <3>1, <3>2 DEF Entry
    <3>4. JobInv(x.task, step)'
      BY <1>3, <1>14, <3>1, <3>2
    <3> QED BY <3>1, <3>3, <3>4
  <2> QED BY <1>10, <2>1, <2>2
<1> QED BY <1>16, <1>17, <1>18, <1>19, <1>20 DEF AccelInv

-----------------------------------------------------------------------------
(* Verification.                                                           *)

LEMMA SpoilKeeps ==
  ASSUME AccelInv, Spoil
  PROVE  AccelInv'
<1>1. TestTypes /\ Held /\ k \in 1 .. RoundSize /\ Place(step) = "spoil" /\ op \in AllJobs \ {"batch"}
      /\ batch \in BOOLEAN /\ step \in Nat \ {0}
  BY TestFacts DEF AccelInv, Spoil, ListInv, StepInv, Active
<1>2. /\ pc = "spoil" /\ spoiled' = TRUE /\ GoTo(step + 1)
      /\ comp' = [t \in Task |-> IF InList(t) THEN NoRecord ELSE comp[t]]
      /\ UNCHANGED <<op, batch, dedicated, bof, rc, itr, nodes, live, failedAlloc, queue>>
      /\ UNCHANGED <<desc, unit, delta, troubles, timedOut, lost, hurt, strayed, redone>>
  BY DEF Spoil, setting, memVars, happened
<1>3. /\ step = 3 /\ 4 \in JobSteps /\ Place(4) = "prep" /\ Steps[4] # "ap_delta"
      /\ op \in {"compare", "compval"} /\ ~batch
  BY <1>1, StepTable DEF GoodStep
<1>4. step' = 4 /\ k' = 1 /\ pc' = "prep" /\ 4 \in 1 .. Len(Steps) + 1
  <2>1. Len(Steps) \in Nat /\ 4 \in 1 .. Len(Steps)
    BY <1>1, <1>3, StepTable DEF JobSteps
  <2> QED BY <1>2, <1>3, <2>1 DEF GoTo
<1>5. /\ Steps' = Steps /\ JobSteps' = JobSteps /\ Held' /\ RoundSize' = RoundSize
      /\ \A n : Place(n)' = Place(n)
  BY <1>1, <1>2, StepsFrame, HeldFrame
<1>6. comp' \in [Task -> Records] /\ \A t \in Task : comp'[t].bytes \in 0 .. Word - 1
  <2>1. NoRecord \in Records
    BY AccelConstants DEF NoRecord, Records
  <2>2. comp \in [Task -> Records]
    BY <1>1, TestFacts
  <2>3. comp' \in [Task -> Records]
    BY <1>2, <2>1, <2>2
  <2> QED BY <2>3 DEF Records
<1>7. TestTypes'
  <2>1. {batch, dedicated, bof, spoiled', failedAlloc} \subseteq BOOLEAN
    BY <1>1, <1>2, TestFacts
  <2>2. k' \in 1 .. NumDesc
    BY <1>4, AccelConstants
  <2> QED BY <1>1, <1>2, <1>4, <1>5, <1>6, <2>1, <2>2 DEF TestTypes, TestTypeOK, Entries, QueueRange
<1>8. \A e \in queue : e.task \in timedOut
  BY <1>2, OnlyGivenUp
<1>9. ListInv' /\ StepInv' /\ UndefinedExplained'
  <2>1. 1 \in 1 .. RoundSize
    BY <1>1, NodeFacts
  <2> QED BY <1>1, <1>2, <1>3, <1>4, <1>5, <2>1
       DEF AccelInv, ListInv, StepInv, UndefinedExplained, Active
<1>10. UnitsInv' /\ DoneInv' /\ StaysInBuffers' /\ FailExplained'
  BY <1>2, <1>4 DEF AccelInv, UnitsInv, DoneInv, Finished, UnitDone, DeltaWhole, StaysInBuffers, FailExplained
<1>11. WorkInv' /\ EntryInv' /\ OutcomeInv'
  BY <1>2, <1>3, <1>4, <1>5, <1>8 DEF AccelInv, WorkInv, EntryInv, OutcomeInv, Active
<1> QED BY <1>7, <1>9, <1>10, <1>11 DEF AccelInv

\* Nothing is left of a descriptor that ended well.
LEMMA NothingLeft ==
  ASSUME NEW o \in AllJobs, o \notin Silent, NEW n, NEW d \in Descs, NEW c \in Records, NEW w, NEW s,
         JobState(o, n, d, c, w, s), c.status \in {"success", "batchfail"}
  PROVE  \A u \in Unit : w[u] # "none"
<1> DEFINE j == JobOf[o]
<1>1. GoodJob(o, j)
  BY JobTable
<1> HIDE DEF j
<1>2. j.len > 0 /\ o \notin Untracked
  BY <1>1, AccelConstants DEF GoodJob, Silent, Untracked
<1>3. d.src \in Nat /\ d.dst \in Nat /\ d.len \in Nat /\ c.bytes \in Nat
  BY AccelConstants DEF Descs, Records
<1>4. c.bytes = d.len /\ ~c.back
  BY DEF JobState, Tells, Records
<1>5. Base(j, d) \in Nat
  BY <1>3 DEF Base
<1>6. Rest(j, d, c) = Base(j, d) + d.len .. Base(j, d) + d.len - 1
  BY <1>4 DEF Rest
<1>7. \A u \in Unit : u \notin Rest(j, d, c)
  BY <1>3, <1>5, <1>6
<1>8. \A u \in Unit : w[u] = "none" <=> u \in Rest(j, d, c)
  BY <1>2 DEF JobState, Covers, j
<1> QED BY <1>7, <1>8

\* A descriptor whose wait is over is done, unless it failed for a reason.
LEMMA SettledSingle ==
  ASSUME AccelInv, pc = "verify", NEW t \in Task, Settled(t, step - 1), ~batch
  PROVE  /\ \/ Verify(t) = "ok" \/ hurt # {}
            \/ op = "transl_fetch" /\ comp[t].status = "fault"
         /\ Verify(t) = "ok" /\ op \notin Silent => Finished(t)
<1>1. /\ TestTypes /\ op \in AllJobs \ {"batch"} /\ batch \in BOOLEAN /\ step \in Nat \ {0}
      /\ spoiled \in BOOLEAN /\ desc[t] \in Descs /\ comp[t] \in Records
      /\ unit[t] \in [Unit -> Marks]
  BY TestFacts DEF AccelInv, Descs
<1>2. GoodStep(step) /\ Place(step) = "verify"
  BY <1>1, StepTable DEF AccelInv, StepInv
<1>3. Steps[step - 1] = op
  BY <1>2 DEF GoodStep
<1>4. PICK d, c, w : d = desc[t] /\ c = comp[t] /\ w = unit[t]
  OBVIOUS
<1>5. /\ JobState(op, step - 1, d, c, w, spoiled) /\ c.status # "none"
      /\ c.status \notin JobOf[op].resumes /\ (c.status = "error" => hurt # {})
  BY <1>3, <1>4 DEF Settled, JobInv
<1>6. c.status \in {"success", "fault", "xlat", "error"} /\ (c.status = "xlat" => op = "memmove")
  BY <1>1, <1>5 DEF JobState, Tells
<1>7. GoodJob(op, JobOf[op])
  BY <1>1, JobTable
<1>8. Verify(t) = "ok" => c.status = "success"
  BY <1>4, <1>5 DEF Verify
<1>9. CASE c.status = "error"
  BY <1>5, <1>9, <1>8
<1>10. CASE c.status = "xlat"
  BY <1>5, <1>6, <1>7, <1>10 DEF GoodJob
<1>11. CASE c.status = "fault"
  <2>1. op \in {"noop", "drain", "transl_fetch"}
    BY <1>1, <1>5, <1>7, <1>11 DEF GoodJob
  <2>2. op \notin {"noop", "drain"}
    <3>1. op \in {"noop", "drain"} => d.len = 0
      BY <1>5, <1>7 DEF GoodJob, JobState, Covers
    <3>2. c.bytes \in Nat /\ c.bytes <= d.len /\ c.bytes # d.len
      BY <1>1, <1>4, <1>5, <1>11, AccelConstants DEF JobState, Tells, Records
    <3> QED BY <3>1, <3>2
  <2> QED BY <1>4, <1>11, <1>8, <2>1, <2>2
<1>12. CASE c.status = "success"
  <2>1. ASSUME op \notin Silent
        PROVE  \A u \in Unit : w[u] = "success" \/ (op = "ap_delta" /\ w[u] = "wrong")
    <3>1. \A u \in Unit : w[u] # "none"
      BY <1>1, <1>4, <1>5, <1>12, <2>1, NothingLeft
    <3>2. \A u \in Unit : w[u] \notin {"fault", "error"} /\ (w[u] = "wrong" => op = "ap_delta")
      BY <1>4 DEF AccelInv, UnitsInv
    <3> QED BY <1>1, <1>4, <3>1, <3>2 DEF Marks
  <2>2. op \notin Silent /\ op # "ap_delta" => \A u \in Unit : w[u] = "success"
    BY <2>1
  <2>3. ASSUME op \notin Silent PROVE Finished(t)
    <3>1. op = "ap_delta" /\ DeltaWhole(t) => \A u \in Unit : w[u] # "wrong"
      BY <1>3, <1>4 DEF Settled, JobInv, DeltaInv, Applied, DeltaWhole
    <3>2. ASSUME op = "cr_delta", t \notin redone PROVE delta[t] = Unit
      <4>1. c.recSize = c.bytes /\ 0 .. c.bytes - 1 \subseteq delta[t] /\ d.src = 0 /\ d.dst = 0
        BY <1>3, <1>4, <1>5, <3>2 DEF Settled, JobInv, DeltaInv, Recorded, Unmoved, DeltaJobs
      <4>2. c.bytes = d.len /\ d.len \in Nat
        BY <1>1, <1>4, <1>5, <1>12, AccelConstants DEF JobState, Tells, Descs
      <4>3. JobOf[op].len > 0 /\ op \notin Untracked
        BY <1>7, <3>2, AccelConstants DEF GoodJob, Untracked
      <4>4. Base(JobOf[op], d) = 0 /\ Base(JobOf[op], d) + d.len = Size
        BY <1>5, <3>2, <4>1, <4>3 DEF JobState, Covers, Base
      <4>5. c.bytes = Size
        BY <4>2, <4>4
      <4>6. delta[t] \subseteq Unit
        BY <1>1, TestFacts
      <4> QED BY <4>1, <4>5, <4>6 DEF Unit
    <3> QED BY <1>4, <2>3, <2>1, <3>1, <3>2 DEF Finished, UnitDone
  <2>4. ASSUME op \in {"compare", "compval"} PROVE c.mismatch = (Steps[step] = "verifyMismatch")
    <3>1. c.mismatch = spoiled
      BY <1>5, <1>12, <2>4 DEF JobState, Compares
    <3>2. spoiled <=> step >= 4
      BY <2>4 DEF AccelInv, StepInv, Active
    <3>3. step \in {2, 5} /\ (Steps[step] = "verifyMismatch" <=> step = 5)
      BY <1>2, <2>4 DEF GoodStep
    <3>4. spoiled <=> Steps[step] = "verifyMismatch"
      BY <3>2, <3>3
    <3> QED BY <1>1, <3>1, <3>4
  <2>5. ASSUME op \notin {"compare", "compval"} PROVE \A u \in Checked(t) : w[u] = "success"
    <3>1. CASE op \in {"memmove", "memfill", "dualcast"}
      BY <2>2, <3>1 DEF Checked, Silent
    <3>2. CASE op \in {"dif_ins", "dif_strp", "dif_updt"}
      <4>1. Size - 1 \in Unit
        BY AccelConstants DEF Unit
      <4> QED BY <2>2, <3>2, <4>1 DEF Checked, Silent
    <3>3. CASE op \in {"crcgen", "copy_crc"}
      <4>1. Checked(t) = d.src .. d.src + d.len - 1
        BY <1>4, <3>3 DEF Checked
      <4>2. "src" \in JobOf[op].uses /\ op # "dix_gen"
        BY <1>7, <3>3 DEF GoodJob
      <4>3. \A i \in 0 .. d.len - 1 : d.src + i \in Unit
        <5>1. \A i \in 0 .. d.len - 1 : d["src"] + i \in Unit
          BY <1>1, <1>4, <1>5, <4>2, InBuffers
        <5> QED BY <5>1
      <4>4. \A u \in Checked(t) : u - d.src \in 0 .. d.len - 1 /\ d.src + (u - d.src) = u
        BY <1>1, <1>4, <4>1, AccelConstants DEF Descs
      <4>5. Checked(t) \subseteq Unit
        BY <4>3, <4>4
      <4> QED BY <2>2, <3>3, <4>5 DEF Silent
    <3>4. CASE op \notin {"memmove", "memfill", "dualcast", "dif_ins", "dif_strp", "dif_updt", "crcgen", "copy_crc"}
      BY <3>4 DEF Checked
    <3> QED BY <3>1, <3>2, <3>3, <3>4
  <2>6. Verify(t) = "ok"
    BY <1>4, <1>12, <2>4, <2>5 DEF Verify
  <2> QED BY <2>3, <2>6
<1> QED BY <1>6, <1>9, <1>10, <1>11, <1>12

LEMMA SettledBatch ==
  ASSUME AccelInv, pc = "verify", NEW t \in Task, Settled(t, step - 1), batch
  PROVE  /\ \/ BatchVerify(t) = "ok" \/ hurt # {}
            \/ comp[t].status = "batchfault" /\ desc[t].len - comp[t].bytes = 1
         /\ BatchVerify(t) = "ok" => Finished(t)
<1>1. /\ TestTypes /\ op \in AllJobs \ {"batch"} /\ batch \in BOOLEAN /\ step \in Nat \ {0}
      /\ desc[t] \in Descs /\ comp[t] \in Records
      /\ unit[t] \in [Unit -> Marks]
  BY TestFacts DEF AccelInv, Descs
<1>2. GoodStep(step) /\ Place(step) = "verify" /\ Len(Steps) \in Nat
  BY <1>1, StepTable DEF AccelInv, StepInv
<1>3. Steps[step - 1] = "batch"
  <2>1. step - 1 \in JobSteps /\ step - 1 \in Nat \ {0}
    BY <1>1, <1>2, StepTable DEF GoodStep
  <2> QED BY <1>1, <2>1, StepTable DEF GoodStep
<1>4. PICK d, c, w : d = desc[t] /\ c = comp[t] /\ w = unit[t]
  OBVIOUS
<1>5. JobState("batch", step - 1, d, c, w, spoiled) /\ c.status # "none"
  BY <1>3, <1>4 DEF Settled, JobInv
<1>6. c.status \in {"success", "batchfault", "batchfail"} /\ c.bytes <= d.len
      /\ (c.status = "batchfault" => c.bytes < d.len)
  BY <1>5 DEF JobState, Tells
<1>7. d.len \in Nat /\ c.bytes \in Nat
  BY <1>1, <1>4, AccelConstants DEF Descs, Records
<1>8. BatchVerify(t) = "ok" => Finished(t)
  BY <1>1 DEF BatchVerify, Finished, UnitDone, DeltaWhole, AccelInv, UnitsInv
<1>9. CASE c.status = "batchfault"
  <2>1. JobOf["batch"].resumes = {"batchfault"}
    BY JobTable DEF GoodJob, AllJobs
  <2>2. ~(d.len - c.bytes >= 2)
    BY <1>3, <1>4, <1>9, <2>1 DEF Settled
  <2> QED BY <1>4, <1>6, <1>7, <1>9, <1>8, <2>2
<1>10. CASE c.status # "batchfault" /\ hurt = {}
  <2>1. \A u \in Unit : w[u] # "none"
    BY <1>1, <1>4, <1>5, <1>6, <1>10, NothingLeft DEF Silent, AllJobs
  <2>2. \A u \in Unit : w[u] # "error" /\ (w[u] = "fault" => ~bof)
    BY <1>4, <1>10 DEF AccelInv, UnitsInv
  <2>3. \A u \in Unit : w[u] \in {"success", "wrong"} \/ (~bof /\ w[u] = "fault")
    BY <1>1, <1>4, <2>1, <2>2 DEF Marks
  <2> QED BY <1>4, <1>6, <1>8, <2>3 DEF BatchVerify
<1> QED BY <1>9, <1>10, <1>8

LEMMA VerifyNodeKeeps ==
  ASSUME AccelInv, VerifyNode
  PROVE  AccelInv'
<1>1. TestTypes /\ Held /\ k \in 1 .. RoundSize /\ Place(step) = "verify" /\ op \in AllJobs \ {"batch"}
      /\ batch \in BOOLEAN /\ step \in Nat \ {0}
  BY TestFacts DEF AccelInv, VerifyNode, ListInv, StepInv, Active
<1>2. /\ pc = "verify" /\ rc' = (IF batch THEN BatchVerify(Node) ELSE Verify(Node))
      /\ UNCHANGED <<op, batch, dedicated, bof, itr, nodes, live, failedAlloc, spoiled, queue>>
      /\ UNCHANGED <<desc, comp, unit, delta, troubles, timedOut, lost, hurt, strayed, redone>>
  BY DEF VerifyNode, setting, memVars, jobVars, happened
<1>3. /\ Len(nodes) = RoundSize /\ RoundSize \in Nat /\ k \in Nat /\ Node \in Task /\ Node = nodes[k]
      /\ (k < RoundSize => k + 1 \in 1 .. RoundSize /\ k + 1 \in 1 .. NumDesc)
      /\ 1 \in 1 .. RoundSize /\ 1 \in 1 .. NumDesc
  BY <1>1, NodeFacts
<1>4. rc' \in {"ok", "status", "fail"}
  BY <1>2 DEF BatchVerify, Verify
<1>5. GoodStep(step) /\ Len(Steps) \in Nat
  BY <1>1, StepTable
<1>6. \/ rc' # "ok" /\ Steps[step] # "verifyLast" /\ pc' = "exit" /\ step' = step /\ k' = k
      \/ /\ k < RoundSize /\ (rc' = "ok" \/ Steps[step] = "verifyLast")
         /\ pc' = "verify" /\ step' = step /\ k' = k + 1
      \/ k = RoundSize /\ (rc' = "ok" \/ Steps[step] = "verifyLast") /\ GoTo(step + 1)
  BY <1>1, <1>2, <1>3 DEF VerifyNode
<1>7. GoTo(step + 1) =>
        /\ step' = step + 1 /\ k' = 1 /\ pc' \in {"spoil", "free"} /\ Place(step') = pc'
        /\ step' \in 1 .. Len(Steps) + 1 /\ (pc' = "free" => step = Len(Steps))
        /\ (op \in {"compare", "compval"} /\ ~batch => (step >= 4 <=> step' >= 4))
  BY <1>1, <1>5 DEF GoTo, GoodStep
<1>8. /\ Steps' = Steps /\ JobSteps' = JobSteps /\ Held' /\ RoundSize' = RoundSize
      /\ \A n : Place(n)' = Place(n)
  BY <1>1, <1>2, StepsFrame, HeldFrame
<1>9. \A x, n : Settled(x, n) => Settled(x, n)'
  BY <1>1, <1>2, TasksFrame DEF setting
<1>10. \A i \in 1 .. RoundSize : nodes[i] \notin timedOut => Settled(nodes[i], step - 1)
  BY <1>2 DEF AccelInv, WorkInv, Active
<1>11. /\ \/ Node \in timedOut \/ hurt # {} \/ rc' = "ok"
          \/ ~batch /\ op = "transl_fetch" /\ comp[Node].status = "fault"
          \/ batch /\ comp[Node].status = "batchfault" /\ desc[Node].len - comp[Node].bytes = 1
       /\ Node \notin timedOut /\ rc' = "ok" /\ op \notin Silent => Finished(Node)
  <2>1. Node \notin timedOut => Settled(Node, step - 1)
    BY <1>1, <1>3, <1>10
  <2> QED BY <1>2, <1>3, <2>1, SettledSingle, SettledBatch
<1>12. ASSUME NEW i \in 1 .. RoundSize, nodes[i] \notin timedOut, op \notin Silent, rc' = "ok",
              step = Len(Steps), i < k + 1
       PROVE  Finished(nodes[i])
  <2>1. i < k \/ i = k
    BY <1>1, <1>12, NodeFacts
  <2>2. i < k => Finished(nodes[i])
    BY <1>2, <1>12 DEF AccelInv, DoneInv
  <2> QED BY <1>3, <1>11, <1>12, <2>1, <2>2
<1>13. Steps[step] = "verifyLast" => op = "noop" /\ op \in Silent /\ ~batch
  BY <1>1, <1>5 DEF GoodStep, Silent
<1>14. TestTypes'
  BY <1>1, <1>2, <1>3, <1>4, <1>6, <1>7, <1>8 DEF TestTypes, TestTypeOK, Entries, QueueRange
<1>15. \A e \in queue : e.task \in timedOut
  BY <1>2, OnlyGivenUp
<1>16. ListInv' /\ StepInv' /\ UndefinedExplained'
  BY <1>1, <1>2, <1>3, <1>6, <1>7, <1>8 DEF AccelInv, ListInv, StepInv, UndefinedExplained, Active
<1>17. UnitsInv' /\ StaysInBuffers' /\ EntryInv'
  BY <1>2, <1>15 DEF AccelInv, UnitsInv, StaysInBuffers, EntryInv
<1>18. FailExplained'
  <2>1. CASE pc' = "exit"
    BY <1>2, <1>3, <1>11 DEF FailExplained
  <2> QED BY <2>1 DEF FailExplained
<1>19. OutcomeInv'
  <2>1. CASE pc' = "exit"
    BY <1>2, <1>6, <1>7, <1>15, <2>1 DEF OutcomeInv, Active
  <2>2. CASE pc' # "exit"
    <3>1. rc' # "ok" => hurt # {} \/ timedOut # {}
      BY <1>6, <1>11, <1>13, <2>2
    <3> QED BY <1>2, <1>6, <1>7, <2>2, <3>1 DEF OutcomeInv, Active
  <2> QED BY <2>1, <2>2
<1>20. WorkInv'
  <2>1. CASE pc' = "verify"
    <3>1. step' = step
      BY <1>6, <1>7, <2>1
    <3>2. \A i \in 1 .. RoundSize : nodes[i] \notin timedOut => Settled(nodes[i], step - 1)'
      BY <1>2, <1>9, <1>10, <3>1
    <3> QED BY <1>2, <1>8, <2>1, <3>2 DEF WorkInv
  <2>2. CASE pc' \in {"exit", "spoil", "free"}
    BY <2>2 DEF WorkInv
  <2> QED BY <1>6, <1>7, <2>1, <2>2
<1>21. DoneInv'
  <2>1. \A x : Finished(x)' <=> Finished(x)
    BY <1>2 DEF Finished, UnitDone, DeltaWhole
  <2>2. op \notin Silent => \A x \in Task \ timedOut : x <= NumDesc - itr => Finished(x)
    BY DEF AccelInv, DoneInv
  <2>3. ASSUME NEW i \in 1 .. RoundSize, op \notin Silent, pc' \in {"verify", "free"},
               nodes[i] \notin timedOut, pc' = "verify" => step' = Len(Steps) /\ i < k'
        PROVE  Finished(nodes[i])
    <3>1. rc' = "ok"
      BY <1>6, <1>7, <1>13, <2>3
    <3>2. i < k + 1 /\ step = Len(Steps)
      BY <1>3, <1>6, <1>7, <2>3
    <3> QED BY <1>12, <2>3, <3>1, <3>2
  <2> QED BY <1>2, <1>8, <2>1, <2>2, <2>3 DEF DoneInv
<1> QED BY <1>14, <1>16, <1>17, <1>18, <1>19, <1>20, <1>21 DEF AccelInv

-----------------------------------------------------------------------------
(* The end of a round, and of the program.                                 *)

\* Freeing leaves no task of the list allocated.
LEMMA FreeFacts ==
  ASSUME TestTypes, FreeTask
  PROVE  /\ nodes' \in Seq(Task \cup {0}) /\ live' \subseteq Task
         /\ nodes' \in {nodes, <<>>} /\ (~batch => nodes' = <<>>)
         /\ \A i \in 1 .. Len(nodes) : nodes[i] \notin live'
<1>1. nodes \in Seq(Task \cup {0}) /\ live \subseteq Task
  BY TestFacts
<1>2. nodes' = IF batch THEN nodes ELSE <<>>
  BY DEF FreeTask, FreedList
<1>3. live' = {t \in live : ~InList(t)}
  BY DEF FreeTask
<1> QED BY <1>1, <1>2, <1>3 DEF InList

LEMMA FreeKeeps ==
  ASSUME AccelInv, Free
  PROVE  AccelInv'
<1>1. TestTypes /\ Held /\ k \in 1 .. RoundSize /\ ~failedAlloc
  BY DEF AccelInv, Free, ListInv, Active
<1>2. /\ pc = "free" /\ pc' = "round" /\ FreeTask /\ itr' = itr - QueueRange
      /\ UNCHANGED <<op, batch, dedicated, bof, step, k, rc, failedAlloc, desc, comp, unit, delta>>
      /\ UNCHANGED <<spoiled, queue, troubles, timedOut, lost, hurt, strayed, redone>>
  BY DEF Free, setting, jobVars, happened
<1>3. Steps' = Steps /\ JobSteps' = JobSteps
  BY <1>2, StepsFrame
<1>4. itr' \in -QueueRange .. NumDesc /\ itr' < NumDesc
  <2>1. itr \in 1 .. NumDesc /\ itr' = itr - QueueRange
    BY <1>1, <1>2, RoundFacts
  <2>2. NumDesc \in Nat /\ QueueRange \in Nat \ {0}
    BY AccelConstants
  <2> QED BY ONLY <2>1, <2>2
<1>5. TestTypes'
  BY <1>1, <1>2, <1>3, <1>4, FreeFacts DEF TestTypes, TestTypeOK, Entries, QueueRange
<1>6. \A e \in queue : e.task \in timedOut
  BY <1>2, OnlyGivenUp
<1>7. Left'
  BY <1>1, <1>2, <1>4, FreeFacts DEF Left
<1>8. ListInv' /\ StepInv' /\ UndefinedExplained'
  BY <1>1, <1>2, <1>7 DEF ListInv, StepInv, UndefinedExplained, Active
<1>9. UnitsInv' /\ StaysInBuffers' /\ EntryInv' /\ WorkInv'
  BY <1>2, <1>6 DEF AccelInv, UnitsInv, StaysInBuffers, EntryInv, WorkInv, Active
<1>10. FailExplained' /\ OutcomeInv'
  BY <1>2 DEF AccelInv, FailExplained, OutcomeInv, Active
<1>11. op \notin Silent => \A n \in 1 .. RoundSize : nodes[n] \notin timedOut => Finished(nodes[n])
  <2>1. pc = "free"
    BY <1>2
  <2> QED BY <2>1 DEF AccelInv, DoneInv
<1>12. DoneInv'
  <2>1. \A x : Finished(x)' <=> Finished(x)
    BY <1>2 DEF Finished, UnitDone, DeltaWhole
  <2>2. ASSUME op \notin Silent, NEW x \in Task \ timedOut, x <= NumDesc - itr'
        PROVE  Finished(x)
    <3>1. CASE x <= NumDesc - itr
      BY <2>2, <3>1 DEF AccelInv, DoneInv
    <3>2. CASE ~(x <= NumDesc - itr)
      <4> DEFINE i == NumDesc - itr + 1 + RoundSize - x
      <4>1. i \in 1 .. RoundSize
        <5>1. /\ itr \in 1 .. NumDesc /\ RoundSize \in Int /\ NumDesc \in Nat /\ QueueRange \in Nat
              /\ RoundSize = itr \/ RoundSize = QueueRange
          BY <1>1, RoundFacts, AccelConstants
        <5>2. x \in 1 .. NumDesc /\ x <= NumDesc - (itr - QueueRange) /\ ~(x <= NumDesc - itr)
          BY <1>2, <2>2, <3>2 DEF Task
        <5> QED BY ONLY <5>1, <5>2 DEF i
      <4>2. nodes[i] = NumDesc - itr + 1 + RoundSize - i
        BY <1>1, <4>1, RoundFacts
      <4>3. NumDesc - itr + 1 + RoundSize - i = x
        <5>1. itr \in Int /\ RoundSize \in Int /\ NumDesc \in Int /\ x \in Int
          BY <1>1, <2>2, RoundFacts, AccelConstants DEF Task
        <5> QED BY ONLY <5>1 DEF i
      <4> HIDE DEF i
      <4>4. nodes[i] = x
        BY <4>2, <4>3
      <4>5. nodes[i] \notin timedOut
        BY <2>2, <4>4
      <4> QED BY <1>11, <2>2, <4>1, <4>4, <4>5
    <3> QED BY <3>1, <3>2
  <2> QED BY <1>2, <2>1, <2>2 DEF DoneInv
<1> QED BY <1>5, <1>8, <1>9, <1>10, <1>12 DEF AccelInv

LEMMA RoundsDoneKeeps ==
  ASSUME AccelInv, RoundsDone
  PROVE  AccelInv'
<1>1. TestTypes /\ Left
  BY DEF AccelInv, RoundsDone, ListInv
<1>2. /\ pc = "round" /\ (itr <= 0 \/ rc # "ok") /\ pc' = "exit"
      /\ UNCHANGED <<op, batch, dedicated, bof, step, k, rc, itr, nodes, live, failedAlloc, desc, comp, unit, delta>>
      /\ UNCHANGED <<spoiled, queue, troubles, timedOut, lost, hurt, strayed, redone>>
  BY DEF RoundsDone, setting, memVars, jobVars, happened
<1>3. Steps' = Steps /\ JobSteps' = JobSteps /\ Left'
  BY <1>1, <1>2, StepsFrame, HeldFrame
<1>4. TestTypes'
  BY <1>1, <1>2, <1>3 DEF TestTypes, TestTypeOK, Entries, QueueRange
<1>5. \A e \in queue : e.task \in timedOut
  BY <1>2, OnlyGivenUp
<1>6. ListInv' /\ StepInv' /\ UndefinedExplained'
  BY <1>2, <1>3 DEF ListInv, StepInv, UndefinedExplained, Active
<1>7. UnitsInv' /\ StaysInBuffers' /\ EntryInv' /\ WorkInv' /\ DoneInv'
  BY <1>2, <1>5 DEF AccelInv, UnitsInv, StaysInBuffers, EntryInv, WorkInv, DoneInv, Finished, UnitDone, DeltaWhole, Active
<1>8. FailExplained' /\ OutcomeInv'
  BY <1>2, <1>5 DEF AccelInv, FailExplained, OutcomeInv, Active
<1> QED BY <1>4, <1>6, <1>7, <1>8 DEF AccelInv

LEMMA CloseKeeps ==
  ASSUME AccelInv, Close
  PROVE  AccelInv'
<1>1. /\ TestTypes /\ pc = "exit" /\ queue = {} /\ pc' = "closed"
      /\ UNCHANGED <<op, batch, dedicated, bof, step, k, rc, itr, nodes, live, failedAlloc, desc, comp, unit, delta>>
      /\ UNCHANGED <<spoiled, queue, troubles, timedOut, lost, hurt, strayed, redone>>
  BY DEF AccelInv, Close, setting, memVars, jobVars, happened
<1>2. Steps' = Steps /\ JobSteps' = JobSteps /\ Left' = Left /\ Held' = Held
  BY <1>1, StepsFrame, HeldFrame
<1>3. TestTypes'
  BY <1>1, <1>2 DEF TestTypes, TestTypeOK, Entries, QueueRange
<1>4. ListInv' /\ StepInv' /\ UndefinedExplained'
  BY <1>1, <1>2 DEF AccelInv, ListInv, StepInv, UndefinedExplained, Active
<1>5. UnitsInv' /\ StaysInBuffers' /\ EntryInv' /\ WorkInv' /\ DoneInv'
  BY <1>1 DEF AccelInv, UnitsInv, StaysInBuffers, EntryInv, WorkInv, DoneInv, Finished, UnitDone, DeltaWhole, Active
<1>6. FailExplained' /\ OutcomeInv'
  BY <1>1 DEF AccelInv, FailExplained, OutcomeInv, Active
<1> QED BY <1>3, <1>4, <1>5, <1>6 DEF AccelInv

LEMMA FreeAtExitKeeps ==
  ASSUME AccelInv, FreeAtExit
  PROVE  AccelInv'
<1>1. /\ TestTypes /\ pc = "closed"
      /\ UNCHANGED <<op, batch, dedicated, bof, step, k, rc, itr, failedAlloc, desc, comp, unit, delta>>
      /\ UNCHANGED <<spoiled, queue, troubles, timedOut, lost, hurt, strayed, redone>>
  BY DEF AccelInv, FreeAtExit, setting, jobVars, happened
<1>2. \/ /\ \E i \in 1 .. Len(nodes) : nodes[i] \notin live
         /\ pc' = "undefined" /\ nodes' = nodes /\ live' = live
      \/ pc' = "exited" /\ FreeTask
  BY DEF FreeAtExit
<1>3. Steps' = Steps /\ JobSteps' = JobSteps
  BY <1>1, StepsFrame
<1>4. nodes' \in Seq(Task \cup {0}) /\ live' \subseteq Task
  BY <1>1, <1>2, FreeFacts, TestFacts
<1>5. TestTypes'
  BY <1>1, <1>2, <1>3, <1>4 DEF TestTypes, TestTypeOK, Entries, QueueRange
<1>6. queue = {} /\ (Held \/ Left \/ failedAlloc)
  BY <1>1 DEF AccelInv, ListInv
<1>7. UndefinedExplained'
  <2>1. ASSUME pc' = "undefined" PROVE failedAlloc \/ (batch /\ itr < NumDesc)
    <3>1. ~Held
      BY <1>1, <1>2, <2>1, RoundFacts
    <3>2. nodes # <<>>
      BY <1>2, <2>1
    <3> QED BY <1>6, <3>1, <3>2 DEF Left
  <2> QED BY <1>1, <2>1 DEF UndefinedExplained
<1>8. ListInv' /\ StepInv'
  BY <1>1, <1>2, <1>6 DEF ListInv, StepInv, Active
<1>9. UnitsInv' /\ StaysInBuffers' /\ EntryInv' /\ WorkInv' /\ DoneInv'
  BY <1>1, <1>2, <1>6 DEF AccelInv, UnitsInv, StaysInBuffers, EntryInv, WorkInv, DoneInv, Finished, UnitDone, DeltaWhole, Active
<1>10. FailExplained' /\ OutcomeInv'
  BY <1>1, <1>2 DEF AccelInv, FailExplained, OutcomeInv, Active
<1> QED BY <1>5, <1>7, <1>8, <1>9, <1>10 DEF AccelInv

-----------------------------------------------------------------------------
(* The device.                                                             *)

\* A unit is done well, or wrong by an application.
LEMMA DoneMarks ==
  ASSUME TestTypes, NEW e \in Entries
  PROVE  /\ \A u : Done(e, u) \in {"success", "wrong"}
         /\ \A u : Done(e, u) = "wrong" => op = "ap_delta"
<1>1. op \in AllJobs \ {"batch"} /\ batch \in BOOLEAN
  BY TestFacts
<1>2. e.step \in JobSteps /\ e.step \in Nat \ {0}
  <2>1. e.step \in JobSteps
    BY DEF Entries
  <2> QED BY <1>1, <2>1, StepTable
<1>3. GoodStep(e.step)
  BY <1>1, <1>2, StepTable
<1>4. Steps[e.step] = "ap_delta" => op = "ap_delta"
  BY <1>2, <1>3 DEF GoodStep
<1>5. Applies(e) => op = "ap_delta"
  BY <1>1, <1>4 DEF Applies
<1> QED BY <1>5 DEF Done

\* A submission ends: its task's record, units and delta record change, and nothing
\* else does.
LEMMA DeviceEffect ==
  ASSUME TestTypes, NEW e \in queue,
         IF batch THEN DeviceBatch(e) ELSE DeviceSingle(e, JobOf[Steps[e.step]])
  PROVE  /\ e.task \in Task
         /\ comp' \in [Task -> Records]
         /\ unit' \in [Task -> [Unit -> Marks]]
         /\ delta' \in [Task -> SUBSET Unit]
         /\ \A x \in Task : x # e.task => /\ comp'[x] = comp[x] /\ unit'[x] = unit[x]
                                          /\ delta'[x] = delta[x]
         /\ troubles' \in 0 .. Troubles
         /\ hurt \subseteq hurt' /\ hurt' \subseteq Task
         /\ strayed \subseteq strayed' /\ strayed' \subseteq strayed \cup {e.task}
         /\ comp'[e.task].status = "error" => e.task \in hurt'
         /\ \A u \in Unit : /\ unit'[e.task][u] = "error" => unit[e.task][u] = "error" \/ (batch /\ hurt' # {})
                            /\ unit'[e.task][u] = "fault" => unit[e.task][u] = "fault" \/ (batch /\ ~bof)
                            /\ unit'[e.task][u] = "wrong" => unit[e.task][u] = "wrong" \/ op = "ap_delta"
<1> DEFINE Seen == Marks
<1>1. /\ comp \in [Task -> Records] /\ unit \in [Task -> [Unit -> Seen]] /\ troubles \in 0 .. Troubles
      /\ hurt \subseteq Task /\ strayed \subseteq Task /\ batch \in BOOLEAN /\ e \in Entries
      /\ op \in AllJobs \ {"batch"} /\ spoiled \in BOOLEAN
      /\ delta \in [Task -> SUBSET Unit]
  BY TestFacts
<1>2. e.task \in Task /\ e.step \in Nat /\ e.len \in 0 .. Word - 1
  <2>1. e.task \in Task /\ e.step \in JobSteps /\ e.len \in 0 .. Word - 1
    BY <1>1 DEF Entries
  <2> QED BY <1>1, <2>1, StepTable
<1> DEFINE t == e.task
<1>3. t \in Task /\ unit[t] \in [Unit -> Seen] /\ delta[t] \subseteq Unit
  BY <1>1, <1>2
<1>4. \A u : Done(e, u) \in {"success", "wrong"} /\ (Done(e, u) = "wrong" => op = "ap_delta")
  BY <1>1, DoneMarks
<1> HIDE DEF Seen
<1>5. \A b \in 0 .. e.len : \A status \in {"success", "fault", "xlat", "error", "batchfault", "batchfail"} :
         \A back \in BOOLEAN : Record(e, status, b, back) \in Records
  <2> TAKE b \in 0 .. e.len
  <2> TAKE status \in {"success", "fault", "xlat", "error", "batchfault", "batchfail"}
  <2> TAKE back \in BOOLEAN
  <2>1. b \in 0 .. Word - 1
    BY <1>2, AccelConstants
  <2>2. Mismatch(e, b) \in BOOLEAN
    BY <1>1 DEF Mismatch
  <2>3. (IF Creates(e) THEN b ELSE 0) \in 0 .. Word - 1
    BY <2>1, AccelConstants
  <2> QED BY <1>2, <2>1, <2>2, <2>3 DEF Record, Records
<1>6. CASE batch
  <2>1. PICK b \in 0 .. e.len, bad \in {"success", "fault", "error"}, x \in Unit :
           LET units == e.src .. e.src + b - 1
               spent == (IF b < e.len THEN 1 ELSE 0) + (IF bad = "success" THEN 0 ELSE 1)
               status == IF b < e.len THEN "batchfault"
                         ELSE IF bad # "success" THEN "batchfail" ELSE "success"
           IN /\ IF bad = "success" THEN x = 0 ELSE x \in units
              /\ bad = "fault" => ~bof
              /\ troubles' = troubles + spent /\ troubles' <= Troubles
              /\ hurt' = IF bad = "error" THEN hurt \cup {t} ELSE hurt
              /\ comp' = [comp EXCEPT ![t] = Record(e, status, b, FALSE)]
              /\ unit' = [unit EXCEPT ![t] =
                            [u \in Unit |-> IF u \notin units THEN @[u]
                                            ELSE IF u = x /\ bad # "success" THEN bad ELSE Done(e, u)]]
              /\ delta' = [delta EXCEPT ![t] =
                             IF Creates(e)
                             THEN @ \cup {u \in Unit : u \in units /\ (bad = "success" \/ u # x)} ELSE @]
              /\ strayed' = IF units \subseteq Unit THEN strayed ELSE strayed \cup {t}
    BY <1>6, Zenon DEF DeviceBatch
  <2> DEFINE units == e.src .. e.src + b - 1
             status == IF b < e.len THEN "batchfault"
                       ELSE IF bad # "success" THEN "batchfail" ELSE "success"
             r == Record(e, status, b, FALSE)
             v == [u \in Unit |-> IF u \notin units THEN unit[t][u]
                                  ELSE IF u = x /\ bad # "success" THEN bad ELSE Done(e, u)]
             g == IF Creates(e)
                  THEN delta[t] \cup {u \in Unit : u \in units /\ (bad = "success" \/ u # x)} ELSE delta[t]
  <2>2. comp' = [comp EXCEPT ![t] = r] /\ unit' = [unit EXCEPT ![t] = v] /\ delta' = [delta EXCEPT ![t] = g]
    BY <2>1
  <2>3. r \in Records /\ r.status # "error"
    BY <1>5 DEF Record
  <2>4. v \in [Unit -> Seen] /\ g \subseteq Unit
    BY <1>3, <1>4 DEF Seen, Marks
  <2>5. \A u \in Unit : v[u] = unit[t][u] \/ v[u] = Done(e, u) \/ v[u] = bad
    OBVIOUS
  <2>6. (bad = "fault" => ~bof) /\ (bad = "error" => hurt' # {})
    BY <2>1
  <2>7. troubles' \in 0 .. Troubles
    BY <1>1, <2>1, AccelConstants
  <2>8. hurt \subseteq hurt' /\ hurt' \subseteq Task /\ strayed \subseteq strayed' /\ strayed' \subseteq strayed \cup {t}
    BY <1>1, <1>3, <2>1
  <2> HIDE DEF r, v, g
  <2>9. /\ comp' \in [Task -> Records] /\ unit' \in [Task -> [Unit -> Seen]]
        /\ comp'[t] = r /\ unit'[t] = v /\ delta' \in [Task -> SUBSET Unit]
    BY <1>1, <1>3, <2>2, <2>3, <2>4
  <2>10. \A y \in Task : y # t => comp'[y] = comp[y] /\ unit'[y] = unit[y] /\ delta'[y] = delta[y]
    BY <1>1, <2>2
  <2>11. \A u \in Unit : /\ unit'[t][u] = "error" => unit[t][u] = "error" \/ hurt' # {}
                         /\ unit'[t][u] = "fault" => unit[t][u] = "fault" \/ ~bof
                         /\ unit'[t][u] = "wrong" => unit[t][u] = "wrong" \/ op = "ap_delta"
    BY <1>4, <2>5, <2>6, <2>9
  <2> QED BY <1>6, <1>3, <2>3, <2>7, <2>8, <2>9, <2>10, <2>11 DEF Seen
<1>7. CASE ~batch
  <2> DEFINE j == JobOf[Steps[e.step]]
  <2>1. PICK status \in {"success", "fault", "xlat", "error"}, b \in 0 .. e.len,
             back \in {FALSE, Steps[e.step] = "memmove"} :
          /\ status = "success" => b = e.len
          /\ status # "success" => b < e.len \/ (status = "error" /\ e.len = 0)
          /\ status = "fault" => ~(j.bof /\ bof)
          /\ status = "xlat" => Steps[e.step] = "memmove"
          /\ back => status \in {"fault", "xlat"} /\ e.src = e.dst
          /\ status # "success" => troubles < Troubles /\ ~Mismatch(e, b)
          /\ troubles' = troubles + (IF status = "success" THEN 0 ELSE 1)
          /\ hurt' = IF status = "error" THEN hurt \cup {t} ELSE hurt
          /\ comp' = [comp EXCEPT ![t] = Record(e, status, b, back)]
          /\ unit' = [unit EXCEPT ![t] = UnitsAfter(e, j, b, back)]
          /\ delta' = [delta EXCEPT ![t] = DeltaAfter(e, b)]
          /\ strayed' = IF \E f \in j.uses, i \in Handled(e, b, back) : e[f] + i \notin Unit
                        THEN strayed \cup {t} ELSE strayed
    BY <1>7, Zenon DEF DeviceSingle
  <2> DEFINE r == Record(e, status, b, back)
             v == UnitsAfter(e, j, b, back)
             g == DeltaAfter(e, b)
  <2>2. comp' = [comp EXCEPT ![t] = r] /\ unit' = [unit EXCEPT ![t] = v] /\ delta' = [delta EXCEPT ![t] = g]
    BY <2>1
  <2>3. r \in Records /\ r.status = status
    BY <1>5 DEF Record
  <2>4. v \in [Unit -> Seen] /\ (\A u \in Unit : v[u] \in {Done(e, u), unit[t][u]}) /\ g \subseteq Unit
    BY <1>3, <1>4 DEF Seen, UnitsAfter, DeltaAfter, Marks
  <2>5. troubles' \in 0 .. Troubles
    BY <1>1, <2>1, AccelConstants
  <2>6. hurt \subseteq hurt' /\ hurt' \subseteq Task /\ strayed \subseteq strayed' /\ strayed' \subseteq strayed \cup {t}
    BY <1>1, <1>3, <2>1
  <2>7. status = "error" => t \in hurt'
    BY <2>1
  <2> HIDE DEF r, v, g
  <2>8. /\ comp' \in [Task -> Records] /\ unit' \in [Task -> [Unit -> Seen]]
        /\ comp'[t] = r /\ unit'[t] = v /\ delta' \in [Task -> SUBSET Unit]
    BY <1>1, <1>3, <2>2, <2>3, <2>4
  <2>9. \A y \in Task : y # t => comp'[y] = comp[y] /\ unit'[y] = unit[y] /\ delta'[y] = delta[y]
    BY <1>1, <2>2
  <2>10. \A u \in Unit : /\ unit'[t][u] = "error" => unit[t][u] = "error"
                         /\ unit'[t][u] = "fault" => unit[t][u] = "fault"
                         /\ unit'[t][u] = "wrong" => unit[t][u] = "wrong" \/ op = "ap_delta"
    BY <1>4, <2>4, <2>8
  <2> QED BY <1>3, <2>3, <2>5, <2>6, <2>7, <2>8, <2>9, <2>10 DEF Seen
<1> QED BY <1>6, <1>7

\* A submission of the task's own descriptor: the record says what was done.
LEMMA DeviceOwn ==
  ASSUME TestTypes, NEW e \in queue, e = Entry(e.task, desc[e.task]),
         comp[e.task].status = "none", step \in JobSteps, JobInv(e.task, step),
         IF batch THEN DeviceBatch(e) ELSE DeviceSingle(e, JobOf[Steps[e.step]])
  PROVE  /\ JobState(Steps[step], step, desc[e.task], comp'[e.task], unit'[e.task], spoiled)
         /\ strayed' = strayed \/ op = "dix_gen"
         /\ e.task \notin redone => Recorded(Steps[step], comp'[e.task], delta'[e.task])
         /\ e.task \notin redone \cup hurt' =>
               Applied(Steps[step], desc[e.task], unit'[e.task], delta'[e.task])
<1> DEFINE t == e.task
           o == Steps[step]
<1>1. /\ t \in Task /\ comp \in [Task -> Records] /\ desc \in [Task -> Descs]
      /\ unit \in [Task -> [Unit -> Marks]]
      /\ step \in Nat \ {0} /\ op \in AllJobs \ {"batch"} /\ batch \in BOOLEAN /\ spoiled \in BOOLEAN
      /\ delta \in [Task -> SUBSET Unit]
  BY TestFacts DEF Entries
<1>2. o \in AllJobs /\ (o = "batch" <=> batch) /\ (o = "dix_gen" => op = "dix_gen")
  <2>1. GoodStep(step)
    BY <1>1, StepTable
  <2> QED BY <2>1, JobNames DEF GoodStep, JobSteps
<1>3. PICK d : d = desc[t]
  OBVIOUS
<1>4. d \in Descs
  BY <1>1, <1>3
<1>5. \A u \in Unit : Done(e, u) \in {"success", "wrong"}
  BY DoneMarks, TestFacts
<1>6. PICK g : g = [u \in Unit |-> Done(e, u)]
  OBVIOUS
<1>7. \A u \in Unit : g[u] = Done(e, u) /\ g[u] # "none"
  BY <1>5, <1>6
<1>8. /\ e.step = step /\ e.src = d.src /\ e.dst = d.dst /\ e.len = d.len /\ e.delta = d.delta
      /\ e.recSize = d.recSize /\ e["src"] = d["src"] /\ e["dst"] = d["dst"]
  BY <1>4, <1>3 DEF Entry
<1>9. JobState(o, step, d, comp[t], unit[t], spoiled)
  BY <1>3 DEF JobInv
<1>10. CASE batch
  <2>1. PICK b \in 0 .. e.len, bad \in {"success", "fault", "error"}, x \in Unit :
           LET units == e.src .. e.src + b - 1
               spent == (IF b < e.len THEN 1 ELSE 0) + (IF bad = "success" THEN 0 ELSE 1)
               status == IF b < e.len THEN "batchfault"
                         ELSE IF bad # "success" THEN "batchfail" ELSE "success"
           IN /\ IF bad = "success" THEN x = 0 ELSE x \in units
              /\ bad = "fault" => ~bof
              /\ troubles' = troubles + spent /\ troubles' <= Troubles
              /\ hurt' = IF bad = "error" THEN hurt \cup {t} ELSE hurt
              /\ comp' = [comp EXCEPT ![t] = Record(e, status, b, FALSE)]
              /\ unit' = [unit EXCEPT ![t] =
                            [u \in Unit |-> IF u \notin units THEN @[u]
                                            ELSE IF u = x /\ bad # "success" THEN bad ELSE Done(e, u)]]
              /\ delta' = [delta EXCEPT ![t] =
                             IF Creates(e)
                             THEN @ \cup {u \in Unit : u \in units /\ (bad = "success" \/ u # x)} ELSE @]
              /\ strayed' = IF units \subseteq Unit THEN strayed ELSE strayed \cup {t}
    BY <1>10, Zenon DEF DeviceBatch
  <2> DEFINE status == BatchEnd(d, b, bad)
             m == Mismatch(e, b)
             z == IF Creates(e) THEN b ELSE 0
             r == Ended(step, status, b, FALSE, m, z)
             v == BatchUnits(d, b, bad, x, unit[t], g)
  <2>2. comp' = [comp EXCEPT ![t] = r] /\ unit' = [unit EXCEPT ![t] = v]
    BY <1>8, <1>7, <2>1 DEF Record, Ended, BatchEnd, BatchUnits
  <2>3. comp'[t] = r /\ unit'[t] = v
    BY <1>1, <2>2
  <2>4. b \in 0 .. d.len /\ o = "batch" /\ bad \in {"success", "fault", "error"}
    BY <1>2, <1>8, <1>10, <2>1
  <2>5. JobState("batch", step, d, r, v, spoiled) /\ d.src .. d.src + b - 1 \subseteq Unit
    <3> DEFINE c == comp[t]
               w == unit[t]
    <3>1. JobState("batch", step, d, c, w, spoiled) /\ c.status = "none"
      BY <1>9, <2>4
    <3>2. r = Ended(step, BatchEnd(d, b, bad), b, FALSE, m, z) /\ v = BatchUnits(d, b, bad, x, w, g)
      OBVIOUS
    <3> HIDE DEF m, r, v, c, w, z
    <3>3. JobState("batch", step, d, r, v, spoiled)
      BY <1>4, <1>7, <2>4, <3>1, <3>2, BatchDone
    <3>4. d.src .. d.src + b - 1 \subseteq Unit
      <4>1. "src" \in JobOf["batch"].uses /\ d["src"] \in Nat /\ d.len \in Nat
        BY <1>2, <1>4, <2>4, JobTable, AccelConstants DEF GoodJob, Descs
      <4>2. \A i \in 0 .. d.len - 1 : d["src"] + i \in Unit
        BY <1>2, <1>4, <2>4, <3>1, <4>1, InBuffers
      <4>3. \A y \in d.src .. d.src + b - 1 : y - d["src"] \in 0 .. d.len - 1 /\ d["src"] + (y - d["src"]) = y
        BY <2>4, <4>1
      <4> QED BY <4>2, <4>3
    <3> QED BY <3>3, <3>4
  <2>6. strayed' = strayed
    BY <1>8, <2>1, <2>5
  <2>7. Recorded(o, comp'[t], delta'[t]) /\ Applied(o, d, unit'[t], delta'[t])
    <3> HIDE DEF o
    <3> QED BY <2>4 DEF Recorded, Applied
  <2> QED BY <1>3, <2>3, <2>4, <2>5, <2>6, <2>7
<1>11. CASE ~batch
  <2> DEFINE j == JobOf[o]
  <2>1. PICK status \in {"success", "fault", "xlat", "error"}, b \in 0 .. e.len,
             back \in {FALSE, Steps[e.step] = "memmove"} :
          /\ status = "success" => b = e.len
          /\ status # "success" => b < e.len \/ (status = "error" /\ e.len = 0)
          /\ status = "fault" => ~(j.bof /\ bof)
          /\ status = "xlat" => Steps[e.step] = "memmove"
          /\ back => status \in {"fault", "xlat"} /\ e.src = e.dst
          /\ status # "success" => troubles < Troubles /\ ~Mismatch(e, b)
          /\ troubles' = troubles + (IF status = "success" THEN 0 ELSE 1)
          /\ hurt' = IF status = "error" THEN hurt \cup {t} ELSE hurt
          /\ comp' = [comp EXCEPT ![t] = Record(e, status, b, back)]
          /\ unit' = [unit EXCEPT ![t] = UnitsAfter(e, j, b, back)]
          /\ delta' = [delta EXCEPT ![t] = DeltaAfter(e, b)]
          /\ strayed' = IF \E f \in j.uses, i \in Handled(e, b, back) : e[f] + i \notin Unit
                        THEN strayed \cup {t} ELSE strayed
    <3>1. DeviceSingle(e, j)
      BY <1>8, <1>11
    <3> HIDE DEF j
    <3> QED BY <3>1, Zenon DEF DeviceSingle
  <2>2. Steps[e.step] = o
    BY <1>8
  <2> DEFINE h == Part(d, b, back)
             m == Differs(d, b, spoiled)
             z == IF Creates(e) THEN b ELSE 0
             r == Ended(step, status, b, back, m, z)
             v == UnitsDone(o, d, h, unit[t], g)
  <2>3. GoodJob(o, j)
    BY <1>2, JobTable
  <2>4. j.uses \in SUBSET {"src", "dst"}
    <3> HIDE DEF j
    <3> QED BY <2>3 DEF GoodJob
  <2>5. Handled(e, b, back) = h /\ Mismatch(e, b) = m /\ Record(e, status, b, back) = r
    BY <1>8 DEF Handled, Mismatch, Record, Part, Ended, Differs
  <2>6. \A f \in j.uses : e[f] = d[f]
    BY <1>8, <2>4
  <2>7. UnitsAfter(e, j, b, back) = v
    <3>1. \A i : (\A f \in j.uses : e[f] + i = d[f] + i)
      BY <2>6
    <3> HIDE DEF h
    <3> QED BY <1>7, <2>5, <2>6 DEF UnitsAfter, UnitsDone
  <2>8. comp'[t] = r /\ unit'[t] = v
    <3> HIDE DEF r, v
    <3> QED BY <1>1, <2>1, <2>5, <2>7
  <2>9. d.len = 0 => j.len = 0
    BY <1>9 DEF JobState, Covers
  <2>10. /\ b \in 0 .. d.len /\ o # "batch" /\ (status = "success" => b = d.len)
        /\ (status # "success" => b < d.len \/ (status = "error" /\ d.len = 0))
        /\ (back => o = "memmove" /\ status # "success") /\ back \in BOOLEAN
        /\ (status = "xlat" => o = "memmove") /\ (status # "success" => ~m)
        /\ status \in {"success", "fault", "xlat", "error"}
    <3> HIDE DEF m, o, j
    <3> QED BY <1>2, <1>8, <1>11, <2>1, <2>5, <2>2
  <2>11. JobState(o, step, d, r, v, spoiled)
    <3> DEFINE c == comp[t]
               w == unit[t]
    <3>1. JobState(o, step, d, c, w, spoiled) /\ c.status = "none"
      BY <1>9
    <3>2. status # "success" => b < d.len \/ (status = "error" /\ JobOf[o].len = 0)
      BY <2>9, <2>10
    <3>3. Marking(g)
      BY <1>7 DEF Marking
    <3>4. /\ m = Differs(d, b, spoiled)
          /\ r = Ended(step, status, b, back, m, z) /\ v = UnitsDone(o, d, Part(d, b, back), w, g)
      OBVIOUS
    <3> HIDE DEF c, w, o, z, m, r, v, h
    <3>5. SingleEnds(o, d, spoiled, status, b, back, m)
      BY <1>1, <1>2, <2>10, <3>2, <3>4 DEF SingleEnds
    <3>6. JobState(o, step, d, Ended(step, status, b, back, m, z),
                   UnitsDone(o, d, Part(d, b, back), w, g), spoiled)
      BY <1>2, <1>4, <3>1, <3>3, <3>5, JobDone
    <3> QED BY <3>4, <3>6
  <2>12. ASSUME o # "dix_gen" PROVE strayed' = strayed
    <3>1. \A i \in h : i \in 0 .. d.len - 1
      <4>1. d.len \in Nat /\ b \in Nat /\ b <= d.len
        BY <1>4, <2>10, AccelConstants DEF Descs
      <4> QED BY <4>1 DEF Part
    <3> HIDE DEF h, j, o
    <3>2. \A f \in j.uses, i \in h : d[f] + i \in Unit
      BY <1>2, <1>4, <1>9, <2>12, <3>1, InBuffers DEF j
    <3> QED BY <2>1, <2>5, <2>6, <3>2
  <2>13. delta'[t] = DeltaAfter(e, b) /\ delta[t] \subseteq Unit /\ b \in Nat /\ b <= Size
    <3>1. d.len \in Nat /\ d.len <= Size
      BY <1>4, <1>9, AccelConstants DEF Descs, JobState, Covers
    <3> HIDE DEF o
    <3> QED BY <1>1, <2>1, <2>10, <3>1, AccelConstants
  <2>14. ASSUME t \notin redone PROVE Recorded(o, comp'[t], delta'[t])
    <3> SUFFICES ASSUME o = "cr_delta" PROVE r.recSize = r.bytes /\ 0 .. r.bytes - 1 \subseteq delta'[t]
      BY <2>8 DEF Recorded
    <3>1. Creates(e)
      BY <1>8, <1>11 DEF Creates
    <3>2. r.recSize = b /\ r.bytes = b
      BY <3>1 DEF Ended
    <3>3. e.delta = 0 /\ e.src = 0
      BY <1>3, <1>8, <2>14 DEF JobInv, DeltaInv, Unmoved, DeltaJobs
    <3>4. {u \in Unit : u \in 0 .. b - 1} \subseteq delta'[t]
      BY <2>13, <3>1, <3>3 DEF DeltaAfter
    <3>5. 0 .. b - 1 \subseteq Unit
      BY <2>13, AccelConstants DEF Unit
    <3> QED BY <3>2, <3>4, <3>5
  <2>15. ASSUME t \notin redone \cup hurt' PROVE Applied(o, d, unit'[t], delta'[t])
    <3> SUFFICES ASSUME o = "ap_delta"
                 PROVE  delta'[t] = Unit /\ d.recSize = Size /\ \A u \in Unit : v[u] # "wrong"
      BY <2>8 DEF Applied
    <3>1. t \notin hurt
      BY <2>1, <2>15
    <3>2. /\ delta[t] = Unit /\ d.recSize = Size /\ d.dst = 0
          /\ \A u \in Unit : unit[t][u] # "wrong"
      BY <1>3, <2>15, <3>1 DEF JobInv, DeltaInv, Unmoved, Applied, DeltaJobs
    <3>3. ~Creates(e)
      BY <1>8, <1>11 DEF Creates
    <3>4. delta'[t] = Unit
      BY <2>13, <3>2, <3>3 DEF DeltaAfter
    <3>5. \A u \in Unit : u < Size
      BY AccelConstants DEF Unit
    <3>6. \A u \in Unit : Done(e, u) # "wrong"
      BY <1>8, <3>2, <3>5 DEF Done
    <3>7. \A u \in Unit : v[u] \in {g[u], unit[t][u]}
      BY DEF UnitsDone
    <3> QED BY <1>7, <3>2, <3>4, <3>6, <3>7
  <2> QED BY <1>2, <1>3, <2>8, <2>11, <2>12, <2>14, <2>15
<1> QED BY <1>1, <1>10, <1>11

LEMMA DeviceKeeps ==
  ASSUME AccelInv, Device
  PROVE  AccelInv'
<1>1. TestTypes
  BY DEF AccelInv
<1>2. UNCHANGED <<op, batch, dedicated, bof, pc, step, k, rc, itr, nodes, live, failedAlloc,
                  desc, spoiled, timedOut, lost, redone>>
  BY DEF Device, setting, memVars
<1>3. PICK e \in queue :
         /\ queue' = queue \ {e}
         /\ IF batch THEN DeviceBatch(e) ELSE DeviceSingle(e, JobOf[Steps[e.step]])
  BY DEF Device
<1> DEFINE t == e.task
<1>4. /\ t \in Task /\ comp' \in [Task -> Records]
      /\ unit' \in [Task -> [Unit -> Marks]]
      /\ delta' \in [Task -> SUBSET Unit]
      /\ \A x \in Task : x # t => comp'[x] = comp[x] /\ unit'[x] = unit[x] /\ delta'[x] = delta[x]
      /\ troubles' \in 0 .. Troubles
      /\ hurt \subseteq hurt' /\ hurt' \subseteq Task
      /\ strayed \subseteq strayed' /\ strayed' \subseteq strayed \cup {t}
      /\ comp'[t].status = "error" => t \in hurt'
      /\ \A u \in Unit : /\ unit'[t][u] = "error" => unit[t][u] = "error" \/ (batch /\ hurt' # {})
                         /\ unit'[t][u] = "fault" => unit[t][u] = "fault" \/ (batch /\ ~bof)
                         /\ unit'[t][u] = "wrong" => unit[t][u] = "wrong" \/ op = "ap_delta"
  BY <1>1, <1>3, DeviceEffect
<1>5. t \notin timedOut =>
        /\ pc \in {"submit", "wait", "exit"} /\ Held
        /\ \E i \in 1 .. RoundSize : t = nodes[i] /\ (pc = "submit" => i < k) /\ (pc = "wait" => i >= k)
        /\ e = Entry(t, desc[t]) /\ comp[t].status = "none"
        /\ step \in JobSteps /\ JobInv(t, step)
  BY <1>3 DEF AccelInv, EntryInv
<1>6. /\ Steps' = Steps /\ JobSteps' = JobSteps /\ Held' = Held /\ Left' = Left /\ RoundSize' = RoundSize
      /\ \A n : Place(n)' = Place(n)
  BY <1>1, <1>2, StepsFrame, HeldFrame
<1>7. \A x \in Task : \A n : x # t => (JobInv(x, n) => JobInv(x, n)') /\ (Settled(x, n) => Settled(x, n)')
  BY <1>2, <1>4, JobFrame, SettledFrame
<1>8. t \notin timedOut => JobInv(t, step)' /\ (strayed' = strayed \/ op = "dix_gen")
  <2> SUFFICES ASSUME t \notin timedOut
               PROVE  JobInv(t, step)' /\ (strayed' = strayed \/ op = "dix_gen")
    OBVIOUS
  <2>1. /\ JobState(Steps[step], step, desc[t], comp'[t], unit'[t], spoiled)
        /\ strayed' = strayed \/ op = "dix_gen"
        /\ t \notin redone => Recorded(Steps[step], comp'[t], delta'[t])
        /\ t \notin redone \cup hurt' => Applied(Steps[step], desc[t], unit'[t], delta'[t])
    BY <1>1, <1>3, <1>5, DeviceOwn
  <2>2. t \notin redone => Unmoved(Steps[step], desc[t])
    BY <1>5 DEF JobInv, DeltaInv
  <2> QED BY <1>2, <1>4, <1>6, <2>1, <2>2 DEF JobInv, DeltaInv
<1> HIDE DEF t
<1>9. TestTypes'
  <2>1. queue' \subseteq Entries
    BY <1>1, <1>3, TestFacts
  <2>2. strayed' \subseteq Task
    BY <1>1, <1>4, TestFacts
  <2>3. \A x \in Task : comp'[x].bytes \in 0 .. Word - 1
    BY <1>4 DEF Records
  <2>4. TestTypeOK
    BY <1>1 DEF TestTypes
  <2>5. TestTypeOK'
    BY <1>2, <1>4, <1>6, <2>2, <2>3, <2>4 DEF TestTypeOK, QueueRange, Marks
  <2> QED BY <1>4, <1>6, <2>1, <2>5 DEF TestTypes, Entries
<1>10. ListInv' /\ StepInv' /\ UndefinedExplained'
  <2>1. queue = {} => queue' = {}
    BY <1>3
  <2> QED BY <1>2, <1>6, <2>1 DEF AccelInv, ListInv, StepInv, UndefinedExplained, Active
<1>11. UnitsInv'
  <2> SUFFICES ASSUME NEW x \in Task, NEW u \in Unit
               PROVE  /\ unit'[x][u] = "error" => batch /\ hurt' # {}
                      /\ unit'[x][u] = "fault" => batch /\ ~bof
                      /\ unit'[x][u] = "wrong" => op = "ap_delta"
    BY <1>2 DEF UnitsInv
  <2>1. /\ unit[x][u] = "error" => batch /\ hurt # {}
        /\ unit[x][u] = "fault" => batch /\ ~bof
        /\ unit[x][u] = "wrong" => op = "ap_delta"
    BY DEF AccelInv, UnitsInv
  <2> QED BY <1>4, <2>1
<1>12. StaysInBuffers'
  BY <1>2, <1>4, <1>8 DEF AccelInv, StaysInBuffers
<1>13. FailExplained'
  <2> SUFFICES ASSUME pc = "exit", rc # "ok", hurt' = {}, timedOut = {}, ~failedAlloc
               PROVE  \/ op = "transl_fetch" /\ \E x \in Task : comp'[x].status = "fault"
                      \/ batch /\ \E x \in Task : comp'[x].status = "batchfault" /\ desc[x].len - comp'[x].bytes = 1
    BY <1>2 DEF FailExplained
  <2>1. queue = {}
    BY DEF AccelInv, OutcomeInv
  <2> QED BY <1>3, <2>1
<1>14. OutcomeInv'
  BY <1>2, <1>3, <1>4 DEF AccelInv, OutcomeInv
<1>15. WorkInv'
  <2> SUFFICES ASSUME NEW i \in 1 .. RoundSize, pc \in Active, nodes[i] \notin timedOut
               PROVE  /\ pc = "prep" /\ Steps[step] = "ap_delta" => Readied(nodes[i])'
                      /\ pc \in {"submit", "wait"} => JobInv(nodes[i], step)'
                      /\ pc = "submit" /\ i >= k => comp'[nodes[i]].status = "none"
                      /\ pc = "wait" /\ i < k => Settled(nodes[i], step)'
                      /\ pc = "verify" => Settled(nodes[i], step - 1)'
    BY <1>2, <1>6 DEF WorkInv
  <2>1. Held /\ k \in 1 .. RoundSize
    BY DEF AccelInv, ListInv
  <2>2. nodes[i] \in Task /\ \A n \in 1 .. RoundSize : nodes[n] = nodes[i] => n = i
    BY <1>1, <2>1, RoundFacts
  <2>3. /\ pc = "prep" /\ Steps[step] = "ap_delta" => Readied(nodes[i])
        /\ pc \in {"submit", "wait"} => JobInv(nodes[i], step)
        /\ pc = "submit" /\ i >= k => comp[nodes[i]].status = "none"
        /\ pc = "wait" /\ i < k => Settled(nodes[i], step)
        /\ pc = "verify" => Settled(nodes[i], step - 1)
    BY DEF AccelInv, WorkInv
  <2>4. PICK y, n : y = nodes[i] /\ n = step
    OBVIOUS
  <2>5. y' = nodes[i]' /\ n' = step' /\ y \in Task
    BY <1>2, <2>2, <2>4
  <2>6. CASE nodes[i] # t
    <3>1. /\ JobInv(y, n) => JobInv(y, n)'
          /\ Settled(y, n) => Settled(y, n)'
          /\ Settled(y, n - 1) => Settled(y, n - 1)'
      BY <1>7, <2>6, <2>5, <2>4
    <3>2. comp'[y] = comp[y]
      BY <1>4, <2>6, <2>5, <2>4
    <3>3. Readied(y) => Readied(y)'
      BY <1>2, <1>4, <2>6, <2>5, <2>4 DEF Readied
    <3> QED BY <1>2, <2>3, <2>4, <3>1, <3>2, <3>3
  <2>7. CASE nodes[i] = t
    <3>1. PICK m \in 1 .. RoundSize : t = nodes[m] /\ (pc = "submit" => m < k) /\ (pc = "wait" => m >= k)
      BY <1>5, <2>7
    <3>2. m = i /\ pc \notin {"verify", "prep"}
      BY <1>5, <2>2, <2>7, <3>1 DEF Active
    <3>3. ~(pc = "submit" /\ i >= k) /\ ~(pc = "wait" /\ i < k)
      BY <1>1, <2>1, <3>1, <3>2, NodeFacts
    <3>4. JobInv(nodes[i], step)'
      <4>1. t \notin timedOut /\ nodes'[i] = t
        BY <1>2, <2>7
      <4> QED BY <1>8, <4>1
    <3> QED BY <3>2, <3>3, <3>4 DEF Active
  <2> QED BY <2>6, <2>7
<1>16. EntryInv'
  <2> SUFFICES ASSUME NEW x \in queue', x.task \notin timedOut
               PROVE  /\ pc \in {"submit", "wait", "exit"} /\ Held
                      /\ \E i \in 1 .. RoundSize :
                            x.task = nodes[i] /\ (pc = "submit" => i < k) /\ (pc = "wait" => i >= k)
                      /\ x = Entry(x.task, desc[x.task])' /\ comp'[x.task].status = "none"
                      /\ step \in JobSteps /\ JobInv(x.task, step)'
    BY <1>2, <1>6 DEF EntryInv
  <2>1. x \in queue /\ x # e /\ x.task \in Task
    BY <1>1, <1>3, TestFacts DEF Entries
  <2>2. /\ pc \in {"submit", "wait", "exit"} /\ Held
        /\ \E i \in 1 .. RoundSize :
              x.task = nodes[i] /\ (pc = "submit" => i < k) /\ (pc = "wait" => i >= k)
        /\ x = Entry(x.task, desc[x.task]) /\ comp[x.task].status = "none"
        /\ step \in JobSteps /\ JobInv(x.task, step)
    BY <2>1 DEF AccelInv, EntryInv
  <2>3. x.task # t
    BY <1>5, <2>1, <2>2
  <2>4. Entry(x.task, desc[x.task])' = Entry(x.task, desc[x.task])
    BY <1>2 DEF Entry
  <2>5. JobInv(x.task, step)'
    <3>1. PICK n : n = step
      OBVIOUS
    <3>2. JobInv(x.task, n)'
      BY <1>7, <2>1, <2>2, <2>3, <3>1
    <3> QED BY <1>2, <3>1, <3>2
  <2>6. comp'[x.task].status = "none"
    BY <1>4, <2>1, <2>2, <2>3
  <2> QED BY <2>2, <2>4, <2>5, <2>6
<1>17. DoneInv'
  <2>1. \A x \in Task : x # t /\ Finished(x) => Finished(x)'
    BY <1>2, <1>4, FinishedFrame
  <2>2. t \notin timedOut => ~(t <= NumDesc - itr) /\ pc \notin {"verify", "free"}
    <3> SUFFICES ASSUME t \notin timedOut
                 PROVE  ~(t <= NumDesc - itr) /\ pc \notin {"verify", "free"}
      OBVIOUS
    <3>1. PICK i \in 1 .. RoundSize : t = nodes[i]
      BY <1>5
    <3>2. Held
      BY <1>5
    <3>3. nodes[i] > NumDesc - itr /\ nodes[i] \in Task /\ NumDesc - itr \in Int
      <4>1. itr \in Int /\ NumDesc \in Int
        BY <1>1, TestFacts, AccelConstants
      <4>2. nodes[i] > NumDesc - itr /\ nodes[i] \in Task
        BY <1>1, <3>2, RoundFacts
      <4> QED BY <4>1, <4>2
    <3>4. t \in Int /\ t > NumDesc - itr /\ NumDesc - itr \in Int
      BY <3>1, <3>3 DEF Task
    <3> QED BY <1>5, <3>4
  <2>3. pc \in {"verify", "free"} => \A i \in 1 .. RoundSize : nodes[i] \in Task
    BY <1>1, RoundFacts DEF AccelInv, ListInv, Active
  <2> SUFFICES ASSUME op \notin Silent
               PROVE  /\ \A x \in Task \ timedOut : x <= NumDesc - itr => Finished(x)'
                      /\ pc \in {"verify", "free"} => \A i \in 1 .. RoundSize :
                            /\ nodes[i] \notin timedOut
                            /\ pc = "verify" => step = Len(Steps) /\ i < k
                            => Finished(nodes[i])'
    BY <1>2, <1>6 DEF DoneInv
  <2>4. \A x \in Task \ timedOut : x <= NumDesc - itr => Finished(x)'
    BY <2>1, <2>2 DEF AccelInv, DoneInv
  <2>5. ASSUME pc \in {"verify", "free"}, NEW i \in 1 .. RoundSize, nodes[i] \notin timedOut,
               pc = "verify" => step = Len(Steps) /\ i < k
        PROVE  Finished(nodes[i])'
    <3>1. Finished(nodes[i])
      BY <2>5 DEF AccelInv, DoneInv
    <3>2. nodes[i] \in Task /\ nodes[i] # t
      BY <2>2, <2>3, <2>5
    <3>3. PICK x : x = nodes[i]
      OBVIOUS
    <3> QED BY <1>2, <2>1, <3>1, <3>2, <3>3
  <2> QED BY <2>4, <2>5
<1> QED BY <1>9, <1>10, <1>11, <1>12, <1>13, <1>14, <1>15, <1>16, <1>17 DEF AccelInv

-----------------------------------------------------------------------------
(* The invariant holds, and with it the properties of the runs.            *)

LEMMA TestStutterKeeps ==
  ASSUME AccelInv, UNCHANGED testVars
  PROVE  AccelInv'
<1>1. /\ UNCHANGED <<op, batch, dedicated, bof, pc, step, k, rc, itr, nodes, live, failedAlloc>>
      /\ UNCHANGED <<desc, comp, unit, delta, spoiled, queue, troubles, timedOut, lost, hurt, strayed, redone>>
  BY DEF testVars, setting, memVars, jobVars, happened
<1>2. TestTypes
  BY DEF AccelInv
<1>3. /\ Steps' = Steps /\ JobSteps' = JobSteps /\ Held' = Held /\ Left' = Left /\ RoundSize' = RoundSize
      /\ \A n : Place(n)' = Place(n)
  BY <1>1, StepsFrame, HeldFrame
<1>4. \A x, n : /\ JobInv(x, n) => JobInv(x, n)'
                /\ Settled(x, n) => Settled(x, n)'
  BY <1>1, <1>2, TasksFrame DEF setting
<1>5. TestTypes'
  BY <1>1, <1>2, <1>3 DEF TestTypes, TestTypeOK, Entries, QueueRange
<1>6. ListInv' /\ StepInv' /\ UndefinedExplained' /\ OutcomeInv' /\ StaysInBuffers' /\ FailExplained'
  BY <1>1, <1>3 DEF AccelInv, ListInv, StepInv, UndefinedExplained, OutcomeInv, StaysInBuffers,
                    FailExplained
<1>7. UnitsInv' /\ DoneInv'
  BY <1>1, <1>3 DEF AccelInv, UnitsInv, DoneInv, Finished, UnitDone, DeltaWhole
<1>8. WorkInv'
  <2>1. \A x : Readied(x)' = Readied(x)
    BY <1>1 DEF Readied
  <2> QED BY <1>1, <1>3, <1>4, <2>1 DEF AccelInv, WorkInv
<1>9. EntryInv'
  <2>1. \A x : Entry(x, desc[x])' = Entry(x, desc[x])
    BY <1>1 DEF Entry
  <2> QED BY <1>1, <1>3, <1>4, <2>1 DEF AccelInv, EntryInv
<1> QED BY <1>5, <1>6, <1>7, <1>8, <1>9 DEF AccelInv

LEMMA TestStep ==
  ASSUME AccelInv, [Next]_testVars
  PROVE  AccelInv'
<1>1. CASE Alloc \/ AllocFails \/ Prep \/ Submit
  BY <1>1, AllocKeeps, AllocFailsKeeps, PrepKeeps, SubmitKeeps
<1>2. CASE WaitTimesOut \/ WaitDone \/ WaitResumes \/ Spoil \/ VerifyNode
  BY <1>2, WaitTimesOutKeeps, WaitDoneKeeps, WaitResumesKeeps, SpoilKeeps, VerifyNodeKeeps
<1>3. CASE Free \/ RoundsDone \/ Close \/ FreeAtExit
  BY <1>3, FreeKeeps, RoundsDoneKeeps, CloseKeeps, FreeAtExitKeeps
<1>4. CASE Device
  BY <1>4, DeviceKeeps
<1>5. CASE UNCHANGED testVars
  BY <1>5, TestStutterKeeps
<1> QED BY <1>1, <1>2, <1>3, <1>4, <1>5 DEF Next, Program

\* The inductive invariant of the test program: the list of the round and the place of
\* the program, what the record of every descriptor that was not given up says of its
\* units, and what has been processed so far (dsa_test.c, dsa.c, dsa_prep.c).
THEOREM AccelInvHolds == Spec => []AccelInv
<1>1. TestInit => AccelInv
  BY TestInitInv
<1>2. AccelInv /\ [Next]_testVars => AccelInv'
  BY TestStep
<1> QED BY <1>1, <1>2, PTL DEF Spec

\* No queue is longer than the round that fills it.
LEMMA QueueIsRound ==
  ASSUME AccelInv
  PROVE  QueueFits
<1> SUFFICES ASSUME timedOut = {} PROVE Cardinality(queue) <= QueueRange
  BY DEF QueueFits
<1>1. CASE queue = {}
  BY <1>1, FS_EmptySet, AccelConstants
<1>2. CASE queue # {}
  <2>1. TestTypes /\ Held /\ \A e \in queue : /\ e = Entry(e.task, desc[e.task])
                                             /\ \E i \in 1 .. RoundSize : e.task = nodes[i]
    BY <1>2 DEF AccelInv, EntryInv
  <2>2. RoundSize \in 1 .. QueueRange
    BY <2>1, RoundFacts
  <2> DEFINE I == 1 .. RoundSize
             S == {Entry(nodes[i], desc[nodes[i]]) : i \in I}
  <2>3. queue \subseteq S
    BY <2>1
  <2>4. IsFiniteSet(I) /\ Cardinality(I) = RoundSize
    <3>1. RoundSize \in Nat /\ 1 <= RoundSize
      BY <2>2, AccelConstants
    <3> QED BY <3>1, FS_Interval
  <2>5. IsFiniteSet(S) /\ Cardinality(S) <= Cardinality(I)
    <3> HIDE DEF I
    <3> DEFINE f == [i \in I |-> Entry(nodes[i], desc[nodes[i]])]
    <3>1. f \in Surjection(I, S)
      BY DEF Surjection
    <3> HIDE DEF f, S
    <3> QED BY <2>4, <3>1, FS_Surjection
  <2>6. IsFiniteSet(queue) /\ Cardinality(queue) <= Cardinality(S)
    <3> HIDE DEF S
    <3> QED BY <2>3, <2>5, FS_Subset
  <2>7. Cardinality(S) \in Nat /\ Cardinality(queue) \in Nat
    <3> HIDE DEF S
    <3> QED BY <2>5, <2>6, FS_CardinalityType
  <2> HIDE DEF S, I
  <2> QED BY <2>2, <2>4, <2>5, <2>6, <2>7, AccelConstants
<1> QED BY <1>1, <1>2

\* MemorySound, for all opcodes and any number of descriptors: the types, no freed task
\* at the device, no round larger than the queue, no freed node followed elsewhere than
\* in a batch or after a failed allocation (acctest_free_task, acctest_free).
THEOREM MemorySoundHolds == Spec => []MemorySound
<1>1. ASSUME AccelInv PROVE MemorySound
  <2>1. TestTypes /\ TestTypeOK /\ UndefinedExplained
    BY <1>1 DEF AccelInv, TestTypes
  <2>2. QueueFits
    BY <1>1, QueueIsRound
  <2>3. ASSUME NEW e \in queue
        PROVE  e.task \in live \/ (e.task \in timedOut /\ pc \notin {"closed", "exited"})
    <3>1. pc \notin {"closed", "exited"}
      BY <1>1, <2>3 DEF AccelInv, ListInv
    <3>2. CASE e.task \notin timedOut
      BY <1>1, <3>2 DEF AccelInv, EntryInv, Held
    <3> QED BY <3>1, <3>2
  <2> QED BY <2>1, <2>2, <2>3 DEF MemorySound, HeldMemoryLive
<1> QED BY <1>1, AccelInvHolds, PTL

\* What a submission asks for is what its task still lacks.
Asked(o, d) == {u \in Unit : \A f \in JobOf[o].uses : u \in d[f] .. d[f] + d.len - 1}
Lacking(w) == {u \in Unit : w[u] = "none"}

LEMMA AskedIsLeft ==
  ASSUME NEW o \in AllJobs, NEW n, NEW d \in Descs, NEW c, NEW w, NEW s,
         JobState(o, n, d, c, w, s), c.status = "none", o \notin Untracked, JobOf[o].len # 0
  PROVE  Asked(o, d) = Lacking(w) /\ Cardinality(Asked(o, d)) = d.len
<1> DEFINE j == JobOf[o]
           asked == Asked(o, d)
<1>1. GoodJob(o, j)
  BY JobTable
<1> HIDE DEF j
<1>2. j.uses # {} /\ j.len > 0
  BY <1>1, AccelConstants DEF GoodJob, j
<1> DEFINE b == Base(j, d)
<1>3. /\ \A f \in j.uses : d[f] = b
      /\ b + d.len <= Size
      /\ \A u \in Unit : w[u] = "none" <=> u \in b .. b + d.len - 1
  BY <1>2 DEF JobState, Covers, Rest, j
<1>4. b \in Nat /\ d.len \in Nat /\ Size \in Nat
  BY AccelConstants DEF Base, Descs
<1> HIDE DEF b
<1>5. asked = {u \in Unit : u \in b .. b + d.len - 1}
  BY <1>2, <1>3 DEF j, Asked
<1>6. b .. b + d.len - 1 \subseteq Unit
  BY <1>3, <1>4 DEF Unit
<1>7. asked = b .. b + d.len - 1
  BY <1>5, <1>6
<1>8. Cardinality(b .. b + d.len - 1) = d.len
  <2> DEFINE z == b + d.len - 1
  <2>1. z \in Int /\ b \in Int /\ z - b + 1 = d.len /\ (b > z <=> d.len = 0)
    BY <1>4
  <2> HIDE DEF z
  <2>2. Cardinality(b .. z) = IF b > z THEN 0 ELSE z - b + 1
    BY <2>1, FS_Interval
  <2> QED BY <2>1, <2>2 DEF z
<1> QED BY <1>3, <1>5, <1>7, <1>8 DEF Lacking

\* JobsRight, whatever the faults and errors, for a task whose waits did not time out:
\* the record read is that of the job; a resumption covers what is left, but of
\* DIX_GEN, a cache flush and a delta job; the device stays in the buffers, but for
\* DIX_GEN (dsa_wait_*, dsa_reprep_*).
THEOREM JobsRightHolds == Spec => []JobsRight
<1>1. ASSUME AccelInv PROVE JobsRight
  <2>1. StaysInBuffers /\ TestTypes
    BY <1>1 DEF AccelInv
  <2>2. RecordIsOwn
    <3> SUFFICES ASSUME pc \in {"wait", "verify"}, NEW i \in 1 .. Len(nodes), nodes[i] \notin timedOut,
                        comp[nodes[i]].status # "none"
                 PROVE  comp[nodes[i]].step = IF pc = "wait" THEN step ELSE step - 1
      BY DEF RecordIsOwn
    <3>1. Held /\ i \in 1 .. RoundSize
      BY <1>1, <2>1, RoundFacts DEF AccelInv, ListInv, Active
    <3>2. /\ pc = "wait" => JobInv(nodes[i], step)
          /\ pc = "verify" => JobInv(nodes[i], step - 1)
      BY <1>1, <3>1 DEF AccelInv, WorkInv, Active, Settled
    <3> QED BY <3>2 DEF JobInv, JobState, Tells
  <2>3. ResumeCovers
    <3> SUFFICES ASSUME NEW e \in queue, e.task \notin timedOut \cup redone,
                        Steps[e.step] \notin Untracked, JobOf[Steps[e.step]].len # 0
                 PROVE  LET fields == JobOf[Steps[e.step]].uses
                                         \cup IF Creates(e) /\ ~batch THEN {"delta"} ELSE {}
                            asked == {u \in Unit : \A f \in fields : u \in At(e, f) .. At(e, f) + e.len - 1}
                        IN asked = {u \in Unit : unit[e.task][u] = "none"} /\ Cardinality(asked) = e.len
      BY DEF ResumeCovers, Untracked
    <3> DEFINE t == e.task
               o == Steps[step]
               d == desc[t]
               asked == Asked(o, d)
    <3>1. e = Entry(t, d) /\ comp[t].status = "none" /\ step \in JobSteps /\ JobInv(t, step)
      BY <1>1 DEF AccelInv, EntryInv
    <3>2. t \in Task /\ d \in Descs
      BY <2>1, TestFacts DEF Entries, Descs
    <3>3. e.step = step /\ e["src"] = d["src"] /\ e["dst"] = d["dst"] /\ e.len = d.len
      BY <3>1 DEF Entry
    <3>4. o \in AllJobs /\ JobOf[o].uses \in SUBSET {"src", "dst"}
      <4>1. o \in AllJobs
        BY <3>1, JobNames DEF JobSteps
      <4> QED BY <4>1, JobTable DEF GoodJob
    <3> DEFINE fields == JobOf[o].uses \cup IF Creates(e) /\ ~batch THEN {"delta"} ELSE {}
    <3>5. {u \in Unit : \A f \in fields : u \in At(e, f) .. At(e, f) + e.len - 1} = asked
      <4>1. Unmoved(o, d)
        BY <3>1 DEF JobInv, DeltaInv
      <4>2. \A f \in JobOf[o].uses : At(e, f) = d[f]
        <5>1. CASE Applies(e) /\ ~batch
          <6>1. o = "ap_delta" /\ d.src = 0 /\ d.dst = 0
            BY <3>3, <4>1, <5>1 DEF Applies, Unmoved, DeltaJobs
          <6> QED BY <3>3, <3>4, <6>1 DEF At
        <5>2. CASE batch
          <6>1. JobOf[o].uses = {"src"}
            BY <1>1, <3>1, <5>2, CurrentFacts DEF JobOf, BatchJob, Job
          <6> QED BY <3>3, <6>1 DEF At
        <5>3. CASE ~Applies(e)
          BY <3>3, <3>4, <5>3 DEF At
        <5> QED BY <5>1, <5>2, <5>3
      <4>3. ASSUME Creates(e) /\ ~batch
            PROVE  /\ At(e, "delta") = 0 /\ d["src"] = 0
                   /\ "src" \in JobOf[o].uses
        <5>1. o = "cr_delta"
          BY <3>3, <4>3 DEF Creates
        <5>2. e.delta = d.delta /\ d.delta = 0 /\ d.src = 0
          BY <3>1, <4>1, <5>1 DEF Entry, Unmoved, DeltaJobs
        <5>3. At(e, "delta") = e["delta"]
          BY DEF At
        <5> QED BY <5>1, <5>2, <5>3 DEF JobOf, CrDeltaJob, Resumed, Job
      <4> HIDE DEF d, o
      <4> QED BY <3>3, <4>2, <4>3 DEF Asked
    <3>6. asked = {u \in Unit : unit[t][u] = "none"} /\ Cardinality(asked) = d.len
      <4> DEFINE c == comp[t]
                 w == unit[t]
      <4>1. JobState(o, step, d, c, w, spoiled) /\ c.status = "none" /\ o \notin Untracked /\ JobOf[o].len # 0
        BY <3>1, <3>3 DEF JobInv
      <4> HIDE DEF c, w, d, o
      <4>2. asked = Lacking(w) /\ Cardinality(asked) = d.len
        BY <3>2, <3>4, <4>1, AskedIsLeft
      <4> QED BY <4>2 DEF w, Lacking
    <3> QED BY <3>3, <3>5, <3>6
  <2> QED BY <2>1, <2>2, <2>3 DEF JobsRight
<1> QED BY <1>1, AccelInvHolds, PTL

\* VerdictRight, for any number of rounds: a pass means that the last job of every
\* task was done whole, but for the exceptions listed at PassMeansDone (waits that
\* timed out, resumed delta jobs, applications whose creation failed, the opcodes
\* whose data nobody looks at); a failure has a reason (task_result_verify_*).
THEOREM VerdictRightHolds == Spec => []VerdictRight
<1>1. ASSUME AccelInv PROVE VerdictRight
  <2>1. FailExplained /\ TestTypes
    BY <1>1 DEF AccelInv
  <2>2. ASSUME pc \in {"exit", "closed", "exited"}, rc = "ok", op \notin {"noop", "drain", "cflush", "dix_gen"},
               NEW x \in Task \ timedOut
        PROVE  Finished(x)
    <3>1. itr <= 0 /\ itr \in Int
      BY <1>1, <2>1, <2>2, TestFacts DEF AccelInv, OutcomeInv
    <3>2. x \in Task /\ x <= NumDesc - itr
      BY <2>2, <3>1, AccelConstants DEF Task
    <3> QED BY <1>1, <2>2, <3>2 DEF AccelInv, DoneInv, Silent
  <2>3. PassMeansDone
    <3> SUFFICES ASSUME pc \in {"exit", "closed", "exited"}, rc = "ok",
                        op \notin {"noop", "drain", "cflush", "dix_gen"}, NEW x \in Task \ timedOut
                 PROVE  Finished(x)
      BY DEF PassMeansDone, Finished
    <3> QED BY <2>2
  <2> QED BY <2>1, <2>3 DEF VerdictRight
<1> QED BY <1>1, AccelInvHolds, PTL
=============================================================================
