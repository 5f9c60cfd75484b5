------------------------------ MODULE DtoProofs ------------------------------
(* The transparent offload library for any threads, calls, portals and     *)
(* knobs.                                                                  *)
EXTENDS Dto, FiniteSetTheorems, WellFoundedInduction, TLAPS

-----------------------------------------------------------------------------
(* Numbers.                                                                *)

LEMMA LeastNat ==
  ASSUME NEW S \in SUBSET Nat, S # {}
  PROVE  \E x \in S : \A y \in S : x <= y
<1> DEFINE R == {p \in Nat \X Nat : p[1] < p[2]}
<1>1. IsWellFoundedOn(R, Nat)
  BY NatLessThanWellFounded, Zenon DEF OpToRel
<1> HIDE DEF R
<1>2. PICK x \in S : \A y \in S : ~(<<y, x>> \in R)
  BY <1>1, WFMin
<1>3. ASSUME NEW y \in S PROVE x <= y
  BY <1>2, <1>3, y < x => <<y, x>> \in R DEF R
<1> QED BY <1>3

LEMMA LeastOf ==
  ASSUME NEW S \in SUBSET Nat, S # {}
  PROVE  Min(S) \in S /\ \A y \in S : Min(S) <= y
<1>1. \E x \in S : \A y \in S : x =< y
  BY LeastNat
<1> QED BY <1>1, Zenon DEF Min

LEMMA LeastOfTwo ==
  ASSUME NEW a \in Nat, NEW b \in Nat
  PROVE  Min({a, b}) \in Nat /\ Min({a, b}) <= a /\ Min({a, b}) <= b
  BY LeastOf, {a, b} \in SUBSET Nat

LEMMA Shifted ==
  ASSUME NEW d \in Nat, NEW e \in Nat, NEW n \in Nat, NEW i \in d .. d + n - 1
  PROVE  e + (i - d) \in e .. e + n - 1
  OBVIOUS

LEMMA Within ==
  ASSUME NEW d \in Nat, NEW a \in Nat, NEW k \in Nat, NEW n \in Nat, a + k <= n,
         NEW i \in d + a .. d + a + k - 1
  PROVE  i - d \in a .. a + k - 1 /\ i \in d .. d + n - 1
  OBVIOUS

LEMMA CpuSizeFacts ==
  ASSUME NEW j, NEW n \in Nat, NEW frac, Shared(j, n) => frac \in 0 .. FracDen - 1
  PROVE  /\ CpuSize(j, n, frac) \in 0 .. n
         /\ CpuSize(j, n, frac) > 0 => j.op # "cmp" /\ (j.op = "move" => ~Overlapping(j, n))
<1>1. FracDen \in Nat \ {0} /\ (Shared(j, n) => frac \in Nat /\ frac <= FracDen)
  BY DtoParameters
<1>2. ASSUME Shared(j, n) PROVE (n * frac) \div FracDen \in 0 .. n
  <2> DEFINE q == (n * frac) \div FracDen
  <2>1. n * frac \in Nat /\ n * frac <= n * FracDen
    BY <1>1, <1>2
  <2> DEFINE p == n * frac
  <2>2. p \in Nat /\ p <= n * FracDen
    BY <2>1
  <2> HIDE DEF p
  <2>3. p \div FracDen \in Nat /\ (p \div FracDen) * FracDen <= p
    BY <1>1, <2>2
  <2>4. (p \div FracDen) * FracDen <= n * FracDen
    BY <1>1, <2>2, <2>3
  <2>5. p \div FracDen <= n
    BY <1>1, <2>3, <2>4
  <2> QED BY <2>3, <2>5 DEF p
<1> QED BY <1>2 DEF CpuSize, Shared

LEMMA ThresholdFacts ==
  ASSUME NEW r, r.snap \in 0 .. FracDen - 1
  PROVE  Threshold(r) \in Nat
<1>1. MaxTransfer * FracDen \in Nat /\ FracDen - r.snap \in Nat \ {0} /\ Word \in Nat \ {0}
  BY DtoParameters
<1>2. (MaxTransfer * FracDen) \div (FracDen - r.snap) \in Nat
  BY <1>1
<1> QED BY <1>1, <1>2, DtoParameters DEF Threshold

-----------------------------------------------------------------------------
(* Buffers.                                                                *)

JobOk(j) ==
    /\ j = [op |-> j.op, n |-> j.n, dst |-> j.dst, src |-> j.src, mem |-> j.mem]
    /\ j.op \in {"set", "copy", "move", "cmp"} /\ {j.n, j.dst, j.src} \subseteq Nat
    /\ j.mem \in [DOMAIN j.mem -> Int] /\ DOMAIN j.mem \subseteq Int
    /\ j.dst .. j.dst + j.n - 1 \subseteq DOMAIN j.mem
    /\ j.op # "set" => j.src .. j.src + j.n - 1 \subseteq DOMAIN j.mem
    /\ j.op = "copy" => j.dst + j.n <= j.src \/ j.src + j.n <= j.dst

LEMMA JobsOk == \A t \in Threads : \A j \in Jobs[t] : JobOk(j)
  BY JobsAssumption DEF JobOk

LEMMA JobTypes ==
  ASSUME NEW j, JobOk(j)
  PROVE  /\ j.n \in Nat /\ j.dst \in Nat /\ j.src \in Nat
         /\ j.op \in {"set", "copy", "move", "cmp"}
         /\ j.mem = [i \in DOMAIN j.mem |-> j.mem[i]] /\ DOMAIN j.mem \subseteq Int
         /\ \A i \in j.dst .. j.dst + j.n - 1 : i \in DOMAIN j.mem
         /\ j.op # "set" => \A i \in j.src .. j.src + j.n - 1 : i \in DOMAIN j.mem
         /\ j.op = "copy" => j.dst + j.n <= j.src \/ j.src + j.n <= j.dst
  BY DEF JobOk

\* What is done has not overwritten what the offsets in O are copied from.
Unspoiled(j, S, O) ==
    j.op \in {"set", "cmp"} \/ \A s \in S, o \in O : j.dst + s # j.src + o

LEMMA Moving ==
  ASSUME NEW j, JobOk(j), NEW S \in SUBSET Int, NEW a \in Nat, NEW k \in Nat, a + k <= j.n,
         Unspoiled(j, S, a .. a + k - 1)
  PROVE  Moved(j.op, Partly(j, S), j.dst + a, j.src + a, k)
            = Partly(j, S \cup (a .. a + k - 1))
<1> DEFINE O == a .. a + k - 1
           P == Partly(j, S)
           Goal(i) == IF i - j.dst \in S \cup O
                      THEN Moved(j.op, j.mem, j.dst, j.src, j.n)[i] ELSE j.mem[i]
           Mv(i) == IF i \notin j.dst + a .. j.dst + a + k - 1 THEN P[i]
                    ELSE IF j.op = "set" THEN Fill
                    ELSE IF j.op = "cmp" THEN P[i]
                    ELSE P[j.src + a + i - (j.dst + a)]
<1>1. DOMAIN P = DOMAIN j.mem
  BY DEF Partly
<1>2. \A i \in DOMAIN j.mem :
         P[i] = IF i - j.dst \in S THEN Moved(j.op, j.mem, j.dst, j.src, j.n)[i] ELSE j.mem[i]
  BY DEF Partly
<1>3. \A i \in DOMAIN j.mem :
         Moved(j.op, j.mem, j.dst, j.src, j.n)[i] =
            IF i \notin j.dst .. j.dst + j.n - 1 THEN j.mem[i]
            ELSE IF j.op = "set" THEN Fill
            ELSE IF j.op = "cmp" THEN j.mem[i]
            ELSE j.mem[j.src + i - j.dst]
  BY DEF Moved
<1> HIDE DEF P
<1>4. {j.n, j.dst, j.src} \subseteq Nat /\ DOMAIN j.mem \subseteq Int
  BY JobTypes
<1>5. ASSUME NEW i \in DOMAIN j.mem PROVE Mv(i) = Goal(i)
  <2>1. i \in Int
    BY <1>4
  <2>2. CASE i \notin j.dst + a .. j.dst + a + k - 1
    <3>1. i - j.dst \notin O
      BY <1>4, <2>1, <2>2
    <3> QED BY <1>2, <2>2, <3>1
  <2>3. CASE i \in j.dst + a .. j.dst + a + k - 1
    <3>1. i - j.dst \in O /\ i \in j.dst .. j.dst + j.n - 1
      <4>1. j.dst \in Nat /\ j.n \in Nat
        BY <1>4
      <4> QED BY <2>3, <4>1, Within, Zenon
    <3>2. CASE j.op = "set"
      BY <1>3, <2>3, <3>1, <3>2
    <3>3. CASE j.op = "cmp"
      BY <1>2, <1>3, <2>3, <3>1, <3>3
    <3>4. CASE j.op \notin {"set", "cmp"}
      <4> DEFINE x == j.src + (i - j.dst)
      <4>1. x \in j.src .. j.src + j.n - 1
        <5>1. j.dst \in Nat /\ j.src \in Nat /\ j.n \in Nat
          BY <1>4
        <5>2. i \in j.dst .. j.dst + j.n - 1
          BY <3>1
        <5> QED BY <5>1, <5>2, Shifted, Zenon
      <4>2. j.op # "set"
        BY <3>4
      <4>3. \A y \in j.src .. j.src + j.n - 1 : y \in DOMAIN j.mem
        BY <4>2, JobTypes, Zenon
      <4>4. x \in DOMAIN j.mem
        BY <4>1, <4>3
      <4>5. x - j.dst \notin S
        <5>1. SUFFICES ASSUME x - j.dst \in S PROVE FALSE
          OBVIOUS
        <5>2. j.dst + (x - j.dst) # j.src + (i - j.dst)
          BY <3>1, <3>4, <5>1 DEF Unspoiled
        <5> QED BY <1>4, <2>1, <5>2
      <4>6. j.src + a + i - (j.dst + a) = x /\ j.src + i - j.dst = x
        BY <1>4, <2>1
      <4> HIDE DEF x
      <4>7. P[x] = j.mem[x]
        BY <1>2, <4>4, <4>5
      <4> QED BY <1>3, <2>3, <3>1, <3>4, <4>6, <4>7
    <3> QED BY <3>2, <3>3, <3>4
  <2> QED BY <2>2, <2>3
<1>6. Moved(j.op, P, j.dst + a, j.src + a, k) = [i \in DOMAIN j.mem |-> Mv(i)]
  BY <1>1 DEF Moved
<1>7. Partly(j, S \cup O) = [i \in DOMAIN j.mem |-> Goal(i)]
  BY DEF Partly
<1> HIDE DEF Mv, Goal, O
<1>8. Moved(j.op, P, j.dst + a, j.src + a, k) = Partly(j, S \cup O)
  BY <1>5, <1>6, <1>7
<1> QED BY <1>8 DEF P, O

LEMMA NothingDone ==
  ASSUME NEW j, JobOk(j)
  PROVE  Partly(j, {}) = j.mem
<1>1. Partly(j, {}) = [i \in DOMAIN j.mem |-> j.mem[i]]
  BY DEF Partly
<1> QED BY <1>1, JobTypes

LEMMA AllDone ==
  ASSUME NEW j, JobOk(j)
  PROVE  Partly(j, 0 .. j.n - 1) = Moved(j.op, j.mem, j.dst, j.src, j.n)
<1> DEFINE F == Moved(j.op, j.mem, j.dst, j.src, j.n)
<1>1. /\ DOMAIN F = DOMAIN j.mem /\ F = [i \in DOMAIN j.mem |-> F[i]]
      /\ \A i \in DOMAIN j.mem : i \notin j.dst .. j.dst + j.n - 1 => F[i] = j.mem[i]
  BY DEF Moved
<1>2. Partly(j, 0 .. j.n - 1) =
         [i \in DOMAIN j.mem |-> IF i - j.dst \in 0 .. j.n - 1 THEN F[i] ELSE j.mem[i]]
  BY DEF Partly
<1> HIDE DEF F
<1>3. ASSUME NEW i \in DOMAIN j.mem
      PROVE  (IF i - j.dst \in 0 .. j.n - 1 THEN F[i] ELSE j.mem[i]) = F[i]
  <2>1. i \in Int /\ j.dst \in Nat /\ j.n \in Nat
    BY JobTypes
  <2>2. i - j.dst \in 0 .. j.n - 1 <=> i \in j.dst .. j.dst + j.n - 1
    BY <2>1
  <2> QED BY <1>1, <2>2
<1>4. Partly(j, 0 .. j.n - 1) = F
  BY <1>1, <1>2, <1>3
<1> QED BY <1>4 DEF F

\* A comparison leaves the buffers alone.
LEMMA Compares ==
  ASSUME NEW j, JobOk(j), j.op = "cmp", NEW S
  PROVE  Partly(j, S) = j.mem
<1>1. \A i \in DOMAIN j.mem : Moved(j.op, j.mem, j.dst, j.src, j.n)[i] = j.mem[i]
  BY DEF Moved
<1>2. Partly(j, S) = [i \in DOMAIN j.mem |-> j.mem[i]]
  BY <1>1 DEF Partly
<1> QED BY <1>2, JobTypes

-----------------------------------------------------------------------------
(* The device.                                                             *)

\* Does the device work from the end?
Back(d) == d.op # "set" /\ d.op # "cmp" /\ d.dst > d.src /\ d.dst < d.src + d.size

OutcomeOk(o, d, m) ==
    /\ o.comp \in [status : {"success", "fault", "error"}, result : {0, 1}, bytes : Nat]
    /\ o.comp.status = "error" => o.comp.result = 0 /\ o.mem = m
    /\ o.comp.status = "success" =>
          /\ o.mem = Moved(d.op, m, d.dst, d.src, d.size)
          /\ o.comp.result # 0 => d.op = "cmp" /\ Differ(m, d.dst, d.src, d.size) # {}
          /\ d.op = "cmp" /\ o.comp.result = 0 => Differ(m, d.dst, d.src, d.size) = {}
    /\ o.comp.status = "fault" =>
          /\ o.comp.bytes < d.size /\ (o.comp.result # 0 <=> Back(d))
          /\ d.op = "cmp" => Differ(m, d.dst, d.src, o.comp.bytes) = {}
          /\ o.mem = IF Back(d)
                     THEN Moved(d.op, m, d.dst + d.size - o.comp.bytes,
                                d.src + d.size - o.comp.bytes, o.comp.bytes)
                     ELSE Moved(d.op, m, d.dst, d.src, o.comp.bytes)

LEMMA OutcomesOk ==
  ASSUME NEW d, NEW m, d.size \in Nat, NEW o \in Outcomes(d, m)
  PROVE  OutcomeOk(o, d, m)
<1>1. CASE d.size \notin 1 .. MaxTransfer
  BY <1>1 DEF Outcomes, OutcomeOk
<1>2. CASE d.size \in 1 .. MaxTransfer
  <2> DEFINE same == IF d.op = "cmp" THEN Min({d.size} \cup Differ(m, d.dst, d.src, d.size))
                     ELSE d.size
  <2>1. same \in Nat /\ (same < d.size => d.op = "cmp" /\ Differ(m, d.dst, d.src, d.size) # {})
    <3> DEFINE S == {d.size} \cup Differ(m, d.dst, d.src, d.size)
    <3>1. S \in SUBSET Nat /\ S # {}
      BY DEF Differ
    <3>2. Min(S) \in S
      BY <3>1, LeastOf
    <3> HIDE DEF S
    <3>3. Min(S) \in Nat
      BY <3>1, <3>2
    <3>4. Min(S) < d.size => Differ(m, d.dst, d.src, d.size) # {}
      BY <3>2 DEF S
    <3> QED BY <3>3, <3>4 DEF S
  <2>2. d.op = "cmp" => \A i \in Differ(m, d.dst, d.src, d.size) : same <= i
    <3>1. {d.size} \cup Differ(m, d.dst, d.src, d.size) \in SUBSET Nat
      BY DEF Differ
    <3> QED BY <3>1, LeastOf
  <2> HIDE DEF same
  <2>3. ASSUME NEW k \in 0 .. Min({same, d.size - 1})
        PROVE  k \in Nat /\ k < d.size /\ k <= same
    BY <1>2, <2>1, LeastOfTwo
  <2>4. d.op = "cmp" /\ ~(same < d.size) => Differ(m, d.dst, d.src, d.size) = {}
    BY <2>1, <2>2 DEF Differ
  <2>5. ASSUME NEW k \in Nat, k < d.size, k <= same, d.op = "cmp"
        PROVE  Differ(m, d.dst, d.src, k) = {}
    BY <2>1, <2>2, <2>5 DEF Differ
  <2>6. \/ o = [comp |-> [status |-> "success", result |-> IF same < d.size THEN 1 ELSE 0,
                          bytes |-> same],
                mem |-> Moved(d.op, m, d.dst, d.src, d.size)]
        \/ \E k \in 0 .. Min({same, d.size - 1}) :
              o = [comp |-> [status |-> "fault", result |-> IF Back(d) THEN 1 ELSE 0, bytes |-> k],
                   mem |-> IF Back(d)
                           THEN Moved(d.op, m, d.dst + d.size - k, d.src + d.size - k, k)
                           ELSE Moved(d.op, m, d.dst, d.src, k)]
    BY <1>2 DEF Outcomes, same, Back
  <2>7. CASE o = [comp |-> [status |-> "success", result |-> IF same < d.size THEN 1 ELSE 0,
                            bytes |-> same],
                  mem |-> Moved(d.op, m, d.dst, d.src, d.size)]
    BY <2>1, <2>7, <2>4 DEF OutcomeOk
  <2>8. ASSUME NEW k \in 0 .. Min({same, d.size - 1}),
               o = [comp |-> [status |-> "fault", result |-> IF Back(d) THEN 1 ELSE 0, bytes |-> k],
                    mem |-> IF Back(d)
                            THEN Moved(d.op, m, d.dst + d.size - k, d.src + d.size - k, k)
                            ELSE Moved(d.op, m, d.dst, d.src, k)]
        PROVE  OutcomeOk(o, d, m)
    <3>1. k \in Nat /\ k < d.size /\ (d.op = "cmp" => Differ(m, d.dst, d.src, k) = {})
      BY <2>3, <2>8, <2>5
    <3>2. o.comp.bytes = k
      BY <2>8
    <3>3. d.op = "cmp" => Differ(m, d.dst, d.src, o.comp.bytes) = {}
      BY <3>1, <3>2
    <3> QED BY <2>8, <3>1, <3>3 DEF OutcomeOk
  <2> QED BY <2>6, <2>7, <2>8
<1> QED BY <1>1, <1>2

-----------------------------------------------------------------------------
(* The steps of a call, up to its first descriptor.                        *)

JobsOf(js) == \A j \in js : JobOk(j)

LEMMA StepCall ==
  ASSUME NEW r, NEW d, NEW m, NEW js, CallInv(r, d, m, js), JobsOf(js),
         r.pc = "idle", NEW j \in js,
         NEW c, NEW b \in BOOLEAN, NEW e \in BOOLEAN, NEW q,
         q = [r EXCEPT !.pc = "enter", !.calls = c, !.job = j, !.orig = b, !.early = e]
  PROVE  CallInv(q, d, j.mem, js)
<1>1. CallTypes(r, js) /\ Counts(r) /\ AtDevice(r, d) /\ Comparisons(r, d)
  BY DEF CallInv
<1>2. /\ Fields(q) /\ q.pc = "enter" /\ q.job = j /\ q.orig = b /\ q.early = e
      /\ q.n = r.n /\ q.len = r.len /\ q.cpu = r.cpu /\ q.snap = r.snap /\ q.split = r.split
      /\ q.done = r.done /\ q.comp = r.comp /\ q.ret = r.ret
  BY <1>1 DEF CallTypes, Fields
<1>3. r.done = 0 /\ r.cpu = 0 /\ d = NoDesc /\ r.ret = 0
  BY <1>1 DEF Counts, AtDevice, Comparisons
<1>4. JobOk(j) /\ j.n \in Nat
  BY JobTypes DEF JobsOf
<1>5. CallTypes(q, js)
  BY <1>1, <1>2 DEF CallTypes, Beginning
<1>6. Counts(q)
  BY <1>2, <1>3, <1>4 DEF Counts, Beginning, Prepared, Ended
<1>7. AtDevice(q, d) /\ Comparisons(q, d)
  BY <1>2, <1>3 DEF AtDevice, Comparisons, Rounds, Prepared, Ended
<1>8. Contents(q, d, j.mem) /\ Directions(q, d)
  BY <1>2 DEF Contents, Directions, Beginning, Rounds, Prepared, Ended
<1>9. Verdict(q, d)
  BY <1>7, <1>2 DEF AtDevice, Verdict, Rounds, Prepared, Ended
<1> QED BY <1>5, <1>6, <1>7, <1>8, <1>9 DEF CallInv

\* From one step of the initialisation to the next.
LEMMA StepBeginning ==
  ASSUME NEW r, NEW d, NEW m, NEW js, CallInv(r, d, m, js), r.pc \in Beginning,
         NEW p \in Beginning, NEW q, q = [r EXCEPT !.pc = p]
  PROVE  CallInv(q, d, m, js)
<1>1. CallTypes(r, js) /\ Counts(r) /\ AtDevice(r, d) /\ Comparisons(r, d)
  BY DEF CallInv
<1>2. /\ Fields(q) /\ q.pc = p /\ q.job = r.job /\ q.orig = r.orig /\ q.early = r.early
      /\ q.n = r.n /\ q.len = r.len /\ q.cpu = r.cpu /\ q.snap = r.snap /\ q.split = r.split
      /\ q.done = r.done /\ q.comp = r.comp /\ q.ret = r.ret
  BY <1>1 DEF CallTypes, Fields
<1>3. /\ p \notin {"idle", "return", "std"} \cup Rounds
      /\ r.pc \notin {"idle", "return", "std"} \cup Rounds
      /\ p \notin {"tune", "tune2", "move", "snap", "chunk"}
  BY DEF Beginning, Rounds, Prepared, Ended
<1>4. CallTypes(q, js)
  BY <1>1, <1>2, <1>3 DEF CallTypes
<1>5. Counts(q)
  BY <1>1, <1>2, <1>3 DEF Counts, Rounds, Prepared, Ended
<1>6. AtDevice(q, d) /\ Comparisons(q, d)
  BY <1>1, <1>2, <1>3 DEF AtDevice, Comparisons, Rounds, Prepared, Ended
<1>7. ~SplitBackwards(q.job) => Contents(q, d, m) /\ Directions(q, d)
  <2>1. ~SplitBackwards(q.job) => m = q.job.mem
    BY <1>2 DEF CallInv, Contents
  <2> QED BY <1>2, <1>3, <2>1 DEF Contents, Directions, Rounds, Prepared, Ended
<1>8. Verdict(q, d)
  BY <1>6, <1>2, <1>3 DEF AtDevice, Verdict, Rounds, Prepared, Ended
<1> QED BY <1>2, <1>3, <1>4, <1>5, <1>6, <1>7, <1>8 DEF CallInv, Rounds

\* memcmp of equal buffers.
LEMMA EqualParts ==
  ASSUME NEW j, JobOk(j), Equal(j), NEW a \in Nat, NEW k \in Nat, a + k <= j.n
  PROVE  /\ Differ(j.mem, j.dst + a, j.src + a, k) = {}
         /\ Compared(j.mem, j.dst + a, j.src + a, k) = 0
<1>1. j.n \in Nat /\ j.dst \in Nat /\ j.src \in Nat
  BY JobTypes
<1>2. \A i \in 0 .. j.n - 1 : j.mem[j.dst + i] = j.mem[j.src + i]
  BY DEF Equal, Agree, Differ
<1>3. ASSUME NEW i \in 0 .. k - 1
      PROVE  j.mem[(j.dst + a) + i] = j.mem[(j.src + a) + i]
  <2>1. a + i \in 0 .. j.n - 1
    BY <1>1
  <2>2. (j.dst + a) + i = j.dst + (a + i) /\ (j.src + a) + i = j.src + (a + i)
    BY <1>1
  <2> QED BY <1>2, <2>1, <2>2
<1>4. Differ(j.mem, j.dst + a, j.src + a, k) = {}
  BY <1>3 DEF Differ
<1> QED BY <1>4 DEF Compared

\* What memcmp has found equal so far.
LEMMA AgreeNone ==
  ASSUME NEW j PROVE Agree(j, 0)
  BY DEF Agree, Differ

LEMMA AgreeMore ==
  ASSUME NEW j, JobOk(j), NEW a \in Nat, NEW k \in Nat, Agree(j, a),
         Differ(j.mem, j.dst + a, j.src + a, k) = {}
  PROVE  Agree(j, a + k)
<1>1. j.dst \in Nat /\ j.src \in Nat
  BY JobTypes
<1>2. ASSUME NEW i \in 0 .. (a + k) - 1 PROVE j.mem[j.dst + i] = j.mem[j.src + i]
  <2>1. CASE i < a
    BY <2>1 DEF Agree, Differ
  <2>2. CASE ~(i < a)
    <3>1. i - a \in 0 .. k - 1
      BY <2>2
    <3>2. j.mem[(j.dst + a) + (i - a)] = j.mem[(j.src + a) + (i - a)]
      BY <3>1 DEF Differ
    <3>3. (j.dst + a) + (i - a) = j.dst + i /\ (j.src + a) + (i - a) = j.src + i
      BY <1>1
    <3> QED BY <3>2, <3>3
  <2> QED BY <2>1, <2>2
<1> QED BY <1>2 DEF Agree, Differ

\* Past equal bytes, memcmp of the rest is memcmp of the whole.
LEMMA ComparedRest ==
  ASSUME NEW j, JobOk(j), NEW a \in Nat, NEW k \in Nat, a + k = j.n, Agree(j, a)
  PROVE  Compared(j.mem, j.dst + a, j.src + a, k) = Compared(j.mem, j.dst, j.src, j.n)
<1> DEFINE D == Differ(j.mem, j.dst, j.src, j.n)
           E == Differ(j.mem, j.dst + a, j.src + a, k)
<1>1. j.dst \in Nat /\ j.src \in Nat /\ j.n \in Nat
  BY JobTypes
<1>2. D \in SUBSET Nat /\ E \in SUBSET Nat
  BY DEF Differ
<1>3. ASSUME NEW i \in E PROVE i + a \in D
  <2>1. i \in 0 .. k - 1 /\ j.mem[(j.dst + a) + i] # j.mem[(j.src + a) + i]
    BY <1>3 DEF Differ
  <2>2. (j.dst + a) + i = j.dst + (i + a) /\ (j.src + a) + i = j.src + (i + a)
    BY <1>1, <2>1
  <2>3. i + a \in 0 .. j.n - 1
    BY <1>1, <2>1
  <2> QED BY <2>1, <2>2, <2>3 DEF Differ
<1>4. ASSUME NEW i \in D PROVE i - a \in E
  <2>1. i \in 0 .. j.n - 1 /\ j.mem[j.dst + i] # j.mem[j.src + i]
    BY <1>4 DEF Differ
  <2>2. ~(i < a)
    BY <2>1 DEF Agree, Differ
  <2>3. (j.dst + a) + (i - a) = j.dst + i /\ (j.src + a) + (i - a) = j.src + i
    BY <1>1, <2>1
  <2>4. i - a \in 0 .. k - 1
    BY <1>1, <2>1, <2>2
  <2> QED BY <2>1, <2>3, <2>4 DEF Differ
<1>5. CASE D = {}
  <2>1. E = {}
    BY <1>3, <1>5
  <2> QED BY <1>5, <2>1 DEF Compared
<1>6. CASE D # {}
  <2> DEFINE x == Min(D)
             y == Min(E)
  <2>1. E # {}
    BY <1>4, <1>6
  <2> HIDE DEF D, E
  <2>2. x \in D /\ y \in E /\ (\A i \in D : x <= i) /\ \A i \in E : y <= i
    BY <1>2, <1>6, <2>1, LeastOf
  <2> HIDE DEF x, y
  <2>3. x \in Nat /\ y \in Nat
    BY <1>2, <2>2
  <2>4. x <= y + a /\ y <= x - a
    BY <1>3, <1>4, <2>2
  <2>5. (j.dst + a) + y = j.dst + x /\ (j.src + a) + y = j.src + x
    BY <1>1, <2>3, <2>4
  <2>6. /\ Compared(j.mem, j.dst, j.src, j.n) = j.mem[j.dst + x] - j.mem[j.src + x]
        /\ Compared(j.mem, j.dst + a, j.src + a, k)
              = j.mem[(j.dst + a) + y] - j.mem[(j.src + a) + y]
    BY <1>6, <2>1 DEF Compared, D, E, x, y
  <2> QED BY <2>5, <2>6
<1> QED BY <1>5, <1>6

\* The call is made with the internal functions, while another thread
\* initialises the library.
LEMMA StepAlone ==
  ASSUME NEW r, NEW d, NEW m, NEW js, CallInv(r, d, m, js), JobsOf(js), r.pc = "enter",
         NEW q,
         q = [r EXCEPT !.pc = "return",
                       !.ret = IF r.job.op = "cmp"
                               THEN Compared(m, r.job.dst, r.job.src, r.job.n) ELSE 0]
  PROVE  CallInv(q, d, Moved(r.job.op, m, r.job.dst, r.job.src, r.job.n), js)
<1>1. CallTypes(r, js) /\ Counts(r) /\ AtDevice(r, d) /\ Comparisons(r, d)
  BY DEF CallInv
<1> DEFINE j == r.job
<1>2. /\ Fields(q) /\ q.pc = "return" /\ q.job = j /\ q.orig = r.orig /\ q.early = r.early
      /\ q.n = r.n /\ q.len = r.len /\ q.cpu = r.cpu /\ q.snap = r.snap /\ q.split = r.split
      /\ q.done = r.done /\ q.comp = r.comp
      /\ q.ret = IF j.op = "cmp" THEN Compared(m, j.dst, j.src, j.n) ELSE 0
  BY <1>1 DEF CallTypes, Fields
<1>3. j \in js /\ JobOk(j)
  BY <1>1 DEF CallTypes, JobsOf
<1>4. ~SplitBackwards(j) => m = j.mem
  BY DEF CallInv, Contents, Beginning
<1> HIDE DEF j
<1>5. CallTypes(q, js)
  BY <1>1, <1>2, <1>3 DEF CallTypes, j
<1>6. Counts(q)
  BY <1>1, <1>2 DEF Counts, Beginning, Prepared, Ended, j
<1>7. AtDevice(q, d)
  BY <1>1, <1>2 DEF AtDevice
<1>8. Comparisons(q, d)
  <2>1. ASSUME Equal(j) PROVE q.ret = 0
    <3>1. m = j.mem
      BY <1>4, <2>1 DEF Equal, SplitBackwards, Backward
    <3> QED BY <1>2, <2>1, <3>1 DEF Equal, Agree, Compared
  <2> QED BY <1>2, <2>1 DEF Comparisons, Rounds, Prepared, Ended
<1>9. ~SplitBackwards(j) =>
         /\ Contents(q, d, Moved(j.op, m, j.dst, j.src, j.n))
         /\ Directions(q, d)
  BY <1>2, <1>3, <1>4, AllDone DEF Contents, Directions, Beginning, Rounds, Prepared, Ended
<1>10. Verdict(q, d)
  <2>1. ASSUME j.op = "cmp" PROVE q.ret = Compared(j.mem, j.dst, j.src, j.n)
    <3>1. m = j.mem
      BY <1>4, <2>1 DEF SplitBackwards, Backward
    <3> QED BY <1>2, <2>1, <3>1
  <2> QED BY <1>7, <1>2, <2>1 DEF AtDevice, Verdict, Rounds, Prepared, Ended
<1> QED BY <1>2, <1>5, <1>6, <1>7, <1>8, <1>9, <1>10 DEF CallInv, j

-----------------------------------------------------------------------------
(* The rounds.                                                             *)

LEMMA JobNats ==
  ASSUME NEW j, JobOk(j)
  PROVE  j.n \in Nat /\ j.dst \in Nat /\ j.src \in Nat
  BY JobTypes, Zenon

\* Everything the lemmas about a step start from.
LEMMA CallFacts ==
  ASSUME NEW r, NEW d, NEW m, NEW js, CallInv(r, d, m, js), JobsOf(js), r.pc # "idle"
  PROVE  /\ CallTypes(r, js) /\ Counts(r) /\ AtDevice(r, d) /\ Comparisons(r, d) /\ Fields(r)
         /\ Verdict(r, d)
         /\ r.job \in js /\ JobOk(r.job)
         /\ r.job.n \in Nat /\ r.job.dst \in Nat /\ r.job.src \in Nat
         /\ r.n \in Nat /\ r.len \in Nat /\ r.cpu \in Nat /\ r.done \in Nat
         /\ ~SplitBackwards(r.job) => Contents(r, d, m) /\ Directions(r, d)
<1>1. /\ CallTypes(r, js) /\ Counts(r) /\ AtDevice(r, d) /\ Comparisons(r, d) /\ Verdict(r, d)
      /\ ~SplitBackwards(r.job) => Contents(r, d, m) /\ Directions(r, d)
  BY DEF CallInv
<1>2. r.job \in js /\ JobOk(r.job) /\ Fields(r)
  BY <1>1 DEF CallTypes, JobsOf
<1>3. r.n \in Nat /\ r.len \in Nat /\ r.cpu \in Nat /\ r.done \in Nat
  BY <1>1 DEF CallTypes
<1> QED BY <1>1, <1>2, <1>3, JobNats

\* The call goes to the standard function at once.
LEMMA StepOriginal ==
  ASSUME NEW r, NEW d, NEW m, NEW js, CallInv(r, d, m, js), JobsOf(js), r.pc = "go", NEW q,
         q = [r EXCEPT !.pc = "std", !.done = 0, !.n = r.job.n, !.rc = "success",
                       !.comp.result = IF r.job.op = "cmp" THEN 0 ELSE @]
  PROVE  CallInv(q, d, m, js)
<1> DEFINE j == r.job
<1>1. CallTypes(r, js) /\ Counts(r) /\ AtDevice(r, d) /\ Comparisons(r, d) /\ Fields(r)
      /\ j \in js /\ JobOk(j) /\ j.n \in Nat
      /\ (~SplitBackwards(j) => Contents(r, d, m))
  BY CallFacts
<1>2. /\ Fields(q) /\ q.pc = "std" /\ q.job = j /\ q.orig = r.orig /\ q.early = r.early
      /\ q.n = j.n /\ q.len = r.len /\ q.cpu = r.cpu /\ q.snap = r.snap /\ q.split = r.split
      /\ q.done = 0 /\ q.ret = r.ret
      /\ q.comp = [r.comp EXCEPT !.result = IF j.op = "cmp" THEN 0 ELSE @]
  BY <1>1 DEF Fields
<1> HIDE DEF j
<1>3. r.comp \in [status : {"zero", "success", "fault", "error"}, result : {0, 1}, bytes : Nat]
  BY <1>1 DEF CallTypes
<1>4. /\ q.comp \in [status : {"zero", "success", "fault", "error"}, result : {0, 1}, bytes : Nat]
      /\ j.op = "cmp" => q.comp.result = 0
  BY <1>2, <1>3
<1>5. CallTypes(q, js)
  BY <1>1, <1>2, <1>4 DEF CallTypes, Beginning
<1>6. Counts(q)
  BY <1>1, <1>2 DEF Counts, Beginning, Prepared, Ended, j
<1>7. AtDevice(q, d) /\ Comparisons(q, d)
  BY <1>1, <1>2, <1>4 DEF AtDevice, Comparisons, Equal, j
<1>8. Offsets(q) = {}
  BY <1>1, <1>2 DEF Offsets
<1>9. ~SplitBackwards(j) => Contents(q, d, m)
  <2>1. ~SplitBackwards(j) => m = j.mem
    BY <1>1 DEF Contents, Beginning, j
  <2> QED BY <1>1, <1>2, <1>8, <2>1, NothingDone
             DEF Contents, Beginning, Rounds, Prepared, Ended
<1>10. Directions(q, d)
  BY <1>2 DEF Directions, Rounds, Prepared, Ended
<1>11. Verdict(q, d)
  BY <1>7, <1>2, AgreeNone DEF AtDevice, Verdict, Rounds, Prepared, Ended
<1> QED BY <1>2, <1>5, <1>6, <1>7, <1>9, <1>10, <1>11 DEF CallInv

\* All of CallInv but that only a loop comes to a chunk.
LoopInv(r, d, m, js) ==
    /\ CallTypes(r, js) /\ Counts(r) /\ AtDevice(r, d) /\ Comparisons(r, d) /\ Verdict(r, d)
    /\ ~SplitBackwards(r.job) => Contents(r, d, m) /\ Directions(r, d)

\* The call is begun, in one descriptor or in a loop.
LEMMA StepBegin ==
  ASSUME NEW r, NEW d, NEW m, NEW js, CallInv(r, d, m, js), JobsOf(js), r.pc = "go",
         NEW b \in BOOLEAN, b /\ Backward(r.job) => SplitBackwards(r.job),
         NEW p \in {"snap", "chunk"}, NEW q,
         q = [r EXCEPT !.pc = p, !.done = 0, !.n = r.job.n, !.rc = "success",
                       !.comp.result = IF r.job.op = "cmp" THEN 0 ELSE @,
                       !.split = b]
  PROVE  LoopInv(q, d, m, js)
<1> DEFINE j == r.job
<1>1. CallTypes(r, js) /\ Counts(r) /\ AtDevice(r, d) /\ Comparisons(r, d) /\ Fields(r)
      /\ j \in js /\ JobOk(j) /\ j.n \in Nat
      /\ (~SplitBackwards(j) => Contents(r, d, m))
  BY CallFacts
<1>2. /\ Fields(q) /\ q.pc = p /\ q.job = j /\ q.orig = r.orig /\ q.early = r.early
      /\ q.n = j.n /\ q.len = r.len /\ q.cpu = r.cpu /\ q.snap = r.snap /\ q.split = b
      /\ q.done = 0 /\ q.ret = r.ret
      /\ q.comp = [r.comp EXCEPT !.result = IF j.op = "cmp" THEN 0 ELSE @]
  BY <1>1 DEF Fields
<1> HIDE DEF j
<1>3. r.comp \in [status : {"zero", "success", "fault", "error"}, result : {0, 1}, bytes : Nat]
  BY <1>1 DEF CallTypes
<1>4. /\ q.comp \in [status : {"zero", "success", "fault", "error"}, result : {0, 1}, bytes : Nat]
      /\ j.op = "cmp" => q.comp.result = 0
  BY <1>2, <1>3
<1>5. CallTypes(q, js)
  BY <1>1, <1>2, <1>4 DEF CallTypes, Beginning, Rounds
<1>6. Counts(q)
  BY <1>1, <1>2 DEF Counts, Beginning, Prepared, Ended, j
<1>7. AtDevice(q, d) /\ Comparisons(q, d)
  BY <1>1, <1>2, <1>4 DEF AtDevice, Comparisons, Equal, j
<1>8. ~SplitBackwards(j) => Contents(q, d, m)
  <2>1. ~SplitBackwards(j) => m = j.mem
    BY <1>1 DEF Contents, Beginning, j
  <2>2. 0 .. q.done - 1 = {}
    BY <1>2
  <2> QED BY <1>1, <1>2, <2>1, <2>2, NothingDone
             DEF Contents, Beginning, Rounds, Prepared, Ended
<1>9. ~SplitBackwards(j) => Directions(q, d)
  BY <1>2 DEF Directions, Rounds, Prepared, Ended, j
<1>10. Verdict(q, d)
  BY <1>2, <1>4, <1>7, AgreeNone DEF AtDevice, Verdict, Rounds, Prepared, Ended
<1> QED BY <1>2, <1>5, <1>6, <1>7, <1>8, <1>9, <1>10 DEF LoopInv

\* The next len bytes are prepared, of which the CPU takes its part.
LEMMA StepChunk ==
  ASSUME NEW r, NEW d, NEW m, NEW js, LoopInv(r, d, m, js), JobsOf(js), r.pc = "chunk",
         NEW len \in Nat, len <= r.n, ~r.split => len = r.n /\ r.n = r.job.n,
         NEW frac, Shared(r.job, len) => frac \in 0 .. FracDen - 1,
         NEW cpu, cpu = CpuSize(r.job, len, frac),
         NEW s, Fields(s), s.job = r.job, s.orig = r.orig, s.early = r.early, s.n = r.n,
         s.snap = r.snap, s.split = r.split, s.done = r.done, s.comp = r.comp, s.ret = r.ret,
         NEW q, q = Chunk(s, len, cpu)
  PROVE  CallInv(q, d, m, js)
<1> DEFINE j == r.job
<1>1. /\ CallTypes(r, js) /\ Counts(r) /\ AtDevice(r, d) /\ Comparisons(r, d) /\ Fields(r)
      /\ ~SplitBackwards(j) => Contents(r, d, m) /\ Directions(r, d)
      /\ j \in js /\ JobOk(j)
  BY DEF LoopInv, CallTypes, JobsOf
<1>2. j.n \in Nat /\ j.dst \in Nat /\ j.src \in Nat /\ r.n \in Nat /\ r.done \in Nat
  BY <1>1, JobNats DEF CallTypes
<1>3. /\ Fields(q) /\ q.pc = "submit" /\ q.job = j /\ q.orig = r.orig /\ q.early = r.early
      /\ q.n = r.n /\ q.len = len /\ q.cpu = cpu /\ q.snap = r.snap /\ q.split = r.split
      /\ q.done = r.done /\ q.comp = r.comp /\ q.ret = r.ret
      /\ q.desc = [op |-> j.op, dst |-> j.dst + cpu + r.done, src |-> j.src + cpu + r.done,
                   size |-> len - cpu]
  BY <1>1 DEF Fields, Chunk
<1>4. cpu \in 0 .. len /\ (cpu > 0 => j.op # "cmp" /\ (j.op = "move" => ~Overlapping(j, len)))
  BY CpuSizeFacts
<1> HIDE DEF j
<1>5. r.done = j.n - r.n /\ r.n <= j.n /\ r.done + r.n = j.n /\ cpu \in Nat
  BY <1>1, <1>2, <1>4 DEF Counts, j
<1>6. CallTypes(q, js)
  BY <1>1, <1>2, <1>3, <1>5 DEF CallTypes, Rounds, Prepared, Beginning
<1>7. Counts(q)
  <2>1. cpu <= len /\ len <= r.n /\ r.done <= j.n /\ cpu <= j.n
    BY <1>2, <1>4, <1>5
  <2>2. ~r.split => len = r.n /\ r.n = j.n
    BY DEF j
  <2> QED BY <1>3, <1>5, <2>1, <2>2 DEF Counts, Beginning, Prepared, Ended
<1>8. AtDevice(q, d) /\ Comparisons(q, d)
  BY <1>1, <1>3 DEF AtDevice, Comparisons, Rounds, Prepared, j
<1>9. ASSUME ~SplitBackwards(j) PROVE Contents(q, d, m) /\ Directions(q, d)
  <2>1. Contents(q, d, m)
    BY <1>1, <1>3, <1>9 DEF Contents, Beginning, Ended, j
  <2>2. cpu > 0 => j.op \in {"set", "copy"} \/ ~Overlapping(j, len)
    BY <1>1, <1>4, JobTypes
  <2>3. Directions(q, d)
    BY <1>1, <1>3, <1>9, <2>2 DEF Directions, Rounds, Prepared, Ended, FromEnd, j
  <2> QED BY <2>1, <2>3
<1>10. Verdict(q, d)
  <2>1. Verdict(r, d)
    BY DEF LoopInv
  <2>2. j.op = "cmp" => cpu = 0
    BY <1>4
  <2> QED BY <1>8, <1>3, <2>1, <2>2 DEF AtDevice, Verdict, Rounds, Prepared, j
<1> QED BY <1>3, <1>6, <1>7, <1>8, <1>9, <1>10 DEF CallInv

\* The device has taken the descriptor.
LEMMA StepAccepted ==
  ASSUME NEW r, NEW d, NEW m, NEW js, CallInv(r, d, m, js), JobsOf(js), r.pc = "submit", NEW q,
         q = [[r EXCEPT !.comp = Cleared(@)] EXCEPT !.pc = "cpu"]
  PROVE  CallInv(q, r.desc, m, js)
<1> DEFINE j == r.job
<1>1. CallTypes(r, js) /\ Counts(r) /\ AtDevice(r, d) /\ Comparisons(r, d) /\ Fields(r)
      /\ j \in js /\ JobOk(j) /\ j.n \in Nat
      /\ (~SplitBackwards(j) => Contents(r, d, m) /\ Directions(r, d))
  BY CallFacts
<1>2. /\ Fields(q) /\ q.pc = "cpu" /\ q.job = j /\ q.orig = r.orig /\ q.early = r.early
      /\ q.n = r.n /\ q.len = r.len /\ q.cpu = r.cpu /\ q.snap = r.snap /\ q.split = r.split
      /\ q.done = r.done /\ q.ret = r.ret /\ q.desc = r.desc
      /\ q.comp = [r.comp EXCEPT !.status = "zero"]
  BY <1>1 DEF Fields, Cleared
<1> HIDE DEF j
<1>3. r.comp \in [status : {"zero", "success", "fault", "error"}, result : {0, 1}, bytes : Nat]
  BY <1>1 DEF CallTypes
<1>4. /\ q.comp \in [status : {"zero", "success", "fault", "error"}, result : {0, 1}, bytes : Nat]
      /\ q.comp.result = r.comp.result /\ q.comp.status = "zero"
  BY <1>2, <1>3
<1>5. r.desc # NoDesc
  <2>1. r.desc.op = j.op
    BY <1>1 DEF Counts, Prepared, j
  <2>2. j.op \in {"set", "copy", "move", "cmp"}
    BY <1>1, JobTypes, Zenon
  <2> QED BY <2>1, <2>2 DEF NoDesc
<1>6. CallTypes(q, js)
  BY <1>1, <1>2, <1>4 DEF CallTypes, Beginning, Rounds, Prepared
<1>7. Counts(q)
  BY <1>1, <1>2 DEF Counts, Beginning, Prepared, Ended, j
<1>8. AtDevice(q, r.desc) /\ Comparisons(q, r.desc)
  BY <1>1, <1>2, <1>4, <1>5 DEF AtDevice, Comparisons, Rounds, Prepared, j
<1>9. ASSUME ~SplitBackwards(j) PROVE Contents(q, r.desc, m) /\ Directions(q, r.desc)
  <2>1. m = Partly(j, 0 .. r.done - 1)
    BY <1>1, <1>9 DEF Contents, j
  <2>2. Contents(q, r.desc, m)
    BY <1>2, <1>5, <2>1 DEF Contents, Beginning, Ended
  <2>3. Directions(q, r.desc)
    BY <1>1, <1>2, <1>5, <1>9 DEF Directions, Rounds, Prepared, Ended, j
  <2> QED BY <2>2, <2>3
<1>10. Verdict(q, r.desc)
  <2>1. Verdict(r, d) /\ r.done \in Nat /\ Bytes(q) = 0
    BY <1>1, <1>2, <1>4, CallFacts DEF Bytes
  <2> QED BY <1>8, <1>2, <1>4, <2>1 DEF AtDevice, Verdict, Rounds, Prepared, j
<1> QED BY <1>2, <1>6, <1>7, <1>8, <1>9, <1>10 DEF CallInv

\* ENQCMD was refused until dsa_submit gave up.
LEMMA StepRefused ==
  ASSUME NEW r, NEW d, NEW m, NEW js, CallInv(r, d, m, js), JobsOf(js), r.pc = "submit", NEW q,
         q = [[r EXCEPT !.comp = Cleared(@)] EXCEPT !.pc = "after", !.rc = "retries"]
  PROVE  CallInv(q, d, m, js)
<1> DEFINE j == r.job
<1>1. CallTypes(r, js) /\ Counts(r) /\ AtDevice(r, d) /\ Comparisons(r, d) /\ Fields(r)
      /\ j \in js /\ JobOk(j) /\ j.n \in Nat /\ r.n \in Nat /\ r.done \in Nat /\ r.len \in Nat
      /\ (~SplitBackwards(j) => Contents(r, d, m) /\ Directions(r, d))
  BY CallFacts
<1>2. /\ Fields(q) /\ q.pc = "after" /\ q.job = j /\ q.orig = r.orig /\ q.early = r.early
      /\ q.n = r.n /\ q.len = r.len /\ q.cpu = r.cpu /\ q.snap = r.snap /\ q.split = r.split
      /\ q.done = r.done /\ q.ret = r.ret /\ q.rc = "retries"
      /\ q.comp = [r.comp EXCEPT !.status = "zero"]
  BY <1>1 DEF Fields, Cleared
<1> HIDE DEF j
<1>3. r.comp \in [status : {"zero", "success", "fault", "error"}, result : {0, 1}, bytes : Nat]
  BY <1>1 DEF CallTypes
<1>4. /\ q.comp \in [status : {"zero", "success", "fault", "error"}, result : {0, 1}, bytes : Nat]
      /\ q.comp.result = r.comp.result
  BY <1>2, <1>3
<1>5. CallTypes(q, js)
  BY <1>1, <1>2, <1>4 DEF CallTypes, Beginning, Rounds, Ended
<1>6. Counts(q)
  <2>1. /\ r.done <= j.n /\ r.cpu <= j.n /\ r.done + r.n = j.n
        /\ r.cpu <= r.len /\ r.len <= r.n /\ r.n <= j.n
        /\ ~r.split => r.len = r.n /\ r.n = j.n
    BY <1>1 DEF Counts, Prepared, j
  <2>2. r.done + r.n <= j.n + r.len
    BY <1>1, <2>1
  <2> QED BY <1>2, <2>1, <2>2 DEF Counts, Beginning, Prepared, Ended
<1>7. AtDevice(q, d) /\ Comparisons(q, d)
  BY <1>1, <1>2, <1>4 DEF AtDevice, Comparisons, Rounds, Prepared, Ended, j
<1>8. ASSUME ~SplitBackwards(j) PROVE Contents(q, d, m) /\ Directions(q, d)
  <2>1. m = Partly(j, 0 .. r.done - 1) /\ (FromEnd(r) => r.done = 0)
    BY <1>1, <1>8 DEF Contents, Directions, j
  <2>2. FromEnd(q) <=> FromEnd(r)
    BY <1>2, <1>4 DEF FromEnd, j
  <2>3. Offsets(q) = 0 .. r.done - 1
    BY <1>1, <1>2, <2>1, <2>2 DEF Offsets
  <2>4. Contents(q, d, m)
    BY <1>2, <2>1, <2>3 DEF Contents, Beginning, Ended
  <2>5. Backward(j) => ~r.split
    BY <1>1, <1>8 DEF Directions, Rounds, Prepared, j
  <2>6. ~r.split => r.done = 0
    BY <1>1 DEF Counts, Prepared, j
  <2>7. Directions(q, d)
    BY <1>2, <2>1, <2>2, <2>5, <2>6 DEF Directions, Prepared
  <2> QED BY <2>4, <2>7
<1>9. Verdict(q, d)
  <2>1. Verdict(r, d)
    BY CallFacts
  <2> QED BY <1>7, <1>2, <1>4, <2>1 DEF AtDevice, Verdict, Rounds, Prepared, Ended, j
<1> QED BY <1>2, <1>5, <1>6, <1>7, <1>8, <1>9 DEF CallInv

-----------------------------------------------------------------------------
(* The buffers while the device and the CPU are at work.                   *)

\* The parts of one chunk, whose source and destination are apart.
LEMMA ApartParts ==
  ASSUME NEW j, JobOk(j), ~Backward(j), NEW a \in Nat, NEW len \in Nat, a + len <= j.n,
         j.op \in {"set", "copy"} \/ ~Overlapping(j, len),
         NEW S \in SUBSET (0 .. a + len - 1), NEW O \in SUBSET (a .. a + len - 1)
  PROVE  Unspoiled(j, S, O)
<1>1. j.n \in Nat /\ j.dst \in Nat /\ j.src \in Nat
  BY JobNats
<1>2. /\ j.op \in {"set", "copy", "move", "cmp"}
      /\ j.op = "copy" => j.dst + j.n <= j.src \/ j.src + j.n <= j.dst
  BY JobTypes, Zenon
<1>3. SUFFICES ASSUME NEW s \in S, NEW o \in O, j.op \in {"copy", "move"}
               PROVE  j.dst + s # j.src + o
  BY <1>2 DEF Unspoiled
<1>4. s \in 0 .. a + len - 1 /\ o \in a .. a + len - 1
  BY <1>3
<1>5. s \in Nat /\ o \in Nat /\ s < j.n /\ o < j.n /\ s < a + len /\ a <= o
  BY <1>1, <1>4
<1>6. CASE j.op = "copy"
  BY <1>1, <1>2, <1>5, <1>6
<1>7. CASE j.op = "move"
  <2>1. j.dst + len < j.src \/ j.src + len < j.dst
    BY <1>7 DEF Overlapping
  <2>2. j.dst <= j.src \/ j.dst >= j.src + j.n
    BY <1>1, <1>7 DEF Backward
  <2>3. CASE j.dst + len < j.src
    BY <1>1, <1>5, <2>3
  <2>4. CASE j.src + len < j.dst
    BY <1>1, <1>5, <2>2, <2>4
  <2> QED BY <2>1, <2>3, <2>4
<1> QED BY <1>3, <1>6, <1>7

\* The next part after what was done from the start.
LEMMA ForwardParts ==
  ASSUME NEW j, JobOk(j), ~Backward(j), NEW a \in Nat, NEW b \in Nat, a <= b, NEW k \in Nat,
         b + k <= j.n
  PROVE  Unspoiled(j, 0 .. a - 1, b .. b + k - 1)
<1>1. j.n \in Nat /\ j.dst \in Nat /\ j.src \in Nat
  BY JobNats
<1>2. /\ j.op \in {"set", "copy", "move", "cmp"}
      /\ j.op = "copy" => j.dst + j.n <= j.src \/ j.src + j.n <= j.dst
  BY JobTypes, Zenon
<1>3. SUFFICES ASSUME NEW s \in 0 .. a - 1, NEW o \in b .. b + k - 1, j.op \in {"copy", "move"}
               PROVE  j.dst + s # j.src + o
  BY <1>2 DEF Unspoiled
<1>4. s \in Nat /\ o \in Nat /\ s < o /\ o < j.n
  BY <1>1, <1>3
<1>5. j.dst <= j.src \/ j.dst >= j.src + j.n
  BY <1>1, <1>2, <1>3 DEF Backward
<1> QED BY <1>1, <1>4, <1>5

LEMMA NothingSpoiled ==
  ASSUME NEW j, NEW O PROVE Unspoiled(j, {}, O)
  BY DEF Unspoiled

\* A prepared descriptor, in offsets.
LEMMA PartFacts ==
  ASSUME NEW r, NEW d, NEW m, NEW js, CallInv(r, d, m, js), JobsOf(js), r.pc \in {"cpu", "wait"},
         NEW base, base = r.cpu + (r.job.n - r.n)
  PROVE  /\ base \in Nat /\ r.len - r.cpu \in Nat /\ base + (r.len - r.cpu) <= r.job.n
         /\ base - r.cpu \in Nat /\ base - r.cpu + r.len <= r.job.n
         /\ r.cpu <= r.len /\ r.done = (IF r.pc = "cpu" THEN base - r.cpu ELSE base)
         /\ r.desc = [op |-> r.job.op, dst |-> r.job.dst + base, src |-> r.job.src + base,
                      size |-> r.len - r.cpu]
         /\ d = NoDesc => /\ DeviceDid(r) \subseteq base .. base + (r.len - r.cpu) - 1
                          /\ r.comp.status = "fault" => r.comp.bytes < r.len - r.cpu
         /\ ~SplitBackwards(r.job) /\ Backward(r.job) =>
               r.cpu = 0 /\ base = 0 /\ r.done = 0 /\ r.len = r.job.n
<1> DEFINE j == r.job
<1>1. CallTypes(r, js) /\ Counts(r) /\ AtDevice(r, d) /\ JobOk(j)
      /\ (~SplitBackwards(j) => Contents(r, d, m) /\ Directions(r, d))
  BY CallFacts
<1>2. /\ j.n \in Nat /\ j.dst \in Nat /\ j.src \in Nat
      /\ r.n \in Nat /\ r.len \in Nat /\ r.cpu \in Nat /\ r.done \in Nat
  BY CallFacts
<1>3. /\ r.cpu <= r.len /\ r.len <= r.n /\ r.n <= j.n
      /\ ~r.split => r.len = r.n /\ r.n = j.n
      /\ r.desc = [op |-> j.op, dst |-> j.dst + r.cpu + (j.n - r.n),
                   src |-> j.src + r.cpu + (j.n - r.n), size |-> r.len - r.cpu]
      /\ r.pc = "cpu" => r.done + r.n = j.n
      /\ r.pc = "wait" => r.done + r.n = j.n + r.cpu
  BY <1>1 DEF Counts, Prepared
<1> HIDE DEF j
<1>4. base = r.cpu + (j.n - r.n)
  BY DEF j
<1>5. /\ base \in Nat /\ r.len - r.cpu \in Nat /\ base + (r.len - r.cpu) <= j.n
      /\ base - r.cpu \in Nat /\ base - r.cpu + r.len <= j.n
      /\ r.done = (IF r.pc = "cpu" THEN base - r.cpu ELSE base)
  BY <1>2, <1>3, <1>4
<1>6. r.desc = [op |-> j.op, dst |-> j.dst + base, src |-> j.src + base, size |-> r.len - r.cpu]
  <2>1. j.dst + r.cpu + (j.n - r.n) = j.dst + base /\ j.src + r.cpu + (j.n - r.n) = j.src + base
    BY <1>2, <1>4
  <2> QED BY <1>3, <2>1
<1>7. ASSUME d = NoDesc
      PROVE  /\ DeviceDid(r) \subseteq base .. base + (r.len - r.cpu) - 1
             /\ r.comp.status = "fault" => r.comp.bytes < r.len - r.cpu
  <2>1. r.comp.status = "fault" => r.comp.bytes < r.len - r.cpu /\ r.comp.bytes \in Nat
    BY <1>1, <1>6, <1>7 DEF AtDevice, CallTypes
  <2>2. r.desc.size = r.len - r.cpu
    BY <1>6
  <2> QED BY <1>4, <1>5, <2>1, <2>2 DEF DeviceDid, j
<1>8. ASSUME ~SplitBackwards(j), Backward(j)
      PROVE  r.cpu = 0 /\ base = 0 /\ r.done = 0 /\ r.len = j.n
  <2>1. /\ ~r.split
        /\ r.cpu > 0 => j.op \in {"set", "copy"} \/ ~Overlapping(j, r.len)
    BY <1>1, <1>8 DEF Directions, Rounds, Prepared, j
  <2>2. r.len = j.n /\ r.n = j.n
    BY <1>3, <2>1
  <2>3. Overlapping(j, j.n) /\ j.op = "move"
    BY <1>2, <1>8 DEF Overlapping, Backward
  <2>4. r.cpu = 0
    BY <1>2, <2>1, <2>2, <2>3
  <2> QED BY <1>2, <1>4, <1>5, <2>2, <2>4
<1> QED BY <1>3, <1>5, <1>6, <1>7, <1>8 DEF j

LEMMA StepCpu ==
  ASSUME NEW r, NEW d, NEW m, NEW js, CallInv(r, d, m, js), JobsOf(js), r.pc = "cpu", NEW q,
         q = [r EXCEPT !.pc = "wait", !.done = @ + r.cpu]
  PROVE  CallInv(q, d, Moved(r.job.op, m, r.job.dst + r.done, r.job.src + r.done, r.cpu), js)
<1> DEFINE j == r.job
           base == r.cpu + (j.n - r.n)
           X == IF d = NoDesc THEN DeviceDid(r) ELSE {}
           m2 == Moved(j.op, m, j.dst + r.done, j.src + r.done, r.cpu)
<1>1. CallTypes(r, js) /\ Counts(r) /\ AtDevice(r, d) /\ Comparisons(r, d) /\ Fields(r)
      /\ JobOk(j) /\ j.n \in Nat /\ r.n \in Nat /\ r.done \in Nat /\ r.len \in Nat /\ r.cpu \in Nat
      /\ (~SplitBackwards(j) => Contents(r, d, m) /\ Directions(r, d))
  BY CallFacts
<1>2. /\ Fields(q) /\ q.pc = "wait" /\ q.job = j /\ q.orig = r.orig /\ q.early = r.early
      /\ q.n = r.n /\ q.len = r.len /\ q.cpu = r.cpu /\ q.snap = r.snap /\ q.split = r.split
      /\ q.done = r.done + r.cpu /\ q.ret = r.ret /\ q.desc = r.desc /\ q.comp = r.comp
  BY <1>1 DEF Fields
<1>3. /\ base \in Nat /\ r.len - r.cpu \in Nat /\ base + (r.len - r.cpu) <= j.n
      /\ r.cpu <= r.len /\ r.done = base - r.cpu /\ r.done + r.len <= j.n
      /\ d = NoDesc => DeviceDid(r) \subseteq base .. base + (r.len - r.cpu) - 1
      /\ ~SplitBackwards(j) /\ Backward(j) => r.cpu = 0
  BY PartFacts
<1>4. DeviceDid(q) = DeviceDid(r)
  BY <1>2 DEF DeviceDid
<1> HIDE DEF j, base
<1>5. CallTypes(q, js)
  BY <1>1, <1>2 DEF CallTypes, Beginning, Rounds, Prepared, j
<1>6. Counts(q)
  <2>1. /\ r.cpu <= j.n /\ r.done + r.n = j.n
        /\ r.cpu <= r.len /\ r.len <= r.n /\ r.n <= j.n
        /\ ~r.split => r.len = r.n /\ r.n = j.n
        /\ r.desc = [op |-> j.op, dst |-> j.dst + r.cpu + (j.n - r.n),
                     src |-> j.src + r.cpu + (j.n - r.n), size |-> r.len - r.cpu]
    BY <1>1 DEF Counts, Prepared, j
  <2>2. r.done + r.cpu <= j.n /\ (r.done + r.cpu) + r.n = j.n + r.cpu
    BY <1>1, <1>3, <2>1
  <2> QED BY <1>2, <2>1, <2>2 DEF Counts, Beginning, Prepared, Ended
<1>7. AtDevice(q, d) /\ Comparisons(q, d)
  BY <1>1, <1>2 DEF AtDevice, Comparisons, Rounds, Prepared, j
<1>8. ASSUME ~SplitBackwards(j) PROVE Contents(q, d, m2)
  <2> DEFINE S == (0 .. r.done - 1) \cup X
             O == r.done .. r.done + r.cpu - 1
  <2>1. m = Partly(j, S)
    BY <1>1, <1>8 DEF Contents, j
  <2>2. X \subseteq base .. base + (r.len - r.cpu) - 1
    BY <1>3
  <2>3. S \subseteq 0 .. r.done + r.len - 1 /\ O \subseteq r.done .. r.done + r.len - 1
    BY <1>1, <1>3, <2>2
  <2> HIDE DEF S, O
  <2>4. Unspoiled(j, S, O)
    <3>1. CASE r.cpu = 0
      <4>1. O = {}
        BY <1>1, <3>1 DEF O
      <4> QED BY <4>1 DEF Unspoiled
    <3>2. CASE r.cpu > 0
      <4>1. j.op \in {"set", "copy"} \/ ~Overlapping(j, r.len)
        BY <1>1, <1>8, <3>2 DEF Directions, Prepared, j
      <4>2. ~Backward(j)
        BY <1>1, <1>3, <1>8, <3>2
      <4> QED BY <1>1, <1>3, <2>3, <4>1, <4>2, ApartParts
    <3> QED BY <1>1, <3>1, <3>2
  <2>5. r.done + r.cpu <= j.n /\ S \in SUBSET Int
    BY <1>1, <1>3, <2>3
  <2>6. m2 = Partly(j, S \cup O)
    <3> DEFINE a == r.done
               k == r.cpu
    <3>1. JobOk(j) /\ a \in Nat /\ k \in Nat /\ a + k <= j.n /\ Unspoiled(j, S, a .. a + k - 1)
      BY <1>1, <2>4, <2>5 DEF O
    <3> HIDE DEF a, k
    <3>2. Moved(j.op, Partly(j, S), j.dst + a, j.src + a, k) = Partly(j, S \cup (a .. a + k - 1))
      BY <2>5, <3>1, Moving
    <3> QED BY <2>1, <3>2 DEF O, a, k
  <2>7. S \cup O = (0 .. q.done - 1) \cup X
    <3>1. (0 .. r.done - 1) \cup (r.done .. r.done + r.cpu - 1) = 0 .. (r.done + r.cpu) - 1
      BY <1>1
    <3> QED BY <1>2, <3>1 DEF S, O
  <2> QED BY <1>2, <1>4, <2>6, <2>7 DEF Contents, Beginning, Ended
<1>9. ~SplitBackwards(j) => Directions(q, d)
  BY <1>1, <1>2 DEF Directions, Rounds, Prepared, Ended, j
<1>10. Verdict(q, d)
  <2>1. Verdict(r, d) /\ Bytes(q) = Bytes(r)
    BY <1>2, CallFacts DEF Bytes
  <2>2. r.cpu = 0 => q.done = r.done
    BY <1>1, <1>2
  <2> QED BY <1>7, <1>2, <2>1, <2>2 DEF AtDevice, Verdict, Rounds, Prepared, Ended, j
<1> QED BY <1>2, <1>5, <1>6, <1>7, <1>8, <1>9, <1>10 DEF CallInv, j

\* The device has run the descriptor and written the record.
LEMMA StepDevice ==
  ASSUME NEW r, NEW d, NEW m, NEW js, CallInv(r, d, m, js), JobsOf(js), d # NoDesc,
         NEW o \in Outcomes(d, m), NEW q, q = [r EXCEPT !.comp = o.comp]
  PROVE  CallInv(q, NoDesc, o.mem, js)
<1> DEFINE j == r.job
           base == r.cpu + (j.n - r.n)
           size == r.len - r.cpu
<1>1. r.pc \in {"cpu", "wait"} /\ d = r.desc
  BY DEF CallInv, AtDevice
<1>2. CallTypes(r, js) /\ Counts(r) /\ AtDevice(r, d) /\ Comparisons(r, d) /\ Fields(r)
      /\ JobOk(j) /\ j.n \in Nat /\ r.n \in Nat /\ r.done \in Nat /\ r.len \in Nat /\ r.cpu \in Nat
      /\ j.dst \in Nat /\ j.src \in Nat
      /\ (~SplitBackwards(j) => Contents(r, d, m) /\ Directions(r, d))
  BY <1>1, CallFacts
<1>3. /\ Fields(q) /\ q.pc = r.pc /\ q.job = j /\ q.orig = r.orig /\ q.early = r.early
      /\ q.n = r.n /\ q.len = r.len /\ q.cpu = r.cpu /\ q.snap = r.snap /\ q.split = r.split
      /\ q.done = r.done /\ q.ret = r.ret /\ q.desc = r.desc /\ q.comp = o.comp
  BY <1>2 DEF Fields
<1>4. /\ base \in Nat /\ size \in Nat /\ base + size <= j.n /\ r.done <= base
      /\ d = [op |-> j.op, dst |-> j.dst + base, src |-> j.src + base, size |-> size]
      /\ ~SplitBackwards(j) /\ Backward(j) => base = 0 /\ r.done = 0 /\ size = j.n
  <2>1. /\ base \in Nat /\ size \in Nat /\ base + size <= j.n
        /\ r.done = (IF r.pc = "cpu" THEN base - r.cpu ELSE base)
        /\ d = [op |-> j.op, dst |-> j.dst + base, src |-> j.src + base, size |-> size]
        /\ ~SplitBackwards(j) /\ Backward(j) =>
              r.cpu = 0 /\ base = 0 /\ r.done = 0 /\ r.len = j.n
    BY <1>1, PartFacts
  <2> QED BY <1>2, <2>1
<1>5. DeviceDid(q) =
         CASE q.comp.status = "success" -> base .. base + size - 1
           [] q.comp.status = "fault" /\ q.comp.result = 0 -> base .. base + q.comp.bytes - 1
           [] q.comp.status = "fault" /\ q.comp.result # 0 ->
                 base + size - q.comp.bytes .. base + size - 1
           [] OTHER -> {}
  <2>1. q.desc.size = size /\ q.cpu + (q.job.n - q.n) = base
    BY <1>1, <1>3, <1>4
  <2> HIDE DEF base, size
  <2> QED BY <2>1 DEF DeviceDid
<1> HIDE DEF j, base, size
<1>6. OutcomeOk(o, d, m)
  BY <1>4, OutcomesOk
<1>7. CallTypes(q, js)
  <2>1. q.comp \in [status : {"zero", "success", "fault", "error"}, result : {0, 1}, bytes : Nat]
    BY <1>3, <1>6 DEF OutcomeOk
  <2>2. q.pc # "tune"
    BY <1>1, <1>3
  <2> QED BY <1>1, <1>2, <1>3, <2>1, <2>2 DEF CallTypes, j
<1>8. Counts(q)
  BY <1>2, <1>3 DEF Counts, j
<1>9. AtDevice(q, NoDesc)
  BY <1>1, <1>3, <1>6 DEF AtDevice, OutcomeOk
<1>10. Back(d) <=> j.op \in {"copy", "move"} /\ j.dst > j.src /\ j.dst < j.src + size
  <2>1. j.op \in {"set", "copy", "move", "cmp"}
    BY <1>2, JobTypes, Zenon
  <2> QED BY <1>2, <1>4, <2>1 DEF Back
<1>11. Back(d) => Backward(j)
  <2>1. j.op = "copy" => j.dst + j.n <= j.src \/ j.src + j.n <= j.dst
    BY <1>2, JobTypes, Zenon
  <2> QED BY <1>2, <1>4, <1>10, <2>1 DEF Backward
<1>12. ~SplitBackwards(j) /\ Backward(j) => Back(d)
  BY <1>2, <1>4, <1>10 DEF Backward
<1>13. Comparisons(q, NoDesc)
  <2>1. r.ret = 0
    BY <1>1, <1>2 DEF Comparisons
  <2>2. ASSUME Equal(j), o.comp.result # 0 PROVE FALSE
    <3>1. j.op = "cmp" /\ ~SplitBackwards(j) /\ ~Backward(j)
      BY <2>2 DEF Equal, SplitBackwards, Backward
    <3>2. m = j.mem
      BY <1>1, <1>2, <3>1, Compares DEF Contents, j
    <3>3. o.comp.status = "success" /\ Differ(m, d.dst, d.src, d.size) # {}
      BY <1>6, <1>11, <2>2, <3>1 DEF OutcomeOk
    <3>4. Differ(j.mem, j.dst + base, j.src + base, size) = {}
      BY <1>2, <1>4, <2>2, EqualParts
    <3> QED BY <1>4, <3>2, <3>3, <3>4
  <2> QED BY <1>3, <2>1, <2>2 DEF Comparisons
<1>14. ASSUME ~SplitBackwards(j) PROVE Contents(q, NoDesc, o.mem)
  <2> DEFINE S == 0 .. r.done - 1
  <2>1. m = Partly(j, S)
    BY <1>1, <1>2, <1>14 DEF Contents, j
  <2>2. SUFFICES o.mem = Partly(j, S \cup DeviceDid(q))
    BY <1>1, <1>3 DEF Contents, Beginning, Ended
  <2>3. S \in SUBSET Int
    OBVIOUS
  <2>4. Backward(j) => S = {}
    BY <1>4, <1>14
  <2>5. o.comp.bytes \in Nat /\ (o.comp.status = "fault" => o.comp.bytes < size)
    BY <1>4, <1>6 DEF OutcomeOk
  <2>6. ASSUME NEW k \in Nat, k <= size PROVE Unspoiled(j, S, base .. base + k - 1)
    <3>1. CASE Backward(j)
      BY <2>4, <3>1, NothingSpoiled
    <3>2. CASE ~Backward(j)
      <4>1. base + k <= j.n
        BY <1>2, <1>4, <2>6
      <4> QED BY <1>2, <1>4, <2>6, <3>2, <4>1, ForwardParts
    <3> QED BY <3>1, <3>2
  <2> HIDE DEF S
  <2>7. ASSUME NEW k \in Nat, k <= size
        PROVE  Moved(j.op, m, d.dst, d.src, k) = Partly(j, S \cup (base .. base + k - 1))
    <3>1. d.dst = j.dst + base /\ d.src = j.src + base /\ base + k <= j.n
      BY <1>2, <1>4, <2>7
    <3>2. Unspoiled(j, S, base .. base + k - 1)
      BY <2>6, <2>7
    <3>3. Moved(j.op, Partly(j, S), j.dst + base, j.src + base, k)
             = Partly(j, S \cup (base .. base + k - 1))
      <4>1. JobOk(j) /\ base \in Nat /\ base + k <= j.n
        BY <1>2, <1>4, <3>1
      <4> QED BY <2>3, <2>7, <3>2, <4>1, Moving
    <3> QED BY <2>1, <3>1, <3>3, Zenon
  <2>8. CASE o.comp.status = "success"
    <3>1. o.mem = Moved(j.op, m, d.dst, d.src, size)
      BY <1>4, <1>6, <2>8 DEF OutcomeOk
    <3>2. DeviceDid(q) = base .. base + size - 1
      BY <1>3, <1>5, <2>8
    <3>3. size \in Nat /\ size <= size
      BY <1>4
    <3>4. Moved(j.op, m, d.dst, d.src, size) = Partly(j, S \cup (base .. base + size - 1))
      BY <2>7, <3>3, Zenon
    <3> QED BY <3>1, <3>2, <3>4
  <2>9. CASE o.comp.status = "error"
    <3>1. o.mem = m
      BY <1>6, <2>9 DEF OutcomeOk
    <3>2. DeviceDid(q) = {}
      BY <1>3, <1>5, <2>9
    <3> QED BY <2>1, <3>1, <3>2
  <2>10. CASE o.comp.status = "fault" /\ ~Back(d)
    <3>1. o.mem = Moved(j.op, m, d.dst, d.src, o.comp.bytes) /\ o.comp.result = 0
      BY <1>4, <1>6, <2>10 DEF OutcomeOk
    <3>2. DeviceDid(q) = base .. base + o.comp.bytes - 1
      BY <1>3, <1>5, <2>10, <3>1
    <3>3. o.comp.bytes <= size
      BY <1>4, <2>5, <2>10
    <3> QED BY <2>5, <2>7, <3>1, <3>2, <3>3
  <2>11. CASE o.comp.status = "fault" /\ Back(d)
    <3> DEFINE k == o.comp.bytes
               a == base + size - k
    <3>1. /\ o.mem = Moved(j.op, m, d.dst + d.size - k, d.src + d.size - k, k)
          /\ o.comp.result # 0
      BY <1>4, <1>6, <2>11 DEF OutcomeOk
    <3>2. k \in Nat /\ a \in Nat /\ a + k <= j.n /\ a + k - 1 = base + size - 1
      BY <1>2, <1>4, <2>5, <2>11
    <3>3. DeviceDid(q) = a .. a + k - 1
      BY <1>3, <1>5, <2>11, <3>1, <3>2
    <3>4. d.dst + d.size - k = j.dst + a /\ d.src + d.size - k = j.src + a
      BY <1>2, <1>4, <3>2
    <3> HIDE DEF k, a
    <3>5. Unspoiled(j, S, a .. a + k - 1)
      BY <1>11, <2>4, <2>11, NothingSpoiled
    <3>6. Moved(j.op, Partly(j, S), j.dst + a, j.src + a, k) = Partly(j, S \cup (a .. a + k - 1))
      <4>1. JobOk(j) /\ a \in Nat /\ k \in Nat /\ a + k <= j.n
        BY <1>2, <3>2
      <4> QED BY <2>3, <3>5, <4>1, Moving
    <3> QED BY <2>1, <3>1, <3>3, <3>4, <3>6
  <2>12. o.comp.status \in {"success", "fault", "error"}
    BY <1>6 DEF OutcomeOk
  <2> QED BY <2>8, <2>9, <2>10, <2>11, <2>12
<1>15. ASSUME ~SplitBackwards(j) PROVE Directions(q, NoDesc)
  <2>1. q.pc \in Prepared /\ q.pc \in Rounds /\ q.pc \notin {"snap", "chunk", "submit", "std"} \cup Ended
    BY <1>1, <1>3 DEF Prepared, Rounds, Ended
  <2>2. /\ Backward(j) => ~r.split
        /\ r.cpu > 0 => j.op \in {"set", "copy"} \/ ~Overlapping(j, r.len)
    BY <1>1, <1>2, <1>15 DEF Directions, Rounds, Prepared, j
  <2>3. /\ o.comp.result # 0 => j.op = "cmp" \/ (o.comp.status = "fault" /\ Backward(j))
        /\ o.comp.status = "fault" /\ Backward(j) => o.comp.result # 0
        /\ j.op = "cmp" /\ o.comp.result # 0 => o.comp.status = "success"
    <3>1. d.op = j.op /\ (j.op = "cmp" => ~Back(d))
      BY <1>4, <1>10
    <3>2. /\ o.comp.status \in {"success", "fault", "error"}
          /\ o.comp.status = "error" => o.comp.result = 0
          /\ o.comp.status = "success" /\ o.comp.result # 0 => d.op = "cmp"
          /\ o.comp.status = "fault" => (o.comp.result # 0 <=> Back(d))
      BY <1>6 DEF OutcomeOk
    <3> QED BY <1>11, <1>12, <1>15, <3>1, <3>2
  <2> QED BY <1>3, <2>1, <2>2, <2>3 DEF Directions
<1>16. Verdict(q, NoDesc)
  <2>1. SUFFICES ASSUME j.op = "cmp", q.comp.result = 0
                 PROVE  q.cpu = 0 /\ Agree(j, q.done) /\ Agree(j, q.done + Bytes(q))
    BY <1>1, <1>3 DEF Verdict, Rounds, Prepared, Ended
  <2>2. r.cpu = 0 /\ Agree(j, r.done)
    BY <1>1, <2>1, CallFacts DEF Verdict, Rounds, Prepared, j
  <2>3. base = r.done
    BY <1>1, <1>2, <2>2 DEF Counts, Prepared, j, base
  <2>4. m = j.mem
    <3>1. ~SplitBackwards(j)
      BY <2>1 DEF SplitBackwards, Backward
    <3> QED BY <1>1, <1>2, <2>1, <3>1, Compares DEF Contents, j
  <2>5. Bytes(q) \in Nat /\ Differ(j.mem, j.dst + base, j.src + base, Bytes(q)) = {}
    <3>1. q.desc.size = size /\ d.size = size /\ d.dst = j.dst + base /\ d.src = j.src + base
          /\ d.op = "cmp"
      BY <1>1, <1>3, <1>4, <2>1
    <3>2. CASE o.comp.status = "success"
      BY <1>3, <1>4, <1>6, <2>1, <2>4, <3>1, <3>2 DEF OutcomeOk, Bytes
    <3>3. CASE o.comp.status = "fault"
      BY <1>3, <1>6, <2>1, <2>4, <3>1, <3>3 DEF OutcomeOk, Bytes
    <3>4. CASE o.comp.status = "error"
      BY <1>3, <3>4 DEF Bytes, Differ
    <3> QED BY <1>6, <3>2, <3>3, <3>4 DEF OutcomeOk
  <2>6. Agree(j, r.done + Bytes(q))
    BY <1>2, <2>2, <2>3, <2>5, AgreeMore
  <2> QED BY <1>3, <2>2, <2>6
<1> QED BY <1>1, <1>3, <1>7, <1>8, <1>9, <1>13, <1>14, <1>15, <1>16 DEF CallInv

-----------------------------------------------------------------------------
(* The end of a round and of a call.                                       *)

\* What a thread remembers of a knob it means to move.
TuneOk(p, u) ==
    /\ p \in {"tune", "tune2", "move"} => u.dir \in {"less", "more"}
    /\ p = "move" =>
          \/ u.knob = "csf" /\ u.seen \in Int /\ FractionMay(u.dir, u.seen)
          \/ u.knob = "min" /\ u.seen \in Int /\ SizeMay(u.dir, u.seen)

\* The record has been read; a sample for the heuristics may follow.
LEMMA StepWait ==
  ASSUME NEW r, NEW d, NEW m, NEW js, CallInv(r, d, m, js), JobsOf(js), r.pc = "wait",
         Written(r.comp), NEW p \in Ended, NEW u,
         TuneOk(p, u), NEW q,
         q = [r EXCEPT !.pc = p, !.done = @ + Bytes(r), !.rc = r.comp.status, !.tune = u]
  PROVE  CallInv(q, d, m, js)
<1> DEFINE j == r.job
           base == r.cpu + (j.n - r.n)
           size == r.len - r.cpu
           S == (0 .. r.done - 1) \cup DeviceDid(r)
<1>1. CallTypes(r, js) /\ Counts(r) /\ AtDevice(r, d) /\ Comparisons(r, d) /\ Fields(r)
      /\ JobOk(j) /\ j.n \in Nat /\ r.n \in Nat /\ r.done \in Nat /\ r.len \in Nat /\ r.cpu \in Nat
      /\ (~SplitBackwards(j) => Contents(r, d, m) /\ Directions(r, d))
  BY CallFacts
<1>2. d = NoDesc /\ r.comp.status # "zero"
  BY <1>1 DEF AtDevice, Written
<1>3. r.comp \in [status : {"success", "fault", "error"}, result : {0, 1}, bytes : Nat]
  BY <1>1, <1>2 DEF CallTypes
<1>4. /\ base \in Nat /\ size \in Nat /\ base + size <= j.n /\ r.done = base /\ r.cpu <= r.len
      /\ r.desc.size = size
      /\ r.comp.status = "fault" => r.comp.bytes < size
      /\ ~SplitBackwards(j) /\ Backward(j) => r.done = 0 /\ size = j.n
  <2>1. /\ base \in Nat /\ size \in Nat /\ base + size <= j.n
        /\ r.done = (IF r.pc = "cpu" THEN base - r.cpu ELSE base) /\ r.cpu <= r.len
        /\ r.desc = [op |-> j.op, dst |-> j.dst + base, src |-> j.src + base, size |-> size]
        /\ r.comp.status = "fault" => r.comp.bytes < size
        /\ ~SplitBackwards(j) /\ Backward(j) =>
              r.cpu = 0 /\ base = 0 /\ r.done = 0 /\ r.len = j.n
    BY <1>2, PartFacts
  <2> QED BY <1>1, <2>1
<1>5. DeviceDid(r) =
         CASE r.comp.status = "success" -> r.done .. r.done + size - 1
           [] r.comp.status = "fault" /\ r.comp.result = 0 -> r.done .. r.done + r.comp.bytes - 1
           [] r.comp.status = "fault" /\ r.comp.result # 0 ->
                 r.done + size - r.comp.bytes .. r.done + size - 1
           [] OTHER -> {}
  <2>1. r.desc.size = size /\ r.cpu + (j.n - r.n) = r.done
    BY <1>4
  <2> HIDE DEF base, size
  <2> QED BY <2>1 DEF DeviceDid, j
<1>6. /\ Bytes(r) = (CASE r.comp.status = "success" -> size
                       [] r.comp.status = "fault" -> r.comp.bytes
                       [] OTHER -> 0)
      /\ Bytes(r) \in Nat /\ Bytes(r) <= size
      /\ r.comp.status = "success" => Bytes(r) = size
  <2>1. Bytes(r) = (CASE r.comp.status = "success" -> size
                      [] r.comp.status = "fault" -> r.comp.bytes
                      [] OTHER -> 0)
    BY <1>4 DEF Bytes
  <2> HIDE DEF size, base, j
  <2> QED BY <1>3, <1>4, <2>1
<1>7. /\ Fields(q) /\ q.pc = p /\ q.job = j /\ q.orig = r.orig /\ q.early = r.early
      /\ q.n = r.n /\ q.len = r.len /\ q.cpu = r.cpu /\ q.snap = r.snap /\ q.split = r.split
      /\ q.done = r.done + Bytes(r) /\ q.ret = r.ret /\ q.desc = r.desc /\ q.comp = r.comp
      /\ q.rc = r.comp.status /\ q.tune = u
  BY <1>1 DEF Fields
<1>8. p \in {"tune", "tune2", "move", "after"}
  BY DEF Ended
<1>9. /\ r.done + r.n = j.n + r.cpu /\ r.cpu <= j.n
      /\ r.len <= r.n /\ r.n <= j.n
      /\ ~r.split => r.len = r.n /\ r.n = j.n
  BY <1>1 DEF Counts, Prepared
<1>10. size = r.len - r.cpu
  OBVIOUS
<1> HIDE DEF j, base, size, S
<1>11. CallTypes(q, js)
  BY <1>1, <1>6, <1>7, <1>8 DEF TuneOk, CallTypes, Beginning, Rounds, Ended, j
<1>12. Counts(q)
  <2>1. q.done <= j.n /\ q.done + r.n <= j.n + r.len
    BY <1>1, <1>4, <1>6, <1>7, <1>9, <1>10
  <2>2. r.comp.status = "success" => q.done + r.n = j.n + r.len
    BY <1>1, <1>4, <1>6, <1>7, <1>9, <1>10
  <2> QED BY <1>4, <1>7, <1>8, <1>9, <2>1, <2>2 DEF Counts, Beginning, Prepared, Ended
<1>13. AtDevice(q, d) /\ Comparisons(q, d)
  BY <1>1, <1>2, <1>7, <1>8 DEF AtDevice, Comparisons, Rounds, Prepared, Ended, j
<1>14. ASSUME ~SplitBackwards(j) PROVE Contents(q, d, m) /\ Directions(q, d)
  <2>1. m = Partly(j, S)
    BY <1>1, <1>2, <1>14 DEF Contents, S, j
  <2>2. /\ r.comp.result # 0 => j.op = "cmp" \/ (r.comp.status = "fault" /\ Backward(j))
        /\ r.comp.status = "fault" /\ Backward(j) => r.comp.result # 0
        /\ j.op = "cmp" /\ r.comp.result # 0 => r.comp.status = "success"
        /\ Backward(j) => ~r.split
    BY <1>1, <1>2, <1>14 DEF Directions, Rounds, Prepared, j
  <2>3. FromEnd(q) <=> j.op \in {"copy", "move"} /\ r.comp.result # 0
    BY <1>7 DEF FromEnd
  <2>4. FromEnd(q) => Backward(j) /\ r.comp.status = "fault"
    BY <2>2, <2>3
  <2>5. Offsets(q) = S
    <3>1. CASE FromEnd(q)
      <4>1. r.done = 0 /\ size = j.n /\ r.comp.status = "fault" /\ r.comp.result # 0
        BY <1>4, <1>14, <2>3, <2>4, <3>1
      <4>2. DeviceDid(r) = j.n - r.comp.bytes .. j.n - 1 /\ q.done = r.comp.bytes
        BY <1>1, <1>3, <1>5, <1>6, <1>7, <4>1
      <4> QED BY <1>7, <3>1, <4>1, <4>2 DEF Offsets, S
    <3>2. CASE ~FromEnd(q)
      <4>1. DeviceDid(r) = r.done .. r.done + Bytes(r) - 1
        <5>1. CASE r.comp.status = "success"
          BY <1>5, <1>6, <5>1
        <5>2. CASE r.comp.status = "fault"
          <6>1. r.comp.result = 0
            BY <2>2, <2>3, <3>2, <5>2 DEF Backward
          <6> QED BY <1>5, <1>6, <5>2, <6>1
        <5>3. CASE r.comp.status = "error"
          BY <1>1, <1>5, <1>6, <5>3
        <5> QED BY <1>3, <5>1, <5>2, <5>3
      <4>2. Offsets(q) = 0 .. (r.done + Bytes(r)) - 1
        BY <1>7, <3>2 DEF Offsets
      <4> QED BY <1>1, <1>6, <4>1, <4>2 DEF S
    <3> QED BY <3>1, <3>2
  <2>6. Contents(q, d, m)
    BY <1>7, <1>8, <2>1, <2>5 DEF Contents, Beginning, Ended
  <2>7. Backward(j) /\ ~FromEnd(q) => q.done \in {0, j.n}
    <3> SUFFICES ASSUME Backward(j), ~FromEnd(q) PROVE q.done \in {0, j.n}
      OBVIOUS
    <3>1. j.op = "move" /\ r.comp.status # "fault" /\ r.done = 0 /\ size = j.n
      BY <1>4, <1>14, <2>2, <2>3 DEF Backward
    <3> QED BY <1>1, <1>3, <1>6, <1>7, <3>1
  <2>8. Directions(q, d)
    BY <1>7, <1>8, <2>2, <2>4, <2>7 DEF Directions, Prepared
  <2> QED BY <2>6, <2>8
<1>15. Verdict(q, d)
  <2>1. Verdict(r, d)
    BY CallFacts
  <2> QED BY <1>13, <1>7, <1>8, <2>1 DEF AtDevice, Verdict, Rounds, Prepared, Ended, j
<1> QED BY <1>7, <1>8, <1>11, <1>12, <1>13, <1>14, <1>15 DEF CallInv

\* The knobs are tested and moved.
LEMMA StepTune ==
  ASSUME NEW r, NEW d, NEW m, NEW js, CallInv(r, d, m, js), JobsOf(js), r.pc \in Ended,
         NEW p \in Ended, NEW u, TuneOk(p, u), NEW q, q = [r EXCEPT !.pc = p, !.tune = u]
  PROVE  CallInv(q, d, m, js)
<1>1. CallTypes(r, js) /\ Counts(r) /\ AtDevice(r, d) /\ Comparisons(r, d) /\ Fields(r)
      /\ (~SplitBackwards(r.job) => Contents(r, d, m) /\ Directions(r, d))
  BY CallFacts DEF Ended
<1>2. /\ Fields(q) /\ q.pc = p /\ q.job = r.job /\ q.orig = r.orig /\ q.early = r.early
      /\ q.n = r.n /\ q.len = r.len /\ q.cpu = r.cpu /\ q.snap = r.snap /\ q.split = r.split
      /\ q.done = r.done /\ q.ret = r.ret /\ q.comp = r.comp /\ q.rc = r.rc /\ q.tune = u
  BY <1>1 DEF Fields
<1>3. Offsets(q) = Offsets(r) /\ FromEnd(q) = FromEnd(r)
  BY <1>2 DEF Offsets, FromEnd
<1>4. CallTypes(q, js)
  BY <1>1, <1>2 DEF TuneOk, CallTypes, Beginning, Rounds, Ended
<1>5. Counts(q)
  BY <1>1, <1>2 DEF Counts, Beginning, Prepared, Ended
<1>6. AtDevice(q, d) /\ Comparisons(q, d)
  BY <1>1, <1>2 DEF AtDevice, Comparisons, Rounds, Prepared, Ended
<1>7. ~SplitBackwards(r.job) => Contents(q, d, m) /\ Directions(q, d)
  BY <1>1, <1>2, <1>3 DEF Contents, Directions, Beginning, Rounds, Prepared, Ended
<1>8. Verdict(q, d)
  <2>1. Verdict(r, d)
    BY CallFacts DEF Ended
  <2> QED BY <1>6, <1>2, <2>1 DEF AtDevice, Verdict, Rounds, Prepared, Ended
<1> QED BY <1>2, <1>4, <1>5, <1>6, <1>7, <1>8 DEF CallInv, Ended

\* The loop's fraction is read.
LEMMA StepSnapshot ==
  ASSUME NEW r, NEW d, NEW m, NEW js, CallInv(r, d, m, js), JobsOf(js), r.pc = "snap",
         NEW c \in 0 .. FracDen - 1, NEW q, q = [r EXCEPT !.pc = "chunk", !.snap = c]
  PROVE  CallInv(q, d, m, js)
<1>1. CallTypes(r, js) /\ Counts(r) /\ AtDevice(r, d) /\ Comparisons(r, d) /\ Fields(r)
      /\ Verdict(r, d) /\ (~SplitBackwards(r.job) => Contents(r, d, m) /\ Directions(r, d))
  BY CallFacts
<1>2. /\ Fields(q) /\ q.pc = "chunk" /\ q.job = r.job /\ q.orig = r.orig /\ q.early = r.early
      /\ q.n = r.n /\ q.len = r.len /\ q.cpu = r.cpu /\ q.snap = c /\ q.split = r.split
      /\ q.done = r.done /\ q.ret = r.ret /\ q.comp = r.comp
  BY <1>1 DEF Fields
<1>3. r.split
  BY DEF CallInv
<1>4. CallTypes(q, js)
  BY <1>1, <1>2 DEF CallTypes, Beginning, Rounds
<1>5. Counts(q)
  BY <1>1, <1>2 DEF Counts, Beginning, Prepared, Ended
<1>6. AtDevice(q, d) /\ Comparisons(q, d)
  BY <1>1, <1>2 DEF AtDevice, Comparisons, Rounds, Prepared, Ended
<1>7. FromEnd(q) = FromEnd(r)
  BY <1>2 DEF FromEnd
<1>8. ~SplitBackwards(r.job) => Contents(q, d, m) /\ Directions(q, d)
  BY <1>1, <1>2, <1>7 DEF Contents, Directions, Beginning, Rounds, Prepared, Ended
<1>9. Verdict(q, d)
  BY <1>1, <1>2 DEF Verdict, Rounds, Prepared, Ended
<1> QED BY <1>2, <1>3, <1>4, <1>5, <1>6, <1>8, <1>9 DEF CallInv

\* The next round of the loop.
LEMMA StepAgain ==
  ASSUME NEW r, NEW d, NEW m, NEW js, CallInv(r, d, m, js), JobsOf(js), r.pc = "after",
         Again(r), NEW q, q = [r EXCEPT !.pc = "chunk", !.n = @ - r.len]
  PROVE  CallInv(q, d, m, js)
<1> DEFINE j == r.job
<1>1. CallTypes(r, js) /\ Counts(r) /\ AtDevice(r, d) /\ Comparisons(r, d) /\ Fields(r)
      /\ JobOk(j) /\ j.n \in Nat /\ r.n \in Nat /\ r.done \in Nat /\ r.len \in Nat /\ r.cpu \in Nat
      /\ (~SplitBackwards(j) => Contents(r, d, m) /\ Directions(r, d))
  BY CallFacts
<1>2. /\ Fields(q) /\ q.pc = "chunk" /\ q.job = r.job /\ q.orig = r.orig /\ q.early = r.early
      /\ q.n = r.n - r.len /\ q.len = r.len /\ q.cpu = r.cpu /\ q.snap = r.snap
      /\ q.split = r.split /\ q.done = r.done /\ q.ret = r.ret /\ q.comp = r.comp
  BY <1>1 DEF Fields
<1>3. r.split /\ r.rc = "success"
  BY DEF Again
<1>4. /\ r.done + r.n = j.n + r.len /\ r.len <= r.n /\ r.n <= j.n
      /\ r.done <= j.n /\ r.cpu <= j.n
  BY <1>1, <1>3 DEF Counts, Ended
<1>5. q.n \in Nat /\ r.done + q.n = j.n
  BY <1>1, <1>2, <1>4
<1> HIDE DEF j
<1>6. CallTypes(q, js)
  BY <1>1, <1>2, <1>5 DEF CallTypes, Beginning, Rounds
<1>7. Counts(q)
  BY <1>2, <1>4, <1>5 DEF Counts, Beginning, Prepared, Ended, j
<1>8. AtDevice(q, d) /\ Comparisons(q, d)
  BY <1>1, <1>2 DEF AtDevice, Comparisons, Rounds, Prepared, Ended
<1>9. ASSUME ~SplitBackwards(j) PROVE Contents(q, d, m) /\ Directions(q, d)
  <2>1. ~FromEnd(r) /\ m = Partly(j, Offsets(r)) /\ ~Backward(j)
    BY <1>1, <1>3, <1>9 DEF Directions, Contents, Rounds, Ended, j
  <2>2. m = Partly(j, 0 .. q.done - 1) /\ ~FromEnd(q)
    BY <1>2, <2>1 DEF Offsets, FromEnd
  <2> QED BY <1>2, <2>1, <2>2 DEF Contents, Directions, Beginning, Rounds, Prepared, Ended, j
<1>10. Verdict(q, d)
  <2>1. Verdict(r, d)
    BY CallFacts
  <2> QED BY <1>8, <1>2, <2>1 DEF Again, AtDevice, Verdict, Rounds, Prepared, Ended
<1> QED BY <1>2, <1>3, <1>6, <1>7, <1>8, <1>9, <1>10 DEF CallInv, j

\* The buffers differ.
LEMMA StepDiffer ==
  ASSUME NEW r, NEW d, NEW m, NEW js, CallInv(r, d, m, js), JobsOf(js), r.pc = "after",
         r.job.op = "cmp", r.comp.result # 0, NEW x, NEW q,
         q = [r EXCEPT !.pc = "return", !.ret = x]
  PROVE  CallInv(q, d, m, js)
<1>1. CallTypes(r, js) /\ Counts(r) /\ AtDevice(r, d) /\ Comparisons(r, d) /\ Fields(r)
      /\ JobOk(r.job) /\ (~SplitBackwards(r.job) => Contents(r, d, m) /\ Directions(r, d))
  BY CallFacts
<1>2. /\ Fields(q) /\ q.pc = "return" /\ q.job = r.job /\ q.orig = r.orig /\ q.early = r.early
      /\ q.n = r.n /\ q.len = r.len /\ q.cpu = r.cpu /\ q.snap = r.snap /\ q.split = r.split
      /\ q.done = r.done /\ q.comp = r.comp
  BY <1>1 DEF Fields
<1>3. CallTypes(q, js) /\ Counts(q)
  BY <1>1, <1>2 DEF CallTypes, Counts, Beginning, Prepared, Ended
<1>4. AtDevice(q, d) /\ Comparisons(q, d)
  BY <1>1, <1>2 DEF AtDevice, Comparisons, Rounds, Prepared, Ended
<1>5. ~SplitBackwards(r.job) => Contents(q, d, m) /\ Directions(q, d)
  <2>1. ~SplitBackwards(r.job) => m = Partly(r.job, Offsets(r))
    BY <1>1 DEF Contents, Ended
  <2>2. Partly(r.job, Offsets(r)) = r.job.mem /\ Partly(r.job, 0 .. r.job.n - 1) = r.job.mem
    BY <1>1, Compares
  <2> QED BY <1>2, <2>1, <2>2 DEF Contents, Directions, Beginning, Rounds, Prepared, Ended
<1>6. Verdict(q, d)
  BY <1>4, <1>2 DEF AtDevice, Verdict
<1> QED BY <1>2, <1>3, <1>4, <1>5, <1>6 DEF CallInv

\* All is done, or the standard function does the rest.
LEMMA StepEnd ==
  ASSUME NEW r, NEW d, NEW m, NEW js, CallInv(r, d, m, js), JobsOf(js), r.pc = "after", NEW q,
         q = [r EXCEPT !.pc = IF r.done # r.job.n THEN "std" ELSE "return"]
  PROVE  CallInv(q, d, m, js)
<1>1. CallTypes(r, js) /\ Counts(r) /\ AtDevice(r, d) /\ Comparisons(r, d) /\ Fields(r)
      /\ JobOk(r.job) /\ r.job.n \in Nat
      /\ (~SplitBackwards(r.job) => Contents(r, d, m) /\ Directions(r, d))
  BY CallFacts
<1>2. /\ Fields(q) /\ q.job = r.job /\ q.orig = r.orig /\ q.early = r.early
      /\ q.n = r.n /\ q.len = r.len /\ q.cpu = r.cpu /\ q.snap = r.snap /\ q.split = r.split
      /\ q.done = r.done /\ q.ret = r.ret /\ q.comp = r.comp
      /\ q.pc \in {"std", "return"} /\ (q.pc = "return" => r.done = r.job.n)
  BY <1>1 DEF Fields
<1>3. Offsets(q) = Offsets(r) /\ FromEnd(q) = FromEnd(r)
  BY <1>2 DEF Offsets, FromEnd
<1>4. CallTypes(q, js) /\ Counts(q)
  BY <1>1, <1>2 DEF CallTypes, Counts, Beginning, Prepared, Ended
<1>5. AtDevice(q, d) /\ Comparisons(q, d)
  BY <1>1, <1>2 DEF AtDevice, Comparisons, Rounds, Prepared, Ended
<1>6. ASSUME ~SplitBackwards(r.job) PROVE Contents(q, d, m) /\ Directions(q, d)
  <2>1. m = Partly(r.job, Offsets(r))
    BY <1>1, <1>6 DEF Contents, Ended
  <2>2. r.done = r.job.n => Offsets(r) = 0 .. r.job.n - 1
    BY <1>1 DEF Offsets
  <2>3. Contents(q, d, m)
    BY <1>2, <1>3, <2>1, <2>2 DEF Contents, Beginning, Ended
  <2>4. Directions(q, d)
    BY <1>1, <1>2, <1>3, <1>6 DEF Directions, Rounds, Prepared, Ended
  <2> QED BY <2>3, <2>4
<1>7. Verdict(q, d)
  <2>1. Verdict(r, d) /\ r.ret = 0
    BY <1>1, CallFacts DEF Comparisons
  <2>2. Agree(r.job, r.job.n) => Compared(r.job.mem, r.job.dst, r.job.src, r.job.n) = 0
    BY DEF Agree, Compared
  <2> QED BY <1>5, <1>2, <2>1, <2>2 DEF AtDevice, Verdict, Rounds, Prepared, Ended
<1> QED BY <1>2, <1>4, <1>5, <1>6, <1>7 DEF CallInv

\* The standard function does what is left, past what was done or below it.
LEMMA StepStd ==
  ASSUME NEW r, NEW d, NEW m, NEW js, CallInv(r, d, m, js), JobsOf(js), r.pc = "std",
         NEW k, k = r.job.n - r.done, NEW q,
         q = [r EXCEPT !.pc = "return",
                       !.ret = IF r.job.op = "cmp"
                               THEN Compared(m, r.job.dst + Skip(r), r.job.src + Skip(r), k)
                               ELSE 0]
  PROVE  CallInv(q, d, Moved(r.job.op, m, r.job.dst + Skip(r), r.job.src + Skip(r), k), js)
<1> DEFINE j == r.job
           a == Skip(r)
           m2 == Moved(j.op, m, j.dst + a, j.src + a, k)
<1>1. CallTypes(r, js) /\ Counts(r) /\ AtDevice(r, d) /\ Comparisons(r, d) /\ Fields(r)
      /\ JobOk(j) /\ j.n \in Nat /\ j.dst \in Nat /\ j.src \in Nat /\ r.done \in Nat
      /\ (~SplitBackwards(j) => Contents(r, d, m) /\ Directions(r, d))
  BY CallFacts
<1>2. /\ Fields(q) /\ q.pc = "return" /\ q.job = j /\ q.orig = r.orig /\ q.early = r.early
      /\ q.n = r.n /\ q.len = r.len /\ q.cpu = r.cpu /\ q.snap = r.snap /\ q.split = r.split
      /\ q.done = r.done /\ q.comp = r.comp
      /\ q.ret = IF j.op = "cmp" THEN Compared(m, j.dst + a, j.src + a, k) ELSE 0
  BY <1>1 DEF Fields
<1>3. r.done <= j.n /\ k = j.n - r.done
  BY <1>1 DEF Counts
<1>4. a = IF FromEnd(r) THEN 0 ELSE r.done
  BY DEF Skip, FromEnd
<1> HIDE DEF j, a
<1>5. a \in Nat /\ k \in Nat /\ a + k <= j.n
  BY <1>1, <1>3, <1>4
<1>6. CallTypes(q, js)
  BY <1>1, <1>2 DEF CallTypes, j
<1>7. Counts(q) /\ AtDevice(q, d)
  BY <1>1, <1>2 DEF Counts, AtDevice, Beginning, Prepared, Ended, j
<1>8. Comparisons(q, d)
  <2>1. ASSUME Equal(j) PROVE q.ret = 0
    <3>1. j.op = "cmp" /\ ~SplitBackwards(j)
      BY <2>1 DEF Equal, SplitBackwards, Backward
    <3>2. m = j.mem
      BY <1>1, <3>1, Compares DEF Contents, j
    <3> QED BY <1>1, <1>2, <1>5, <2>1, <3>1, <3>2, EqualParts
  <2> QED BY <1>2, <2>1 DEF Comparisons, Rounds, Prepared, Ended
<1>9. ASSUME ~SplitBackwards(j) PROVE Contents(q, d, m2)
  <2> DEFINE S == Offsets(r)
             O == a .. a + k - 1
  <2>1. m = Partly(j, S)
    BY <1>1, <1>9 DEF Contents, j
  <2>2. /\ FromEnd(r) => r.done = 0 \/ Backward(j)
        /\ Backward(j) /\ ~FromEnd(r) => r.done \in {0, j.n}
    BY <1>1, <1>9 DEF Directions, j
  <2>3. S = IF FromEnd(r) THEN j.n - r.done .. j.n - 1 ELSE 0 .. r.done - 1
    BY DEF Offsets, j
  <2> HIDE DEF S
  <2>4. S \in SUBSET Int /\ S \cup O = 0 .. j.n - 1
    BY <1>1, <1>3, <1>4, <2>3
  <2>5. Unspoiled(j, S, O)
    <3>1. CASE r.done = 0
      BY <1>1, <2>3, <3>1, S = {}, NothingSpoiled
    <3>2. CASE r.done = j.n
      <4>1. O = {}
        BY <1>1, <1>3, <1>5, <3>2
      <4> QED BY <4>1 DEF Unspoiled
    <3>3. CASE r.done \notin {0, j.n} /\ FromEnd(r)
      <4>1. Backward(j)
        BY <2>2, <3>3
      <4>2. ASSUME NEW s \in S, NEW o \in O PROVE j.dst + s # j.src + o
        <5>1. s \in Int /\ o \in Int /\ o < s
          BY <1>1, <1>3, <1>4, <2>3, <3>3
        <5> QED BY <1>1, <4>1, <5>1 DEF Backward
      <4> QED BY <4>2 DEF Unspoiled
    <3>4. CASE r.done \notin {0, j.n} /\ ~FromEnd(r)
      <4>1. ~Backward(j)
        BY <2>2, <3>4
      <4>2. a = r.done /\ S = 0 .. a - 1
        BY <1>4, <2>3, <3>4
      <4> QED BY <1>1, <1>5, <4>1, <4>2, ForwardParts
    <3> QED BY <3>1, <3>2, <3>3, <3>4
  <2>6. m2 = Partly(j, S \cup O)
    <3>1. Moved(j.op, Partly(j, S), j.dst + a, j.src + a, k) = Partly(j, S \cup (a .. a + k - 1))
      <4>1. JobOk(j)
        BY <1>1
      <4> QED BY <1>5, <2>4, <2>5, <4>1, Moving
    <3> QED BY <2>1, <3>1
  <2>7. m2 = Partly(j, 0 .. j.n - 1)
    BY <2>4, <2>6
  <2> QED BY <1>2, <2>7 DEF Contents, Beginning, Ended
<1>10. Directions(q, d)
  BY <1>2 DEF Directions, Rounds, Prepared, Ended
<1>11. Verdict(q, d)
  <2>1. ASSUME j.op = "cmp", r.comp.result = 0
        PROVE  q.ret = Compared(j.mem, j.dst, j.src, j.n)
    <3>1. Agree(j, r.done)
      BY <2>1, CallFacts DEF Verdict, j
    <3>2. a = r.done /\ a + k = j.n
      BY <1>1, <1>3, <1>4, <2>1 DEF FromEnd, j
    <3>3. m = j.mem
      BY <1>1, <2>1, Compares DEF Contents, SplitBackwards, Backward, j
    <3>4. Compared(j.mem, j.dst + a, j.src + a, k) = Compared(j.mem, j.dst, j.src, j.n)
      BY <1>1, <1>5, <3>1, <3>2, ComparedRest
    <3> QED BY <1>2, <2>1, <3>3, <3>4
  <2> QED BY <1>7, <1>2, <2>1 DEF AtDevice, Verdict, Rounds, Prepared, Ended
<1> QED BY <1>2, <1>6, <1>7, <1>8, <1>9, <1>10, <1>11 DEF CallInv, j, a

\* The call returns.
LEMMA StepReturn ==
  ASSUME NEW r, NEW d, NEW m, NEW js, CallInv(r, d, m, js), r.pc = "return", NEW m2, NEW q,
         q = [IdleThread EXCEPT !.calls = r.calls, !.comp = r.comp]
  PROVE  CallInv(q, d, m2, js)
<1>1. CallTypes(r, js) /\ AtDevice(r, d)
  BY DEF CallInv
<1>2. d = NoDesc
  BY <1>1 DEF AtDevice
<1>3. /\ Fields(q) /\ q.pc = "idle" /\ q.job = NoJob /\ q.orig = FALSE /\ q.early = FALSE
      /\ q.n = 0 /\ q.len = 0 /\ q.cpu = 0 /\ q.snap = 0 /\ q.split = FALSE
      /\ q.done = 0 /\ q.ret = 0 /\ q.comp = r.comp
  BY DEF Fields, IdleThread
<1>4. CallTypes(q, js)
  <2>1. r.comp \in [status : {"zero", "success", "fault", "error"}, result : {0, 1}, bytes : Nat]
    BY <1>1 DEF CallTypes
  <2>2. 0 \in 0 .. FracDen - 1
    BY DtoParameters
  <2>3. {q.orig, q.early, q.split} \subseteq BOOLEAN
    BY <1>3
  <2>4. {q.n, q.len, q.cpu, q.done} \subseteq Nat
    BY <1>3
  <2> QED BY <1>3, <2>1, <2>2, <2>3, <2>4 DEF CallTypes
<1>5. Counts(q)
  BY <1>3 DEF Counts, NoJob, Prepared, Ended
<1>6. AtDevice(q, d) /\ Comparisons(q, d)
  BY <1>2, <1>3 DEF AtDevice, Comparisons, Rounds, Prepared, Ended
<1>7. Contents(q, d, m2) /\ Directions(q, d)
  BY <1>3 DEF Contents, Directions, Beginning, Rounds, Prepared, Ended
<1>8. Verdict(q, d)
  BY <1>6, <1>3 DEF AtDevice, Verdict, Rounds, Prepared, Ended
<1> QED BY <1>3, <1>4, <1>5, <1>6, <1>7, <1>8 DEF CallInv

-----------------------------------------------------------------------------
(* The parts of the invariant.                                             *)

Knobs ==
    /\ csf \in Int /\ minSize \in Int /\ torn \in BOOLEAN
    /\ ~torn => csf \in 0 .. FracDen - 1 /\ minSize \in LowSize .. HighSize

Calls ==
    /\ DOMAIN th = Threads /\ DOMAIN dev = Threads /\ DOMAIN mem = Threads
    /\ \A t \in Threads : CallInv(th[t], dev[t], mem[t], Jobs[t]) /\ Remembers(th[t], torn)

Portals ==
    /\ {initializing, initialized, useStd, exited} \subseteq BOOLEAN
    /\ numWqs \in 0 .. NumWqs /\ mapped \subseteq 0 .. NumWqs - 1
    /\ PortalsBalanced

Crash == crashed \in {"no", "division", "portal", "fraction"} /\ CrashExplained

LEMMA JobsOfThread == \A t \in Threads : JobsOf(Jobs[t])
  BY JobsOk DEF JobsOf

LEMMA CallsTyped ==
  ASSUME Calls
  PROVE  /\ QuietAtReturn
         /\ \A t \in Threads :
               /\ th[t].job.op \in {"none", "set", "copy", "move", "cmp"}
               /\ th[t].done \in 0 .. th[t].job.n /\ th[t].cpu \in 0 .. th[t].job.n
               /\ dev[t] = NoDesc \/ dev[t] = th[t].desc
<1>1. ASSUME NEW t \in Threads
      PROVE  /\ th[t].job.op \in {"none", "set", "copy", "move", "cmp"}
             /\ th[t].done \in 0 .. th[t].job.n /\ th[t].cpu \in 0 .. th[t].job.n
             /\ dev[t] = NoDesc \/ dev[t] = th[t].desc
             /\ dev[t] # NoDesc => th[t].pc \in {"cpu", "wait"}
  <2>1. CallTypes(th[t], Jobs[t]) /\ Counts(th[t]) /\ AtDevice(th[t], dev[t])
    BY DEF Calls, CallInv
  <2>2. th[t].job = NoJob \/ th[t].job \in Jobs[t]
    BY <2>1 DEF CallTypes
  <2>3. th[t].job.op \in {"none", "set", "copy", "move", "cmp"} /\ th[t].job.n \in Nat
    <3>1. CASE th[t].job = NoJob
      BY <3>1 DEF NoJob
    <3>2. CASE th[t].job \in Jobs[t]
      <4>1. JobOk(th[t].job)
        BY <3>2, JobsOk
      <4>2. th[t].job.op \in {"set", "copy", "move", "cmp"}
        BY <4>1, JobTypes, Zenon
      <4> QED BY <4>1, <4>2, JobNats
    <3> QED BY <2>2, <3>1, <3>2
  <2>4. th[t].done \in Nat /\ th[t].cpu \in Nat
    BY <2>1 DEF CallTypes
  <2>5. th[t].done <= th[t].job.n /\ th[t].cpu <= th[t].job.n
    BY <2>1 DEF Counts
  <2> QED BY <2>1, <2>3, <2>4, <2>5 DEF AtDevice
<1> QED BY <1>1 DEF QuietAtReturn

LEMMA DtoParts == DtoInv <=> Knobs /\ Calls /\ InitInv /\ Portals /\ Crash
<1>1. ASSUME DtoInv PROVE Knobs /\ Calls /\ InitInv /\ Portals /\ Crash
  BY <1>1 DEF DtoInv, LibrarySound, TypeOK, Knobs, KnobsInRange, Calls, Portals, Crash
<1>2. ASSUME Knobs /\ Calls /\ InitInv /\ Portals /\ Crash PROVE DtoInv
  <2>1. TypeOK /\ QuietAtReturn
    BY <1>2, CallsTyped DEF TypeOK, Knobs, Portals, Crash
  <2> QED BY <1>2, <2>1 DEF DtoInv, LibrarySound, Knobs, KnobsInRange, Calls, Portals, Crash
<1> QED BY <1>1, <1>2

LEMMA DtoInit == Init => Knobs /\ Calls /\ InitInv /\ Portals /\ Crash
<1> SUFFICES ASSUME Init PROVE Knobs /\ Calls /\ InitInv /\ Portals /\ Crash
  OBVIOUS
<1>1. Knobs
  <2>1. csf \in 0 .. FracDen - 1 /\ torn = FALSE
    BY DtoParameters DEF Init
  <2>2. minSize \in LowSize .. HighSize /\ minSize \in Int
    BY DtoParameters DEF Init
  <2>3. csf \in Int
    BY <2>1
  <2> QED BY <2>1, <2>2, <2>3 DEF Knobs
<1>2. Calls
  <2>1. ASSUME NEW t \in Threads PROVE CallInv(IdleThread, NoDesc, NoJob.mem, Jobs[t])
    <3> DEFINE r == IdleThread
    <3>1. /\ Fields(r) /\ r.pc = "idle" /\ r.job = NoJob /\ r.orig = FALSE /\ r.early = FALSE
          /\ r.n = 0 /\ r.len = 0 /\ r.cpu = 0 /\ r.snap = 0 /\ r.split = FALSE
          /\ r.done = 0 /\ r.ret = 0 /\ r.comp = Zero
      BY DEF Fields, IdleThread
    <3> HIDE DEF r
    <3>2. Zero \in [status : {"zero", "success", "fault", "error"}, result : {0, 1}, bytes : Nat]
      BY DEF Zero
    <3>3. 0 \in 0 .. FracDen - 1
      BY DtoParameters
    <3>4. CallTypes(r, Jobs[t])
      <4>1. {r.orig, r.early, r.split} \subseteq BOOLEAN
        BY <3>1
      <4>2. {r.n, r.len, r.cpu, r.done} \subseteq Nat
        BY <3>1
      <4> QED BY <3>1, <3>2, <3>3, <4>1, <4>2 DEF CallTypes
    <3>5. Counts(r)
      BY <3>1 DEF Counts, NoJob, Prepared, Ended
    <3>6. AtDevice(r, NoDesc) /\ Comparisons(r, NoDesc)
      BY <3>1 DEF AtDevice, Comparisons, Rounds, Prepared, Ended
    <3>7. Contents(r, NoDesc, NoJob.mem) /\ Directions(r, NoDesc)
      BY <3>1 DEF Contents, Directions, Beginning, Rounds, Prepared, Ended
    <3>8. Verdict(r, NoDesc)
      BY <3>1 DEF Verdict, Rounds, Prepared, Ended
    <3>9. CallInv(r, NoDesc, NoJob.mem, Jobs[t])
      BY <3>1, <3>4, <3>5, <3>6, <3>7, <3>8 DEF CallInv
    <3> QED BY <3>9 DEF r
  <2>2. \A b : Remembers(IdleThread, b)
    BY DEF Remembers, IdleThread
  <2> HIDE DEF IdleThread
  <2> QED BY <2>1, <2>2 DEF Init, Calls
<1>3. \A t \in Threads : th[t].pc = "idle"
  BY DEF Init, IdleThread
<1>4. InitInv
  BY <1>3 DEF Init, InitInv, Rounds, Prepared, Ended
<1>5. Portals /\ Crash
  <2>1. /\ initializing = FALSE /\ initialized = FALSE /\ useStd = FALSE /\ exited = FALSE
        /\ numWqs = 0 /\ mapped = {} /\ crashed = "no"
    BY DEF Init
  <2>2. {initializing, initialized, useStd, exited} \subseteq BOOLEAN
    BY <2>1
  <2>3. numWqs \in 0 .. NumWqs /\ mapped \subseteq 0 .. NumWqs - 1
    BY <2>1, DtoParameters
  <2> QED BY <2>1, <2>2, <2>3 DEF Portals, PortalsBalanced, Crash, CrashExplained
<1> QED BY <1>1, <1>2, <1>4, <1>5

\* What a step leaves to the other threads.
Others(t) ==
    /\ torn => torn'
    /\ DOMAIN th' = Threads /\ DOMAIN dev' = Threads /\ DOMAIN mem' = Threads
    /\ \A u \in Threads : u # t => th'[u] = th[u] /\ dev'[u] = dev[u] /\ mem'[u] = mem[u]

LEMMA OneCall ==
  ASSUME Calls, NEW t \in Threads, Others(t), CallInv(th'[t], dev'[t], mem'[t], Jobs[t]),
         th'[t].pc # "move" \/ Remembers(th'[t], torn')
  PROVE  Calls'
<1>1. Remembers(th'[t], torn')
  BY DEF Remembers
<1>2. ASSUME NEW u \in Threads
      PROVE  CallInv(th'[u], dev'[u], mem'[u], Jobs[u]) /\ Remembers(th'[u], torn')
  <2>1. CASE u = t
    BY <1>1, <2>1
  <2>2. CASE u # t
    <3>1. th'[u] = th[u] /\ dev'[u] = dev[u] /\ mem'[u] = mem[u] /\ (torn => torn')
      BY <2>2 DEF Others
    <3>2. CallInv(th[u], dev[u], mem[u], Jobs[u]) /\ Remembers(th[u], torn)
      BY DEF Calls
    <3>3. Remembers(th[u], torn')
      BY <3>1, <3>2 DEF Remembers
    <3> QED BY <3>1, <3>2, <3>3
  <2> QED BY <2>1, <2>2
<1> QED BY <1>2 DEF Calls, Others

\* A knob that is moved from the value it was tested for stays in its range.
LEMMA NudgedInRange ==
  ASSUME NEW dir \in {"less", "more"}, NEW x \in Int
  PROVE  /\ Nudged(dir, x) \in Int
         /\ x \in 0 .. FracDen - 1 /\ FractionMay(dir, x) => Nudged(dir, x) \in 0 .. FracDen - 1
         /\ x \in LowSize .. HighSize /\ SizeMay(dir, x) =>
               Nudged(dir, x) \in LowSize .. HighSize
  BY DtoParameters DEF Nudged, FractionMay, SizeMay

LEMMA StutterParts ==
  ASSUME Knobs /\ Calls /\ InitInv /\ Portals /\ Crash, UNCHANGED vars
  PROVE  (Knobs /\ Calls /\ InitInv /\ Portals /\ Crash)'
  BY DEF vars, initVars, knobs, Knobs, Calls, InitInv, Portals, PortalsBalanced, Crash,
         CrashExplained

-----------------------------------------------------------------------------
(* The initialisation and the portals.                                     *)

Setup == {"init", "list", "accfg", "map"}

\* Where the initialisation is when a thread with the record r is where it is.
Place(r) ==
    /\ r.pc \in Setup => initializing /\ ~initialized
    /\ r.pc \in {"init", "accfg"} => mapped = {} /\ numWqs = 0
    /\ r.pc = "list" => mapped = 0 .. numWqs - 1
    /\ r.pc = "map" => numWqs > 0 /\ \E i \in 0 .. numWqs : mapped = 0 .. i - 1
    /\ r.pc \in {"go"} \cup Rounds => initialized
    /\ r.pc \in Rounds => numWqs > 0
    /\ r.pc # "idle" /\ ~r.orig /\ ~r.early => initialized /\ ~useStd

LEMMA Places ==
  ASSUME InitInv, NEW t \in Threads
  PROVE  Place(th[t])
  BY DEF InitInv, Place, Setup

LEMMA InitStep ==
  ASSUME InitInv, NEW t \in Threads, Others(t), Place(th[t])',
         ~initializing' => mapped' = {} /\ numWqs' = 0 /\ ~initialized',
         ~initialized' => ~useStd' /\ ~exited',
         initialized' => (useStd' <=> numWqs' = 0),
         initialized => initialized' /\ numWqs' = numWqs /\ (useStd' <=> useStd),
         \/ \A u \in Threads : u # t => th[u].pc \notin Setup
         \/ UNCHANGED initVars /\ th'[t].pc \notin Setup
  PROVE  InitInv'
<1>1. ASSUME NEW u \in Threads PROVE Place(th[u])'
  <2>1. CASE u = t
    BY <2>1
  <2>2. CASE u # t
    <3>1. th'[u] = th[u] /\ Place(th[u])
      BY <2>2, Places DEF Others
    <3>2. CASE th[u].pc \notin Setup
      BY <3>1, <3>2 DEF Place, Setup
    <3>3. CASE th[u].pc \in Setup
      <4>1. UNCHANGED initVars
        BY <2>2, <3>3
      <4> QED BY <3>1, <4>1 DEF Place, initVars
    <3> QED BY <3>2, <3>3
  <2> QED BY <2>1, <2>2
<1>2. ASSUME NEW u \in Threads, NEW v \in Threads, th'[u].pc \in Setup, th'[v].pc \in Setup
      PROVE  v = u
  <2>1. th[u].pc \in Setup /\ th[v].pc \in Setup => v = u
    BY DEF InitInv, Setup
  <2>2. /\ u # t => th'[u] = th[u]
        /\ v # t => th'[v] = th[v]
    BY DEF Others
  <2> QED BY <1>2, <2>1, <2>2
<1>3. \A u \in Threads : Place(th[u])'
  BY <1>1
<1> QED BY <1>2, <1>3 DEF InitInv, Place, Setup

\* A step that leaves the initialisation alone.
LEMMA LibStep ==
  ASSUME InitInv, Portals, NEW t \in Threads, Others(t), UNCHANGED <<initVars, exited>>,
         th'[t].pc \notin Setup,
         th'[t].pc \in {"go"} \cup Rounds => initialized,
         th'[t].pc \in Rounds => numWqs > 0,
         th'[t].pc # "idle" /\ ~th'[t].orig /\ ~th'[t].early => initialized /\ ~useStd
  PROVE  InitInv' /\ Portals'
<1>1. UNCHANGED <<initializing, initialized, useStd, numWqs, mapped, exited>>
  BY DEF initVars
<1>2. Place(th[t])'
  BY <1>1 DEF Place, Setup
<1>3. InitInv'
  <2>1. /\ ~initializing => mapped = {} /\ numWqs = 0 /\ ~initialized
        /\ ~initialized => ~useStd /\ ~exited
        /\ initialized => (useStd <=> numWqs = 0)
    BY DEF InitInv
  <2> QED BY <1>1, <1>2, <2>1, InitStep
<1> QED BY <1>1, <1>3 DEF Portals, PortalsBalanced

\* A step of the offload.
LEMMA RoundStep ==
  ASSUME InitInv, Portals, NEW t \in Threads, Others(t), UNCHANGED <<initVars, exited>>,
         th[t].pc \in Rounds \cup {"std"}, th'[t].pc \in Rounds \cup {"std", "return"},
         th'[t].pc \in Rounds => th[t].pc \in Rounds,
         th'[t].orig = th[t].orig, th'[t].early = th[t].early
  PROVE  InitInv' /\ Portals'
<1>1. Place(th[t])
  BY Places
<1>2. th[t].pc # "idle" /\ th'[t].pc \notin Setup \cup {"go"}
  BY DEF Rounds, Prepared, Ended, Setup
<1>3. /\ th'[t].pc \in {"go"} \cup Rounds => initialized
      /\ th'[t].pc \in Rounds => numWqs > 0
      /\ ~th'[t].orig /\ ~th'[t].early => initialized /\ ~useStd
  BY <1>1, <1>2 DEF Place
<1> QED BY <1>2, <1>3, LibStep

-----------------------------------------------------------------------------
(* One lemma per action.                                                   *)

Parts == Knobs /\ Calls /\ InitInv /\ Portals /\ Crash

LEMMA NoCrash == crashed' = "no" => Crash'
  BY DEF Crash, CrashExplained

\* What every action of a thread starts from.
LEMMA ThreadFacts ==
  ASSUME Parts, NEW t \in Threads
  PROVE  /\ CallInv(th[t], dev[t], mem[t], Jobs[t]) /\ JobsOf(Jobs[t])
         /\ CallTypes(th[t], Jobs[t]) /\ Fields(th[t]) /\ Place(th[t])
         /\ Knobs /\ Calls /\ InitInv /\ Portals
  BY JobsOfThread, Places DEF Parts, Calls, CallInv, CallTypes

\* One thread has moved to r, its device to d and its buffers to m.
LEMMA Going ==
  ASSUME Calls, NEW t \in Threads, NEW r, th' = [th EXCEPT ![t] = r],
         NEW d, (dev' = dev /\ d = dev[t]) \/ dev' = [dev EXCEPT ![t] = d],
         NEW m, (mem' = mem /\ m = mem[t]) \/ mem' = [mem EXCEPT ![t] = m],
         UNCHANGED knobs, r.pc # "move"
  PROVE  /\ Others(t) /\ th'[t] = r /\ dev'[t] = d /\ mem'[t] = m
         /\ CallInv(r, d, m, Jobs[t]) => Calls'
<1>1. DOMAIN th = Threads /\ DOMAIN dev = Threads /\ DOMAIN mem = Threads
  BY DEF Calls
<1>2. Others(t) /\ th'[t] = r /\ dev'[t] = d /\ mem'[t] = m
  BY <1>1 DEF Others, knobs
<1> QED BY <1>2, OneCall

LEMMA DoCall ==
  ASSUME Parts, NEW t \in Threads, NEW j \in Jobs[t], Call(t, j)
  PROVE  Parts'
<1> DEFINE r == th[t]
           b == useStd \/ j.n < minSize
           e == ~initialized
           q == [r EXCEPT !.pc = "enter", !.calls = r.calls + 1, !.job = j, !.orig = b,
                          !.early = e]
<1>1. /\ CallInv(r, dev[t], mem[t], Jobs[t]) /\ JobsOf(Jobs[t])
      /\ Fields(r) /\ Knobs /\ Calls /\ InitInv /\ Portals
  BY ThreadFacts
<1>2. /\ r.pc = "idle" /\ th' = [th EXCEPT ![t] = q] /\ mem' = [mem EXCEPT ![t] = j.mem]
      /\ UNCHANGED <<initVars, knobs, exited, crashed, dev>> /\ crashed = "no"
  BY DEF Call, At, Goto
<1>3. q.pc = "enter" /\ q.orig = b /\ q.early = e
  BY <1>1 DEF Fields
<1>4. CallInv(q, dev[t], j.mem, Jobs[t])
  <2>1. b \in BOOLEAN /\ e \in BOOLEAN
    OBVIOUS
  <2> HIDE DEF b, e
  <2> QED BY <1>1, <1>2, <2>1, StepCall
<1> HIDE DEF q
<1>5. Others(t) /\ th'[t] = q /\ Calls'
  BY <1>1, <1>2, <1>3, <1>4, Going
<1>6. InitInv' /\ Portals'
  BY <1>1, <1>2, <1>3, <1>5, LibStep DEF Setup, Rounds, Prepared, Ended
<1> QED BY <1>1, <1>2, <1>5, <1>6, NoCrash DEF Parts, Knobs, knobs

LEMMA DoEnter ==
  ASSUME Parts, NEW t \in Threads, Enter(t)
  PROVE  Parts'
<1> DEFINE r == th[t]
<1>1. /\ CallInv(r, dev[t], mem[t], Jobs[t]) /\ JobsOf(Jobs[t])
      /\ Fields(r) /\ Place(r) /\ Knobs /\ Calls /\ InitInv /\ Portals
  BY ThreadFacts
<1>2. /\ r.pc = "enter" /\ crashed = "no"
      /\ UNCHANGED <<initialized, useStd, numWqs, mapped, knobs, exited, crashed, dev>>
  BY DEF Enter, At
<1>3. ASSUME initialized, th' = [th EXCEPT ![t] = [r EXCEPT !.pc = "go"]],
             UNCHANGED <<initializing, mem>>
      PROVE  Calls' /\ InitInv' /\ Portals'
  <2> DEFINE q == [r EXCEPT !.pc = "go"]
  <2>1. q.pc = "go" /\ q.pc # "move" /\ q.orig = r.orig /\ q.early = r.early
    BY <1>1 DEF Fields
  <2>2. CallInv(q, dev[t], mem[t], Jobs[t])
    BY <1>1, <1>2, StepBeginning DEF Beginning
  <2> HIDE DEF q
  <2>3. Others(t) /\ th'[t] = q /\ Calls'
    BY <1>1, <1>2, <1>3, <2>1, <2>2, Going, ZenonT(40) DEF q
  <2>4. ~q.orig /\ ~q.early => ~useStd
    BY <1>1, <1>2, <2>1 DEF Place
  <2> QED BY <1>1, <1>2, <1>3, <2>1, <2>3, <2>4, LibStep
          DEF initVars, Setup, Rounds, Prepared, Ended
<1>4. ASSUME ~initialized, ~initializing, initializing' = TRUE,
             th' = [th EXCEPT ![t] = [r EXCEPT !.pc = "init"]], UNCHANGED mem
      PROVE  Calls' /\ InitInv' /\ Portals'
  <2> DEFINE q == [r EXCEPT !.pc = "init"]
  <2>1. q.pc = "init" /\ q.pc # "move" /\ q.orig = r.orig /\ q.early = r.early
    BY <1>1 DEF Fields
  <2>2. CallInv(q, dev[t], mem[t], Jobs[t])
    BY <1>1, <1>2, StepBeginning DEF Beginning
  <2> HIDE DEF q
  <2>3. Others(t) /\ th'[t] = q /\ Calls'
    BY <1>1, <1>2, <1>4, <2>1, <2>2, Going, ZenonT(40) DEF q
  <2>4. mapped = {} /\ numWqs = 0 /\ ~useStd /\ ~exited
    BY <1>1, <1>4 DEF InitInv
  <2>5. Place(th[t])'
    BY <1>1, <1>2, <1>4, <2>1, <2>3, <2>4 DEF Place, Rounds, Prepared, Ended
  <2>6. \A u \in Threads : th[u].pc \notin Setup
    BY <1>1, <1>4 DEF InitInv, Setup
  <2>7. InitInv'
    BY <1>1, <1>2, <1>4, <2>3, <2>4, <2>5, <2>6, InitStep
  <2> QED BY <1>1, <1>2, <1>4, <2>3, <2>7 DEF Portals, PortalsBalanced
<1>5. ASSUME initializing' = initializing,
             mem' = [mem EXCEPT ![t] = Moved(r.job.op, @, r.job.dst, r.job.src, r.job.n)],
             th' = [th EXCEPT ![t] = [r EXCEPT !.pc = "return",
                       !.ret = IF r.job.op = "cmp"
                               THEN Compared(mem[t], r.job.dst, r.job.src, r.job.n) ELSE 0]]
      PROVE  Calls' /\ InitInv' /\ Portals'
  <2> DEFINE q == [r EXCEPT !.pc = "return",
                       !.ret = IF r.job.op = "cmp"
                               THEN Compared(mem[t], r.job.dst, r.job.src, r.job.n) ELSE 0]
             m2 == Moved(r.job.op, mem[t], r.job.dst, r.job.src, r.job.n)
  <2>1. q.pc = "return" /\ q.orig = r.orig /\ q.early = r.early
    BY <1>1 DEF Fields
  <2>2. CallInv(q, dev[t], m2, Jobs[t])
    BY <1>1, <1>2, StepAlone
  <2>3. th' = [th EXCEPT ![t] = q] /\ mem' = [mem EXCEPT ![t] = m2] /\ dev' = dev
    BY <1>1, <1>2, <1>5 DEF Calls
  <2> HIDE DEF q, m2
  <2>4. Others(t) /\ th'[t] = q /\ Calls'
    BY <1>1, <1>2, <2>1, <2>2, <2>3, Going
  <2>5. ~q.orig /\ ~q.early => initialized /\ ~useStd
    BY <1>1, <1>2, <2>1 DEF Place
  <2> QED BY <1>1, <1>2, <1>5, <2>1, <2>4, <2>5, LibStep
          DEF initVars, Setup, Rounds, Prepared, Ended
<1>6. Calls' /\ InitInv' /\ Portals'
  BY <1>3, <1>4, <1>5 DEF Enter, Ready, Goto
<1> QED BY <1>1, <1>2, <1>6, NoCrash DEF Parts, Knobs, knobs

\* The initialising thread goes from one step to the next, or begins its call.
LEMMA SetupStep ==
  ASSUME Parts, NEW t \in Threads, th[t].pc \in Setup, NEW p \in Setup \cup {"go"},
         Others(t), th'[t] = [th[t] EXCEPT !.pc = p],
         UNCHANGED <<initializing, exited, dev, mem>>,
         {initialized', useStd'} \subseteq BOOLEAN,
         ~initialized' => ~useStd', initialized' => (useStd' <=> numWqs' = 0),
         p = "go" <=> initialized',
         p \in {"init", "accfg"} => mapped' = {} /\ numWqs' = 0,
         p = "list" => mapped' = 0 .. numWqs' - 1,
         p = "map" => numWqs' > 0 /\ \E i \in 0 .. numWqs' : mapped' = 0 .. i - 1
  PROVE  Calls' /\ InitInv' /\ \A u \in Threads : u # t => th[u].pc \notin Setup
<1> DEFINE r == th[t]
           q == [r EXCEPT !.pc = p]
<1>1. /\ CallInv(r, dev[t], mem[t], Jobs[t]) /\ CallTypes(r, Jobs[t])
      /\ Fields(r) /\ Place(r) /\ Calls /\ InitInv
  BY ThreadFacts
<1>2. q.pc = p /\ q.orig = r.orig /\ q.early = r.early
  BY <1>1 DEF Fields
<1>3. CallInv(q, dev[t], mem[t], Jobs[t])
  BY <1>1, StepBeginning DEF Beginning, Setup
<1>4. th'[t] = q /\ Calls'
  BY <1>1, <1>2, <1>3, OneCall DEF Setup
<1> HIDE DEF q
<1>5. initializing /\ ~initialized /\ ~exited /\ ~useStd
  BY <1>1 DEF Place, InitInv
<1>6. r.pc # "idle" /\ {r.orig, r.early} \subseteq BOOLEAN
  BY <1>1 DEF Setup, CallTypes
<1>7. ~q.orig /\ ~q.early => FALSE
  BY <1>1, <1>2, <1>5, <1>6 DEF Place
<1>8. Place(th[t])'
  BY <1>2, <1>4, <1>5, <1>7 DEF Place, Setup, Rounds, Prepared, Ended
<1>9. \A u \in Threads : u # t => th[u].pc \notin Setup
  BY <1>1 DEF InitInv, Setup
<1>10. InitInv'
  BY <1>1, <1>4, <1>5, <1>8, <1>9, InitStep
<1> QED BY <1>4, <1>9, <1>10

LEMMA AtPlace ==
  ASSUME Parts, NEW t \in Threads, UNCHANGED <<knobs, dev, mem>>, NEW p,
         \/ th' = [th EXCEPT ![t] = [th[t] EXCEPT !.pc = p]]
         \/ UNCHANGED th /\ p = th[t].pc
  PROVE  Others(t) /\ th'[t] = [th[t] EXCEPT !.pc = p]
<1>1. Fields(th[t]) /\ DOMAIN th = Threads /\ DOMAIN dev = Threads /\ DOMAIN mem = Threads
  BY ThreadFacts DEF Calls
<1>2. [th[t] EXCEPT !.pc = th[t].pc] = th[t]
  BY <1>1 DEF Fields
<1> QED BY <1>1, <1>2 DEF Others, knobs

\* What holds when the library steps aside, or has found its queues.
LEMMA SetupFacts ==
  ASSUME Parts, NEW t \in Threads, th[t].pc \in Setup
  PROVE  initializing /\ ~initialized /\ ~exited /\ ~useStd
  BY ThreadFacts DEF Place, InitInv

LEMMA AsideStep ==
  ASSUME Parts, NEW t \in Threads, th[t].pc \in Setup, Aside(t),
         UNCHANGED <<initializing, knobs, exited, dev, mem>>
  PROVE  Calls' /\ InitInv' /\ Portals'
<1>1. /\ initialized' = TRUE /\ useStd' = TRUE /\ mapped' = {} /\ numWqs' = 0
      /\ Others(t) /\ th'[t] = [th[t] EXCEPT !.pc = "go"]
  BY AtPlace DEF Aside, Goto
<1>2. Calls' /\ InitInv'
  BY <1>1, SetupStep
<1>3. 0 .. 0 - 1 = {} /\ NumWqs \in Nat
  BY DtoParameters
<1>4. {initializing, initialized, useStd, exited} \subseteq BOOLEAN
  BY DEF Parts, Portals
<1> QED BY <1>1, <1>2, <1>3, <1>4 DEF Portals, PortalsBalanced

LEMMA FoundStep ==
  ASSUME Parts, NEW t \in Threads, th[t].pc \in Setup, Found(t),
         numWqs > 0, mapped = 0 .. numWqs - 1,
         UNCHANGED <<initializing, useStd, numWqs, mapped, knobs, exited, dev, mem>>
  PROVE  Calls' /\ InitInv' /\ Portals'
<1>1. initialized' = TRUE /\ Others(t) /\ th'[t] = [th[t] EXCEPT !.pc = "go"]
  BY AtPlace DEF Found, Goto
<1>2. Portals /\ ~useStd /\ numWqs # 0
  BY SetupFacts DEF Parts, Portals
<1>3. useStd' = useStd /\ numWqs' = numWqs /\ useStd' \in BOOLEAN /\ ~useStd'
  BY <1>2 DEF Portals
<1>4. Calls' /\ InitInv'
  BY <1>1, <1>2, <1>3, SetupStep
<1> QED BY <1>1, <1>2, <1>3, <1>4 DEF Portals, PortalsBalanced

\* A step inside the initialisation.
LEMMA NextSetup ==
  ASSUME Parts, NEW t \in Threads, th[t].pc \in Setup, NEW p \in Setup,
         Others(t), th'[t] = [th[t] EXCEPT !.pc = p],
         UNCHANGED <<initializing, initialized, useStd, exited, dev, mem>>,
         numWqs' \in 0 .. NumWqs, mapped' \subseteq 0 .. NumWqs - 1,
         p \in {"init", "accfg"} => mapped' = {} /\ numWqs' = 0,
         p = "list" => mapped' = 0 .. numWqs' - 1,
         p = "map" => numWqs' > 0 /\ \E i \in 0 .. numWqs' : mapped' = 0 .. i - 1
  PROVE  Calls' /\ InitInv' /\ Portals'
<1>1. Portals /\ ~useStd /\ ~initialized
  BY SetupFacts DEF Parts
<1>2. /\ useStd' = useStd /\ useStd' \in BOOLEAN /\ ~useStd'
      /\ initialized' = initialized /\ initialized' \in BOOLEAN /\ ~initialized'
  BY <1>1 DEF Portals
<1>3. p # "go" /\ p \in Setup \cup {"go"}
  BY DEF Setup
<1>4. {initialized', useStd'} \subseteq BOOLEAN /\ (p = "go" <=> initialized')
  BY <1>2, <1>3
<1>5. Calls' /\ InitInv'
  BY <1>2, <1>3, <1>4, SetupStep
<1> QED BY <1>1, <1>2, <1>5 DEF Portals, PortalsBalanced

LEMMA DoInitDto ==
  ASSUME Parts, NEW t \in Threads, InitDto(t)
  PROVE  Parts'
<1>1. /\ th[t].pc = "init" /\ crashed = "no" /\ Knobs
      /\ UNCHANGED <<initializing, knobs, exited, crashed, dev, mem>>
  BY DEF InitDto, At, Parts
<1>2. CASE Aside(t)
  BY <1>1, <1>2, AsideStep, NoCrash DEF Setup, Parts, Knobs, knobs
<1>3. CASE /\ \E pc \in {"list", "accfg"} : Goto(t, [th[t] EXCEPT !.pc = pc])
           /\ UNCHANGED <<initialized, useStd, numWqs, mapped>>
  <2>1. PICK p \in {"list", "accfg"} : Others(t) /\ th'[t] = [th[t] EXCEPT !.pc = p]
    BY <1>1, <1>3, AtPlace DEF Goto
  <2>2. mapped = {} /\ numWqs = 0 /\ numWqs \in 0 .. NumWqs /\ mapped \subseteq 0 .. NumWqs - 1
    BY <1>1, ThreadFacts DEF Place, Portals
  <2>3. Calls' /\ InitInv' /\ Portals'
    BY <1>1, <1>3, <2>1, <2>2, NextSetup, 0 .. 0 - 1 = {} DEF Setup
  <2> QED BY <1>1, <2>3, NoCrash DEF Parts, Knobs, knobs
<1> QED BY <1>2, <1>3 DEF InitDto

LEMMA DoWqList ==
  ASSUME Parts, NEW t \in Threads, DsaInitFromWqList(t)
  PROVE  Parts'
<1>1. /\ th[t].pc = "list" /\ th[t].pc \in Setup /\ crashed = "no" /\ Knobs
      /\ UNCHANGED <<initializing, knobs, exited, crashed, dev, mem>>
  BY DEF DsaInitFromWqList, At, Parts, Setup
<1>2. /\ mapped = 0 .. numWqs - 1 /\ numWqs \in 0 .. NumWqs /\ mapped \subseteq 0 .. NumWqs - 1
      /\ NumWqs \in Nat
  BY <1>1, ThreadFacts, DtoParameters DEF Place, Portals
<1>3. Calls' /\ InitInv' /\ Portals'
  <2>1. CASE /\ numWqs < NumWqs /\ mapped' = mapped \cup {numWqs} /\ numWqs' = numWqs + 1
             /\ UNCHANGED <<initialized, useStd, th>>
    <3>1. Others(t) /\ th'[t] = [th[t] EXCEPT !.pc = "list"]
      BY <1>1, <2>1, AtPlace
    <3>2. /\ numWqs' \in 0 .. NumWqs /\ mapped' \subseteq 0 .. NumWqs - 1
          /\ mapped' = 0 .. numWqs' - 1
      BY <1>2, <2>1
    <3> QED BY <1>1, <2>1, <3>1, <3>2, NextSetup
  <2>2. CASE numWqs > 0 /\ Found(t) /\ UNCHANGED <<useStd, mapped, numWqs>>
    BY <1>1, <1>2, <2>2, FoundStep
  <2>3. CASE Aside(t)
    BY <1>1, <2>3, AsideStep
  <2> QED BY <2>1, <2>2, <2>3 DEF DsaInitFromWqList
<1> QED BY <1>1, <1>3, NoCrash DEF Parts, Knobs, knobs

LEMMA DoAccfg ==
  ASSUME Parts, NEW t \in Threads, DsaInitFromAccfg(t)
  PROVE  Parts'
<1>1. /\ th[t].pc = "accfg" /\ th[t].pc \in Setup /\ crashed = "no" /\ Knobs
      /\ UNCHANGED <<initializing, knobs, exited, crashed, dev, mem>>
  BY DEF DsaInitFromAccfg, At, Parts, Setup
<1>2. mapped = {} /\ NumWqs \in Nat /\ mapped \subseteq 0 .. NumWqs - 1
  BY <1>1, ThreadFacts, DtoParameters DEF Place, Portals
<1>3. Calls' /\ InitInv' /\ Portals'
  <2>1. CASE Aside(t)
    BY <1>1, <2>1, AsideStep
  <2>2. CASE /\ numWqs' \in 1 .. NumWqs /\ Goto(t, [th[t] EXCEPT !.pc = "map"])
             /\ UNCHANGED <<initialized, useStd, mapped>>
    <3>1. Others(t) /\ th'[t] = [th[t] EXCEPT !.pc = "map"]
      BY <1>1, <2>2, AtPlace DEF Goto
    <3>2. numWqs' \in 0 .. NumWqs /\ numWqs' > 0 /\ mapped' = 0 .. 0 - 1 /\ 0 \in 0 .. numWqs'
      BY <1>2, <2>2
    <3>3. \E i \in 0 .. numWqs' : mapped' = 0 .. i - 1
      BY <3>2
    <3> QED BY <1>1, <1>2, <2>2, <3>1, <3>2, <3>3, NextSetup DEF Setup
  <2> QED BY <2>1, <2>2 DEF DsaInitFromAccfg
<1> QED BY <1>1, <1>3, NoCrash DEF Parts, Knobs, knobs

LEMMA DoMapWqs ==
  ASSUME Parts, NEW t \in Threads, MapWqs(t)
  PROVE  Parts'
<1>1. /\ th[t].pc = "map" /\ th[t].pc \in Setup /\ crashed = "no" /\ Knobs
      /\ UNCHANGED <<initializing, knobs, exited, crashed, dev, mem>>
  BY DEF MapWqs, At, Parts, Setup
<1>2. /\ numWqs \in 0 .. NumWqs /\ mapped \subseteq 0 .. NumWqs - 1 /\ numWqs > 0
      /\ NumWqs \in Nat
  BY <1>1, ThreadFacts, DtoParameters DEF Place, Portals
<1>3. PICK i \in 0 .. numWqs : mapped = 0 .. i - 1
  BY <1>1, ThreadFacts DEF Place
<1>4. Cardinality(mapped) = i
  <2>1. Cardinality(0 .. i - 1) = IF i - 1 < 0 THEN 0 ELSE i - 1 - 0 + 1
    BY <1>3, FS_Interval
  <2> QED BY <1>2, <1>3, <2>1
<1>5. Calls' /\ InitInv' /\ Portals'
  <2>1. CASE /\ i < numWqs /\ mapped' = mapped \cup {i} /\ UNCHANGED <<initialized, useStd, numWqs, th>>
    <3>1. Others(t) /\ th'[t] = [th[t] EXCEPT !.pc = "map"]
      BY <1>1, <2>1, AtPlace
    <3>2. /\ numWqs' \in 0 .. NumWqs /\ numWqs' > 0 /\ mapped' \subseteq 0 .. NumWqs - 1
          /\ mapped' = 0 .. (i + 1) - 1 /\ i + 1 \in 0 .. numWqs'
      BY <1>2, <1>3, <2>1
    <3>3. \E k \in 0 .. numWqs' : mapped' = 0 .. k - 1
      BY <3>2
    <3> QED BY <1>1, <2>1, <3>1, <3>2, <3>3, NextSetup DEF Setup
  <2>2. CASE i = numWqs /\ Found(t) /\ UNCHANGED <<useStd, numWqs, mapped>>
    BY <1>1, <1>2, <1>3, <2>2, FoundStep
  <2>3. CASE Aside(t)
    BY <1>1, <2>3, AsideStep
  <2> QED BY <1>4, <2>1, <2>2, <2>3 DEF MapWqs
<1> QED BY <1>1, <1>5, NoCrash DEF Parts, Knobs, knobs

LEMMA DoCleanup ==
  ASSUME Parts, CleanupDto
  PROVE  Parts'
<1>1. /\ crashed = "no" /\ initialized /\ exited' = TRUE /\ mapped' = {}
      /\ UNCHANGED <<initializing, initialized, useStd, numWqs, knobs, crashed, th, dev, mem>>
  BY DEF CleanupDto
<1>2. \A t \in Threads : th[t].pc \notin Setup
  BY <1>1, SetupFacts
<1>3. InitInv'
  BY <1>1, <1>2 DEF Parts, InitInv, Setup
<1>4. Portals'
  BY <1>1 DEF Parts, Portals, PortalsBalanced
<1>5. Calls'
  BY <1>1 DEF Parts, Calls, knobs
<1> QED BY <1>1, <1>3, <1>4, <1>5, NoCrash DEF Parts, Knobs, knobs

\* A step of the offload, from the lemma about the thread's record.
LEMMA RoundParts ==
  ASSUME Parts, NEW t \in Threads, NEW q, th' = [th EXCEPT ![t] = q],
         NEW d, (dev' = dev /\ d = dev[t]) \/ dev' = [dev EXCEPT ![t] = d],
         NEW m, (mem' = mem /\ m = mem[t]) \/ mem' = [mem EXCEPT ![t] = m],
         CallInv(q, d, m, Jobs[t]), UNCHANGED <<initVars, exited>>, crashed' = "no", Knobs',
         torn => torn', q.pc # "move" \/ Remembers(q, torn'),
         th[t].pc \in Rounds \cup {"std"}, q.pc \in Rounds \cup {"std", "return"},
         q.pc \in Rounds => th[t].pc \in Rounds,
         q.orig = th[t].orig, q.early = th[t].early
  PROVE  Parts'
<1> Calls /\ InitInv /\ Portals
  BY DEF Parts
<1>1. Others(t) /\ th'[t] = q /\ Calls'
  <2>1. DOMAIN th = Threads /\ DOMAIN dev = Threads /\ DOMAIN mem = Threads
    BY DEF Calls
  <2>2. Others(t) /\ th'[t] = q /\ dev'[t] = d /\ mem'[t] = m
    BY <2>1 DEF Others
  <2> QED BY <2>2, OneCall
<1>2. InitInv' /\ Portals'
  BY <1>1, RoundStep
<1> QED BY <1>1, <1>2, NoCrash DEF Parts

LEMMA DoNextChunk ==
  ASSUME Parts, NEW t \in Threads, NextChunk(t)
  PROVE  Parts'
<1> DEFINE r == th[t]
           len == Min({r.n, Threshold(r)})
           frac == IF r.job.op = "set" THEN r.snap ELSE csf
           cpu == CpuSize(r.job, len, frac)
           q == Chunk(r, len, cpu)
<1>1. /\ CallInv(r, dev[t], mem[t], Jobs[t]) /\ JobsOf(Jobs[t]) /\ CallTypes(r, Jobs[t])
      /\ Fields(r) /\ Knobs
  BY ThreadFacts
<1>2. /\ r.pc = "chunk" /\ crashed = "no" /\ th' = [th EXCEPT ![t] = q]
      /\ UNCHANGED <<initVars, knobs, exited, crashed, dev, mem>>
  BY DEF NextChunk, At, Goto
<1>3. q.pc = "submit" /\ q.orig = r.orig /\ q.early = r.early
  BY <1>1 DEF Fields, Chunk
<1>4. r.n \in Nat /\ r.snap \in 0 .. FracDen - 1
  BY <1>1 DEF CallTypes
<1>5. len \in Nat /\ len <= r.n /\ (Shared(r.job, len) => frac \in 0 .. FracDen - 1)
  <2>1. Threshold(r) \in Nat
    BY <1>4, ThresholdFacts
  <2>2. Shared(r.job, len) => frac \in 0 .. FracDen - 1
    BY <1>2, <1>4 DEF NextChunk, Sane, Reads, At
  <2> QED BY <1>4, <2>1, <2>2, LeastOfTwo
<1>6. LoopInv(r, dev[t], mem[t], Jobs[t]) /\ r.split
  BY <1>1, <1>2 DEF CallInv, LoopInv
<1> HIDE DEF len, frac
<1>7. CallInv(q, dev[t], mem[t], Jobs[t])
  BY <1>1, <1>2, <1>5, <1>6, StepChunk
<1> HIDE DEF q
<1> QED BY <1>1, <1>2, <1>3, <1>7, RoundParts DEF Rounds, Prepared, Knobs, knobs

LEMMA DoSnapshot ==
  ASSUME Parts, NEW t \in Threads, Snapshot(t)
  PROVE  Parts'
<1> DEFINE r == th[t]
           c == IF r.job.op = "cmp" THEN 0 ELSE csf
           q == [r EXCEPT !.pc = "chunk", !.snap = c]
<1>1. /\ CallInv(r, dev[t], mem[t], Jobs[t]) /\ JobsOf(Jobs[t]) /\ Fields(r) /\ Knobs
  BY ThreadFacts
<1>2. /\ r.pc = "snap" /\ crashed = "no" /\ th' = [th EXCEPT ![t] = q]
      /\ UNCHANGED <<initVars, knobs, exited, crashed, dev, mem>>
  BY DEF Snapshot, At, Goto
<1>3. c \in 0 .. FracDen - 1
  BY <1>2, DtoParameters DEF Snapshot, Sane, Reads, At
<1>4. q.pc = "chunk" /\ q.orig = r.orig /\ q.early = r.early
  BY <1>1 DEF Fields
<1>5. CallInv(q, dev[t], mem[t], Jobs[t])
  <2> HIDE DEF c
  <2> QED BY <1>1, <1>2, <1>3, StepSnapshot
<1> HIDE DEF q
<1> QED BY <1>1, <1>2, <1>4, <1>5, RoundParts DEF Rounds, Knobs, knobs

\* The program dies of a fraction that was moved out of its bounds.
LEMMA DoBadFraction ==
  ASSUME Parts, NEW t \in Threads, BadFraction(t)
  PROVE  Parts'
<1>1. /\ csf \notin 0 .. FracDen - 1 /\ crashed' = "fraction"
      /\ UNCHANGED <<initVars, knobs, exited, th, dev, mem>>
  BY DEF BadFraction, Sane
<1>2. torn
  BY <1>1 DEF Parts, Knobs
<1>3. Crash'
  BY <1>1, <1>2 DEF Crash, CrashExplained, knobs
<1> QED BY <1>1, <1>3 DEF Parts, Knobs, knobs, Calls, InitInv, Portals, PortalsBalanced, initVars

LEMMA DoSubmit ==
  ASSUME Parts, NEW t \in Threads, Submit(t)
  PROVE  Parts'
<1> DEFINE r == th[t]
           c == [r EXCEPT !.comp = Cleared(@)]
<1>1. /\ CallInv(r, dev[t], mem[t], Jobs[t]) /\ JobsOf(Jobs[t]) /\ CallTypes(r, Jobs[t])
      /\ Fields(r) /\ Knobs /\ Place(r) /\ Portals /\ Calls /\ InitInv
  BY ThreadFacts
<1>2. r.pc = "submit" /\ crashed = "no" /\ UNCHANGED <<initVars, knobs, exited, mem>>
  BY DEF Submit, At
<1>3. c.desc = r.desc
  BY <1>1 DEF Fields
<1>4. CASE mapped = {} /\ crashed' = "portal" /\ UNCHANGED <<th, dev>>
  <2>1. initialized /\ numWqs > 0 /\ numWqs \in Nat
    BY <1>1, <1>2 DEF Place, Rounds, Prepared, Portals
  <2>2. exited
    <3>1. initialized /\ ~exited => mapped = 0 .. numWqs - 1
      BY <1>1 DEF Portals, PortalsBalanced
    <3>2. 0 \in 0 .. numWqs - 1
      BY <2>1
    <3> QED BY <1>4, <2>1, <3>1, <3>2
  <2>3. Crash'
    BY <1>2, <1>4, <2>2 DEF Crash, CrashExplained
  <2> QED BY <1>1, <1>2, <1>4, <2>3
          DEF Parts, Knobs, knobs, Calls, InitInv, Portals, PortalsBalanced, initVars
<1>5. ASSUME th' = [th EXCEPT ![t] = [c EXCEPT !.pc = "cpu"]],
             dev' = [dev EXCEPT ![t] = c.desc], UNCHANGED crashed
      PROVE  Parts'
  <2> DEFINE q == [c EXCEPT !.pc = "cpu"]
  <2>1. CallInv(q, r.desc, mem[t], Jobs[t])
    BY <1>1, <1>2, StepAccepted
  <2>2. q.pc = "cpu" /\ q.orig = r.orig /\ q.early = r.early
    BY <1>1 DEF Fields
  <2>3. th' = [th EXCEPT ![t] = q] /\ dev' = [dev EXCEPT ![t] = r.desc]
    BY <1>3, <1>5
  <2> HIDE DEF q
  <2> QED BY <1>1, <1>2, <1>5, <2>1, <2>2, <2>3, RoundParts DEF Rounds, Prepared, Knobs, knobs
<1>6. ASSUME th' = [th EXCEPT ![t] = [c EXCEPT !.pc = "after", !.rc = "retries"]],
             UNCHANGED <<dev, crashed>>
      PROVE  Parts'
  <2> DEFINE q == [c EXCEPT !.pc = "after", !.rc = "retries"]
  <2>1. CallInv(q, dev[t], mem[t], Jobs[t])
    BY <1>1, <1>2, StepRefused
  <2>2. q.pc = "after" /\ q.orig = r.orig /\ q.early = r.early
    BY <1>1 DEF Fields
  <2>3. th' = [th EXCEPT ![t] = q]
    BY <1>6
  <2> HIDE DEF q
  <2> QED BY <1>1, <1>2, <1>6, <2>1, <2>2, <2>3, RoundParts
          DEF Rounds, Prepared, Ended, Knobs, knobs
<1> QED BY <1>4, <1>5, <1>6 DEF Submit, Goto

LEMMA DoCpuPart ==
  ASSUME Parts, NEW t \in Threads, CpuPart(t)
  PROVE  Parts'
<1> DEFINE r == th[t]
           q == [r EXCEPT !.pc = "wait", !.done = @ + r.cpu]
           m2 == Moved(r.job.op, mem[t], r.job.dst + r.done, r.job.src + r.done, r.cpu)
<1>1. /\ CallInv(r, dev[t], mem[t], Jobs[t]) /\ JobsOf(Jobs[t]) /\ Fields(r) /\ Knobs
      /\ DOMAIN mem = Threads
  BY ThreadFacts DEF Calls
<1>2. /\ r.pc = "cpu" /\ crashed = "no" /\ th' = [th EXCEPT ![t] = q]
      /\ mem' = [mem EXCEPT ![t] = m2]
      /\ UNCHANGED <<initVars, knobs, exited, crashed, dev>>
  BY <1>1 DEF CpuPart, At, Goto
<1>3. q.pc = "wait" /\ q.orig = r.orig /\ q.early = r.early
  BY <1>1 DEF Fields
<1>4. CallInv(q, dev[t], m2, Jobs[t])
  BY <1>1, <1>2, StepCpu
<1> HIDE DEF q, m2
<1> QED BY <1>1, <1>2, <1>3, <1>4, RoundParts DEF Rounds, Prepared, Knobs, knobs

LEMMA DoDeviceRuns ==
  ASSUME Parts, NEW t \in Threads, DeviceRuns(t)
  PROVE  Parts'
<1>1. /\ CallInv(th[t], dev[t], mem[t], Jobs[t]) /\ JobsOf(Jobs[t]) /\ Fields(th[t]) /\ Knobs
      /\ DOMAIN th = Threads
  BY ThreadFacts DEF Calls
<1>2. PICK o \in Outcomes(dev[t], mem[t]) :
         mem' = [mem EXCEPT ![t] = o.mem] /\ th' = [th EXCEPT ![t].comp = o.comp]
  BY DEF DeviceRuns
<1> DEFINE r == th[t]
           q == [r EXCEPT !.comp = o.comp]
<1>3. /\ crashed = "no" /\ dev[t] # NoDesc /\ th' = [th EXCEPT ![t] = q]
      /\ dev' = [dev EXCEPT ![t] = NoDesc] /\ UNCHANGED <<initVars, knobs, exited, crashed>>
  BY <1>1, <1>2 DEF DeviceRuns
<1>4. q.pc = r.pc /\ q.orig = r.orig /\ q.early = r.early
  BY <1>1 DEF Fields
<1>5. CallInv(q, NoDesc, o.mem, Jobs[t])
  BY <1>1, <1>2, <1>3, StepDevice
<1>6. r.pc \in {"cpu", "wait"}
  BY <1>1, <1>3 DEF CallInv, AtDevice
<1> HIDE DEF q
<1> QED BY <1>1, <1>2, <1>3, <1>4, <1>5, <1>6, RoundParts DEF Rounds, Prepared, Knobs, knobs

\* What a call begins with.
Started(r) ==
    [r EXCEPT !.done = 0, !.n = r.job.n, !.rc = "success",
              !.comp.result = IF r.job.op = "cmp" THEN 0 ELSE @]

StartedIs(a, r) ==
    /\ Fields(a) /\ a.job = r.job /\ a.n = r.job.n /\ a.orig = r.orig
    /\ a.early = r.early /\ a.snap = r.snap /\ a.done = 0 /\ a.split = FALSE
    /\ a.ret = r.ret /\ a.comp = [r.comp EXCEPT !.result = IF r.job.op = "cmp" THEN 0 ELSE @]

LEMMA StartFields ==
  ASSUME NEW r, Fields(r), NEW s, s = Started(r), NEW a, a = [s EXCEPT !.split = FALSE]
  PROVE  StartedIs(a, r)
<1>1. /\ Fields(s) /\ s.job = r.job /\ s.n = r.job.n /\ s.orig = r.orig
      /\ s.early = r.early /\ s.snap = r.snap /\ s.done = 0 /\ s.ret = r.ret
      /\ s.comp = [r.comp EXCEPT !.result = IF r.job.op = "cmp" THEN 0 ELSE @]
  BY DEF Fields, Started
<1>2. /\ Fields(a) /\ a.job = s.job /\ a.n = s.n /\ a.orig = s.orig
      /\ a.early = s.early /\ a.snap = s.snap /\ a.done = s.done
      /\ a.ret = s.ret /\ a.split = FALSE /\ a.comp = s.comp
  BY <1>1 DEF Fields
<1> QED BY <1>1, <1>2 DEF StartedIs

\* The call is given to the standard function, dies of the division by num_wqs,
\* or is begun in one descriptor or in a loop.
LEMMA DoBegin ==
  ASSUME Parts, NEW t \in Threads, Begin(t)
  PROVE  Parts'
<1> DEFINE r == th[t]
           s == [r EXCEPT !.done = 0, !.n = r.job.n, !.rc = "success",
                     !.comp.result = IF r.job.op = "cmp" THEN 0 ELSE @]
           cpu == CpuSize(s.job, s.n, csf)
<1>1. /\ CallInv(r, dev[t], mem[t], Jobs[t]) /\ JobsOf(Jobs[t]) /\ CallTypes(r, Jobs[t])
      /\ Fields(r) /\ Knobs /\ Place(r) /\ Portals /\ Calls /\ InitInv
  BY ThreadFacts
<1>2. r.pc = "go" /\ crashed = "no" /\ UNCHANGED <<initVars, knobs, exited, dev, mem>>
  BY DEF Begin, At
<1>3. /\ s.orig = r.orig /\ s.early = r.early /\ s.job = r.job /\ s.n = r.job.n
  BY <1>1 DEF Fields
<1>4. initialized /\ (useStd <=> numWqs = 0) /\ (~r.orig /\ ~r.early => ~useStd)
  BY <1>1, <1>2 DEF Place, InitInv
<1>5. r.job.n \in Nat /\ r.snap \in 0 .. FracDen - 1
  BY <1>1, <1>2, CallFacts DEF CallTypes
<1>6. ~r.orig /\ numWqs > 0 /\ Shared(r.job, r.job.n) => csf \in 0 .. FracDen - 1
  BY <1>2 DEF Begin, Sane, Reads, At
<1>7. ASSUME r.orig, th' = [th EXCEPT ![t] = [s EXCEPT !.pc = "std"]], UNCHANGED crashed
      PROVE  Parts'
  <2> DEFINE q == [s EXCEPT !.pc = "std"]
             p == [r EXCEPT !.pc = "std", !.done = 0, !.n = r.job.n, !.rc = "success",
                       !.comp.result = IF r.job.op = "cmp" THEN 0 ELSE @]
  <2>1. CallInv(p, dev[t], mem[t], Jobs[t])
    BY <1>1, <1>2, StepOriginal
  <2>2. q = p
    BY <1>1 DEF Fields
  <2>3. q.pc = "std" /\ q.orig = r.orig /\ q.early = r.early
    BY <1>3 DEF Fields
  <2> HIDE DEF q, p, s
  <2>4. Others(t) /\ th'[t] = q /\ Calls'
    BY <1>1, <1>2, <1>7, <2>1, <2>2, <2>3, Going DEF q
  <2>5. InitInv' /\ Portals'
    BY <1>1, <1>2, <1>7, <2>3, <2>4, LibStep DEF Setup, Rounds, Prepared, Ended
  <2> QED BY <1>1, <1>2, <1>7, <2>4, <2>5, NoCrash DEF Parts, Knobs, knobs
<1>8. CASE ~r.orig /\ numWqs = 0 /\ crashed' = "division" /\ UNCHANGED th
  <2>1. r.early
    BY <1>4, <1>8
  <2>2. Crash'
    BY <1>2, <1>4, <1>8, <2>1 DEF Crash, CrashExplained, initVars
  <2> QED BY <1>1, <1>2, <1>8, <2>2
          DEF Parts, Knobs, knobs, Calls, InitInv, Portals, PortalsBalanced, initVars
<1>9. ASSUME numWqs > 0, NEW q, th' = [th EXCEPT ![t] = q], UNCHANGED crashed,
             CallInv(q, dev[t], mem[t], Jobs[t]), q.pc \in {"snap", "submit"},
             q.orig = r.orig, q.early = r.early
      PROVE  Parts'
  <2> HIDE DEF s
  <2>1. Others(t) /\ th'[t] = q /\ Calls'
    BY <1>1, <1>2, <1>9, Going
  <2>2. InitInv' /\ Portals'
    BY <1>1, <1>2, <1>4, <1>9, <2>1, LibStep DEF Setup, Rounds, Prepared, Ended
  <2> QED BY <1>1, <1>2, <1>9, <2>1, <2>2, NoCrash DEF Parts, Knobs, knobs
<1>10. ASSUME ~r.orig, numWqs > 0, UNCHANGED crashed,
             th' = [th EXCEPT ![t] = Chunk([s EXCEPT !.split = FALSE], s.n, cpu)]
      PROVE  Parts'
  <2> DEFINE p == [r EXCEPT !.pc = "chunk", !.done = 0, !.n = r.job.n, !.rc = "success",
                       !.comp.result = IF r.job.op = "cmp" THEN 0 ELSE @,
                       !.split = FALSE]
             q == Chunk([s EXCEPT !.split = FALSE], s.n, cpu)
  <2>1. LoopInv(p, dev[t], mem[t], Jobs[t])
    BY <1>1, <1>2, <1>5, StepBegin
  <2> DEFINE a == [s EXCEPT !.split = FALSE]
  <2>2. /\ p.pc = "chunk" /\ p.n = r.job.n /\ p.job = r.job /\ p.split = FALSE
        /\ p.orig = r.orig /\ p.early = r.early /\ p.snap = r.snap /\ p.done = 0
        /\ p.ret = r.ret
        /\ p.comp = [r.comp EXCEPT !.result = IF r.job.op = "cmp" THEN 0 ELSE @]
    BY <1>1 DEF Fields
  <2>3. /\ Fields(a) /\ a.job = r.job /\ a.n = r.job.n /\ a.orig = r.orig
        /\ a.early = r.early /\ a.snap = r.snap /\ a.done = 0 /\ a.split = FALSE
        /\ a.ret = r.ret
        /\ a.comp = [r.comp EXCEPT !.result = IF r.job.op = "cmp" THEN 0 ELSE @]
    <3>1. s = Started(r) /\ a = [s EXCEPT !.split = FALSE] /\ Fields(r)
      BY <1>1 DEF Started
    <3>2. StartedIs(a, r)
      <4> HIDE DEF s, a, r
      <4> QED BY <3>1, StartFields
    <3> QED BY <3>2 DEF StartedIs
  <2>4. q.pc = "submit" /\ q.orig = r.orig /\ q.early = r.early
    BY <1>1 DEF Fields, Chunk
  <2>5. cpu = CpuSize(p.job, p.n, csf) /\ q = Chunk(a, p.n, cpu)
    BY <1>3, <2>2
  <2> HIDE DEF p, q, cpu, a
  <2>6. CallInv(q, dev[t], mem[t], Jobs[t])
    <3>1. /\ Fields(a) /\ a.job = p.job /\ a.n = p.n /\ a.orig = p.orig /\ a.early = p.early
          /\ a.snap = p.snap /\ a.done = p.done /\ a.split = p.split /\ a.ret = p.ret
          /\ a.comp = p.comp
      BY <2>2, <2>3
    <3>2. p.pc = "chunk" /\ p.n \in Nat /\ p.n <= p.n /\ (~p.split => p.n = p.n /\ p.n = p.job.n)
      BY <1>5, <2>2
    <3>3. Shared(p.job, p.n) => csf \in 0 .. FracDen - 1
      BY <1>10, <1>6, <2>2
    <3> HIDE DEF r, s
    <3> QED BY <1>1, <1>5, <2>1, <2>5, <3>1, <3>2, <3>3, StepChunk
  <2> QED BY <1>9, <1>10, <2>4, <2>6 DEF Rounds, Prepared, q
<1>11. ASSUME ~r.orig, numWqs > 0, s.n - cpu > MaxTransfer, UNCHANGED crashed,
              th' = [th EXCEPT ![t] = [s EXCEPT !.pc = "snap", !.split = TRUE]]
       PROVE  Parts'
  <2> DEFINE p == [r EXCEPT !.pc = "snap", !.done = 0, !.n = r.job.n, !.rc = "success",
                       !.comp.result = IF r.job.op = "cmp" THEN 0 ELSE @,
                       !.split = TRUE]
             q == [s EXCEPT !.pc = "snap", !.split = TRUE]
  <2>1. q = p /\ q.pc = "snap" /\ q.orig = r.orig /\ q.early = r.early /\ q.split = TRUE
    BY <1>1 DEF Fields
  <2>2. Backward(r.job) => SplitBackwards(r.job)
    <3>1. SUFFICES ASSUME Backward(r.job) PROVE r.job.n > MaxTransfer
      BY DEF SplitBackwards
    <3>2. r.job.dst \in Nat /\ r.job.src \in Nat
      BY <1>1, <1>2, CallFacts
    <3>3. r.job.op = "move" /\ Overlapping(r.job, r.job.n)
      BY <1>5, <3>1, <3>2 DEF Backward, Overlapping
    <3>4. cpu = 0
      BY <1>3, <3>3 DEF CpuSize, Shared
    <3> QED BY <1>3, <1>5, <1>11, <3>4, DtoParameters
  <2>3. LoopInv(p, dev[t], mem[t], Jobs[t])
    BY <1>1, <1>2, <1>5, <2>2, StepBegin
  <2> HIDE DEF p, q, s, cpu
  <2>4. CallInv(q, dev[t], mem[t], Jobs[t])
    BY <2>1, <2>3 DEF LoopInv, CallInv
  <2> QED BY <1>9, <1>11, <2>1, <2>4 DEF Rounds, q
<1> QED BY <1>7, <1>8, <1>10, <1>11 DEF Begin, Goto

LEMMA DoWait ==
  ASSUME Parts, NEW t \in Threads, Wait(t)
  PROVE  Parts'
<1> DEFINE r == th[t]
           s == [r EXCEPT !.done = @ + Bytes(r), !.rc = r.comp.status]
<1>1. /\ CallInv(r, dev[t], mem[t], Jobs[t]) /\ JobsOf(Jobs[t]) /\ Fields(r) /\ Knobs
  BY ThreadFacts
<1>2. /\ r.pc = "wait" /\ Written(r.comp) /\ crashed = "no"
      /\ UNCHANGED <<initVars, knobs, exited, crashed, dev, mem>>
  BY DEF Wait, At
<1>3. ASSUME NEW p \in {"tune", "after"}, NEW u, NEW q,
             q = [r EXCEPT !.pc = p, !.done = @ + Bytes(r), !.rc = r.comp.status, !.tune = u],
             TuneOk(p, u), th' = [th EXCEPT ![t] = q]
      PROVE  Parts'
  <2>1. CallInv(q, dev[t], mem[t], Jobs[t])
    BY <1>1, <1>2, <1>3, StepWait DEF Ended
  <2>2. q.pc = p /\ q.orig = r.orig /\ q.early = r.early
    BY <1>1, <1>3 DEF Fields
  <2> HIDE DEF s
  <2> QED BY <1>1, <1>2, <1>3, <2>1, <2>2, RoundParts DEF Rounds, Prepared, Ended, Knobs, knobs
<1>4. ASSUME th' = [th EXCEPT ![t] = [s EXCEPT !.pc = "after"]] PROVE Parts'
  <2> DEFINE q == [r EXCEPT !.pc = "after", !.done = @ + Bytes(r), !.rc = r.comp.status,
                            !.tune = r.tune]
  <2>1. [s EXCEPT !.pc = "after"] = q
    BY <1>1 DEF Fields
  <2> HIDE DEF s
  <2> QED BY <1>3, <1>4, <2>1 DEF TuneOk
<1>5. ASSUME NEW dir \in {"less", "more"},
             th' = [th EXCEPT ![t] = [s EXCEPT !.pc = "tune", !.tune.dir = dir]]
      PROVE  Parts'
  <2> DEFINE u == [r.tune EXCEPT !.dir = dir]
             q == [r EXCEPT !.pc = "tune", !.done = @ + Bytes(r), !.rc = r.comp.status,
                            !.tune = u]
  <2>1. [s EXCEPT !.pc = "tune", !.tune.dir = dir] = q
    BY <1>1 DEF Fields
  <2>2. TuneOk("tune", u)
    BY <1>1 DEF TuneOk
  <2> HIDE DEF s
  <2> QED BY <1>3, <1>5, <2>1, <2>2
<1> QED BY <1>4, <1>5 DEF Wait, Goto

\* A thread goes from one step of dsa_wait_and_adjust to the next.
LEMMA TuneParts ==
  ASSUME Parts, NEW t \in Threads, crashed = "no", th[t].pc \in Ended, NEW p \in Ended, NEW u,
         TuneOk(p, u), th' = [th EXCEPT ![t] = [th[t] EXCEPT !.pc = p, !.tune = u]],
         UNCHANGED <<initVars, exited, crashed, dev, mem>>, Knobs',
         torn => torn', p # "move" \/ Remembers([pc |-> p, tune |-> u], torn')
  PROVE  Parts'
<1> DEFINE r == th[t]
           q == [r EXCEPT !.pc = p, !.tune = u]
<1>1. /\ CallInv(r, dev[t], mem[t], Jobs[t]) /\ JobsOf(Jobs[t]) /\ Fields(r)
  BY ThreadFacts
<1>2. q.pc = p /\ q.orig = r.orig /\ q.early = r.early /\ q.tune = u
  BY <1>1 DEF Fields
<1>3. CallInv(q, dev[t], mem[t], Jobs[t])
  BY <1>1, StepTune
<1> HIDE DEF q
<1>4. q.pc # "move" \/ Remembers(q, torn')
  BY <1>2 DEF Remembers
<1>5. th' = [th EXCEPT ![t] = q] /\ crashed' = "no"
  BY DEF q
<1> QED BY <1>1, <1>2, <1>3, <1>4, <1>5, RoundParts DEF Rounds

LEMMA DoTest ==
  ASSUME Parts, NEW t \in Threads, NEW pc \in {"tune", "tune2"}, NEW knob, NEW x, NEW may,
         NEW next \in {"tune2", "after"}, Test(t, pc, knob, x, may, next),
         may => TuneOk("move", [dir |-> th[t].tune.dir, knob |-> knob, seen |-> x]),
         may => Remembers([pc |-> "move",
                           tune |-> [dir |-> th[t].tune.dir, knob |-> knob, seen |-> x]], torn)
  PROVE  Parts'
<1> DEFINE r == th[t]
<1>1. /\ CallTypes(r, Jobs[t]) /\ Fields(r) /\ Knobs
  BY ThreadFacts
<1>2. /\ r.pc = pc /\ crashed = "no" /\ r.pc \in Ended
      /\ UNCHANGED <<initVars, knobs, exited, crashed, dev, mem>>
  BY DEF Test, At, Ended
<1>3. Knobs' /\ torn' = torn
  BY <1>1, <1>2 DEF Knobs, knobs
<1>4. r.tune.dir \in {"less", "more"}
  BY <1>1, <1>2 DEF CallTypes
<1>5. CASE may
  <2> DEFINE u == [dir |-> r.tune.dir, knob |-> knob, seen |-> x]
  <2>1. th' = [th EXCEPT ![t] = [r EXCEPT !.pc = "move", !.tune = u]]
    BY <1>5 DEF Test, Goto
  <2>2. TuneOk("move", u) /\ "move" \in Ended /\ Remembers([pc |-> "move", tune |-> u], torn')
    BY <1>3, <1>5 DEF Ended
  <2> HIDE DEF u
  <2> QED BY <1>2, <1>3, <2>1, <2>2, TuneParts
<1>6. CASE ~may
  <2>1. [r EXCEPT !.pc = next] = [r EXCEPT !.pc = next, !.tune = r.tune]
    BY <1>1 DEF Fields
  <2>2. th' = [th EXCEPT ![t] = [r EXCEPT !.pc = next, !.tune = r.tune]]
    BY <1>6, <2>1 DEF Test, Goto
  <2>3. TuneOk(next, r.tune) /\ next \in Ended
    BY <1>4 DEF TuneOk, Ended
  <2> QED BY <1>2, <1>3, <2>2, <2>3, TuneParts
<1> QED BY <1>5, <1>6

LEMMA DoTestFraction ==
  ASSUME Parts, NEW t \in Threads, TestFraction(t)
  PROVE  Parts'
<1>1. th[t].tune.dir \in {"less", "more"} /\ csf \in Int
  BY ThreadFacts DEF TestFraction, Test, At, CallTypes, Knobs
<1>2. Test(t, "tune", "csf", csf, FractionMay(th[t].tune.dir, csf), "tune2")
  BY DEF TestFraction
<1>3. FractionMay(th[t].tune.dir, csf) =>
         TuneOk("move", [dir |-> th[t].tune.dir, knob |-> "csf", seen |-> csf])
  BY <1>1 DEF TuneOk
<1>4. Remembers([pc |-> "move",
                 tune |-> [dir |-> th[t].tune.dir, knob |-> "csf", seen |-> csf]], torn)
  BY DEF Remembers, Parts, Knobs
<1> QED BY <1>2, <1>3, <1>4, DoTest

LEMMA DoTestSize ==
  ASSUME Parts, NEW t \in Threads, TestSize(t)
  PROVE  Parts'
<1>1. th[t].tune.dir \in {"less", "more"} /\ minSize \in Int
  BY ThreadFacts DEF TestSize, Test, At, CallTypes, Knobs
<1>2. Test(t, "tune2", "min", minSize, SizeMay(th[t].tune.dir, minSize), "after")
  BY DEF TestSize
<1>3. SizeMay(th[t].tune.dir, minSize) =>
         TuneOk("move", [dir |-> th[t].tune.dir, knob |-> "min", seen |-> minSize])
  BY <1>1 DEF TuneOk
<1>4. Remembers([pc |-> "move",
                 tune |-> [dir |-> th[t].tune.dir, knob |-> "min", seen |-> minSize]], torn)
  BY DEF Remembers, Parts, Knobs
<1> QED BY <1>2, <1>3, <1>4, DoTest

LEMMA DoTune ==
  ASSUME Parts, NEW t \in Threads, Tune(t)
  PROVE  Parts'
<1> DEFINE r == th[t]
<1>1. /\ CallTypes(r, Jobs[t]) /\ Knobs
  BY ThreadFacts
<1>2. /\ r.pc = "move" /\ r.pc \in Ended /\ crashed = "no"
      /\ th' = [th EXCEPT ![t] = [r EXCEPT !.pc = "after", !.tune = IdleThread.tune]]
      /\ UNCHANGED <<initVars, exited, crashed, dev, mem>>
  BY DEF Tune, At, Goto, Ended
<1>3. PICK k : k = r.tune
  OBVIOUS
<1>4. /\ k.dir \in {"less", "more"} /\ k.seen \in Int
      /\ \/ k.knob = "csf" /\ FractionMay(k.dir, k.seen)
         \/ k.knob = "min" /\ SizeMay(k.dir, k.seen)
  BY <1>1, <1>2, <1>3 DEF CallTypes
<1>5. PICK x \in {k.seen, IF k.knob = "csf" THEN csf ELSE minSize} :
         /\ csf' = IF k.knob = "csf" THEN Nudged(k.dir, x) ELSE csf
         /\ minSize' = IF k.knob = "min" THEN Nudged(k.dir, x) ELSE minSize
         /\ torn' = (torn \/ x # k.seen)
  BY <1>3 DEF Tune
<1>6. /\ csf \in Int /\ minSize \in Int /\ torn \in BOOLEAN /\ x \in Int
      /\ ~torn => csf \in 0 .. FracDen - 1 /\ minSize \in LowSize .. HighSize
  BY <1>1, <1>4, <1>5 DEF Knobs
<1>7. Remembers(r, torn)
  BY DEF Parts, Calls
<1>8. Nudged(k.dir, x) \in Int
  BY <1>4, <1>6, NudgedInRange
<1>9. csf' \in Int /\ minSize' \in Int /\ torn' \in BOOLEAN
  BY <1>5, <1>6, <1>8
<1>10. ASSUME ~torn' PROVE csf' \in 0 .. FracDen - 1 /\ minSize' \in LowSize .. HighSize
  <2>1. /\ x = k.seen
        /\ csf \in 0 .. FracDen - 1 /\ minSize \in LowSize .. HighSize
        /\ k.knob = "csf" => k.seen \in 0 .. FracDen - 1
        /\ k.knob = "min" => k.seen \in LowSize .. HighSize
    <3>1. x = k.seen /\ ~torn
      BY <1>5, <1>10, Zenon
    <3> QED BY <1>2, <1>3, <1>6, <1>7, <3>1 DEF Remembers
  <2>2. CASE k.knob = "csf"
    <3>1. x \in 0 .. FracDen - 1 /\ FractionMay(k.dir, x)
      BY <1>4, <2>1, <2>2
    <3>2. Nudged(k.dir, x) \in 0 .. FracDen - 1
      BY <1>4, <1>6, <3>1, NudgedInRange
    <3> QED BY <1>5, <1>6, <2>1, <2>2, <3>2
  <2>3. CASE k.knob = "min"
    <3>1. x \in LowSize .. HighSize /\ SizeMay(k.dir, x)
      BY <1>4, <2>1, <2>3
    <3>2. Nudged(k.dir, x) \in LowSize .. HighSize
      BY <1>4, <1>6, <3>1, NudgedInRange
    <3> QED BY <1>5, <1>6, <2>1, <2>3, <3>2
  <2> QED BY <1>4, <2>2, <2>3
<1>11. Knobs'
  BY <1>9, <1>10 DEF Knobs
<1>12. TuneOk("after", IdleThread.tune) /\ "after" \in Ended
  BY DEF TuneOk, Ended
<1>13. torn => torn'
  BY <1>5, Zenon
<1> QED BY <1>2, <1>11, <1>12, <1>13, TuneParts

LEMMA DoAfter ==
  ASSUME Parts, NEW t \in Threads, After(t)
  PROVE  Parts'
<1> DEFINE r == th[t]
<1>1. /\ CallInv(r, dev[t], mem[t], Jobs[t]) /\ JobsOf(Jobs[t]) /\ Fields(r) /\ Knobs
  BY ThreadFacts
<1>2. /\ r.pc = "after" /\ crashed = "no"
      /\ UNCHANGED <<initVars, knobs, exited, crashed, dev, mem>>
  BY DEF After, At
<1>3. ASSUME NEW q, th' = [th EXCEPT ![t] = q], CallInv(q, dev[t], mem[t], Jobs[t]),
             q.pc \in {"chunk", "std", "return"}, q.orig = r.orig, q.early = r.early
      PROVE  Parts'
  BY <1>1, <1>2, <1>3, RoundParts DEF Rounds, Ended, Knobs, knobs
<1>4. ASSUME Again(r), th' = [th EXCEPT ![t] = [r EXCEPT !.pc = "chunk", !.n = @ - r.len]]
      PROVE  Parts'
  <2> DEFINE q == [r EXCEPT !.pc = "chunk", !.n = @ - r.len]
  <2>1. CallInv(q, dev[t], mem[t], Jobs[t])
    BY <1>1, <1>2, <1>4, StepAgain
  <2>2. q.pc = "chunk" /\ q.orig = r.orig /\ q.early = r.early
    BY <1>1 DEF Fields
  <2> QED BY <1>3, <1>4, <2>1, <2>2
<1>5. ASSUME r.job.op = "cmp", r.comp.result # 0,
             th' = [th EXCEPT ![t] = [r EXCEPT !.pc = "return",
                 !.ret = mem[t][r.job.dst + r.done] - mem[t][r.job.src + r.done]]]
      PROVE  Parts'
  <2> DEFINE q == [r EXCEPT !.pc = "return",
                     !.ret = mem[t][r.job.dst + r.done] - mem[t][r.job.src + r.done]]
  <2>1. CallInv(q, dev[t], mem[t], Jobs[t])
    BY <1>1, <1>2, <1>5, StepDiffer
  <2>2. q.pc = "return" /\ q.orig = r.orig /\ q.early = r.early
    BY <1>1 DEF Fields
  <2> QED BY <1>3, <1>5, <2>1, <2>2
<1>6. ASSUME th' = [th EXCEPT ![t] =
                       [r EXCEPT !.pc = IF r.done # r.job.n THEN "std" ELSE "return"]]
      PROVE  Parts'
  <2> DEFINE q == [r EXCEPT !.pc = IF r.done # r.job.n THEN "std" ELSE "return"]
  <2>1. CallInv(q, dev[t], mem[t], Jobs[t])
    BY <1>1, <1>2, StepEnd
  <2>2. q.pc \in {"std", "return"} /\ q.orig = r.orig /\ q.early = r.early
    BY <1>1 DEF Fields
  <2> QED BY <1>3, <1>6, <2>1, <2>2
<1> QED BY <1>4, <1>5, <1>6 DEF After, Goto

LEMMA DoStd ==
  ASSUME Parts, NEW t \in Threads, Std(t)
  PROVE  Parts'
<1> DEFINE r == th[t]
           k == r.job.n - r.done
           q == [r EXCEPT !.pc = "return",
                       !.ret = IF r.job.op = "cmp"
                               THEN Compared(mem[t], r.job.dst + Skip(r), r.job.src + Skip(r), k)
                               ELSE 0]
           m2 == Moved(r.job.op, mem[t], r.job.dst + Skip(r), r.job.src + Skip(r), k)
<1>1. /\ CallInv(r, dev[t], mem[t], Jobs[t]) /\ JobsOf(Jobs[t]) /\ Fields(r) /\ Knobs
      /\ DOMAIN mem = Threads
  BY ThreadFacts DEF Calls
<1>2. /\ r.pc = "std" /\ crashed = "no" /\ th' = [th EXCEPT ![t] = q]
      /\ mem' = [mem EXCEPT ![t] = m2]
      /\ UNCHANGED <<initVars, knobs, exited, crashed, dev>>
  BY <1>1 DEF Std, At, Goto
<1>3. q.pc = "return" /\ q.orig = r.orig /\ q.early = r.early
  BY <1>1 DEF Fields
<1>4. CallInv(q, dev[t], m2, Jobs[t])
  BY <1>1, <1>2, StepStd
<1> HIDE DEF q, m2
<1> QED BY <1>1, <1>2, <1>3, <1>4, RoundParts DEF Rounds, Prepared, Ended, Knobs, knobs

LEMMA DoReturn ==
  ASSUME Parts, NEW t \in Threads, Return(t)
  PROVE  Parts'
<1> DEFINE r == th[t]
           q == [IdleThread EXCEPT !.calls = r.calls, !.comp = r.comp]
<1>1. /\ CallInv(r, dev[t], mem[t], Jobs[t]) /\ Knobs /\ Calls /\ InitInv /\ Portals
  BY ThreadFacts
<1>2. /\ r.pc = "return" /\ crashed = "no" /\ th' = [th EXCEPT ![t] = q]
      /\ mem' = [mem EXCEPT ![t] = NoJob.mem]
      /\ UNCHANGED <<initVars, knobs, exited, crashed, dev>>
  BY DEF Return, At, Goto
<1>3. q.pc = "idle"
  BY DEF IdleThread
<1>4. CallInv(q, dev[t], NoJob.mem, Jobs[t])
  BY <1>1, <1>2, StepReturn
<1> HIDE DEF q
<1>5. Others(t) /\ th'[t] = q /\ Calls'
  BY <1>1, <1>2, <1>3, <1>4, Going
<1>6. InitInv' /\ Portals'
  BY <1>1, <1>2, <1>3, <1>5, LibStep DEF Setup, Rounds, Prepared, Ended
<1> QED BY <1>1, <1>2, <1>5, <1>6, NoCrash DEF Parts, Knobs, knobs

-----------------------------------------------------------------------------
(* The theorems.                                                           *)

LEMMA DtoStep ==
  ASSUME Parts, [Next]_vars
  PROVE  Parts'
<1>1. ASSUME NEW t \in Threads, Step(t) PROVE Parts'
  BY <1>1, DoEnter, DoInitDto, DoWqList, DoAccfg, DoMapWqs, DoBegin, DoSnapshot,
     DoNextChunk, DoBadFraction, DoSubmit, DoCpuPart, DoWait, DoTestFraction, DoTestSize, DoTune, DoAfter, DoStd, DoReturn DEF Step
<1>2. CASE UNCHANGED vars
  BY <1>2, StutterParts DEF Parts
<1> QED BY <1>1, <1>2, DoDeviceRuns, DoCall, DoCleanup DEF Next

\* The invariant of the offload library: what each call has done and has left, what
\* the device has of it, and where init_dto is.
THEOREM DtoInvHolds == Spec => []DtoInv
<1>1. Init => Parts
  BY DtoInit DEF Parts
<1>2. Parts /\ [Next]_vars => Parts'
  BY DtoStep
<1>3. Parts => DtoInv
  BY DtoParts DEF Parts
<1> QED BY <1>1, <1>2, <1>3, PTL DEF Spec

\* For any threads, calls, portals and knobs: the knobs that dsa_wait_and_adjust
\* moves without a lock stay within their bounds unless one thread moves a knob
\* between another's test and its update; nothing of a call is left at the device
\* when it returns; the portals are mapped from init_dto to cleanup_dto; and the
\* library brings the program down only by a call after cleanup_dto, by one that
\* decided for the device before init_dto found none, or by a fraction moved out of
\* its bounds.
THEOREM LibrarySoundHolds == Spec => []LibrarySound
  BY DtoInvHolds, PTL DEF DtoInv

\* For any split between the device and the CPU, any page fault, any refusal of
\* dsa_submit and any moves of the knobs between two rounds of a loop: memset,
\* memcpy, memmove and memcmp leave the buffers as the standard functions would;
\* memcmp finds equal buffers equal, and gives the standard value whenever the
\* device has seen no difference.  Excepted are the moves to a higher overlapping
\* address that are longer than a descriptor, and the value of memcmp when the
\* device reports the difference.
THEOREM ResultsRightHolds == Spec => []ResultsRight
<1>1. DtoInv => ResultsRight
  <2>1. SUFFICES ASSUME DtoInv, NEW t \in Threads, th[t].pc = "return",
                        ~SplitBackwards(th[t].job)
                 PROVE  LET j == th[t].job IN
                        /\ Right(j, mem[t])
                        /\ j.op = "cmp" /\ (Agree(j, j.n) \/ th[t].comp.result = 0) =>
                               th[t].ret = Compared(j.mem, j.dst, j.src, j.n)
    BY DEF ResultsRight
  <2> DEFINE r == th[t]
             j == r.job
  <2>2. CallInv(r, dev[t], mem[t], Jobs[t])
    BY <2>1 DEF DtoInv
  <2>3. /\ JobOk(j) /\ Contents(r, dev[t], mem[t]) /\ Comparisons(r, dev[t])
        /\ Verdict(r, dev[t])
    BY <2>1, <2>2, JobsOfThread, CallFacts
  <2>4. mem[t] = Partly(j, 0 .. j.n - 1)
    BY <2>1, <2>3 DEF Contents
  <2>5. Right(j, mem[t])
    BY <2>3, <2>4, AllDone DEF Right
  <2>6. j.op = "cmp" /\ Agree(j, j.n) => r.ret = Compared(j.mem, j.dst, j.src, j.n)
    BY <2>3 DEF Comparisons, Equal, Agree, Compared
  <2>7. j.op = "cmp" /\ r.comp.result = 0 => r.ret = Compared(j.mem, j.dst, j.src, j.n)
    BY <2>1, <2>3 DEF Verdict
  <2> QED BY <2>5, <2>6, <2>7
<1> QED BY <1>1, DtoInvHolds, PTL
==============================================================================
