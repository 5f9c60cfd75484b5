-------------------------- MODULE SingleCopyProofs --------------------------
(* The single-queue copy programs, for any page counts, descriptors, batch  *)
(* sizes and failures.                                                      *)
EXTENDS SingleCopy, FiniteSetTheorems, WellFoundedInduction, TLAPS

-----------------------------------------------------------------------------
(* Arithmetic, bags, lists.                                                *)

\* A set of naturals that is not empty has a least element.
LEMMA LeastNat ==
  ASSUME NEW S \in SUBSET Nat, S # {}
  PROVE  \E x \in S : \A y \in S : x <= y
<1> DEFINE R == {p \in Nat \X Nat : p[1] < p[2]}
<1>1. IsWellFoundedOn(R, Nat)
  BY NatLessThanWellFounded, Zenon DEF OpToRel
<1> HIDE DEF R
<1>2. PICK x \in S : \A y \in S : ~(<<y, x>> \in R)
  BY <1>1, WFMin
<1>3. ASSUME NEW y \in S PROVE x <= y
  <2>1. x \in Nat /\ y \in Nat
    OBVIOUS
  <2>2. y < x => <<y, x>> \in R
    BY <2>1 DEF R
  <2> QED BY <1>2, <2>1, <2>2
<1> QED BY <1>3

\* What holds of 0, and of a number when it holds of the one before, holds up
\* to n: Good is the set of the numbers it holds of.
LEMMA UpTo ==
  ASSUME NEW n \in Nat, NEW Good, 0 \in Good,
         \A k \in 1 .. n : k - 1 \in Good => k \in Good
  PROVE  \A k \in 0 .. n : k \in Good
<1> DEFINE Bad == {k \in 0 .. n : k \notin Good}
<1> SUFFICES ASSUME Bad # {} PROVE FALSE
  OBVIOUS
<1>1. Bad \in SUBSET Nat
  OBVIOUS
<1>2. PICK k \in Bad : \A j \in Bad : k <= j
  BY <1>1, LeastNat
<1>3. k \in 1 .. n /\ k - 1 \in 0 .. n
  BY <1>2
<1>4. k - 1 \in Good
  BY <1>2, <1>3
<1> QED BY <1>2, <1>3, <1>4

LEMMA Least2 ==
  ASSUME NEW a \in Int, NEW b \in Int
  PROVE  Min({a, b}) = IF a <= b THEN a ELSE b
  BY DEF Min

LEMMA Division ==
  ASSUME NEW a \in Nat \ {0}, NEW m \in Nat \ {0}
  PROVE  /\ CeilDiv(a, m) \in Nat \ {0} /\ CeilDiv(a, m) <= a
         /\ a <= CeilDiv(a, m) * m /\ CeilDiv(a, m) * m < a + m
<1> DEFINE d == (a + m - 1) \div m
<1>1. d \in Nat /\ d * m <= a + m - 1 /\ a + m - 1 < d * m + m
  BY SMT
<1>2. CeilDiv(a, m) = d
  BY DEF CeilDiv
<1> HIDE DEF d
<1>3. d # 0
  <2>1. d = 0 => d * m = 0
    OBVIOUS
  <2> QED BY <1>1, <2>1
<1>4. d <= a
  <2> SUFFICES ASSUME d >= a + 1 PROVE FALSE
    BY <1>1
  <2>1. d * m >= (a + 1) * m
    BY <1>1, SMT
  <2>2. (a + 1) * m = a * m + m /\ a * m \in Nat /\ a * m >= a
    BY SMT
  <2> QED BY <1>1, <2>1, <2>2
<1> QED BY <1>1, <1>2, <1>3, <1>4

LEMMA Products ==
  ASSUME NEW a \in Nat, NEW b \in Nat, NEW m \in Nat
  PROVE  /\ a * m \in Nat /\ (a + 1) * m = a * m + m
         /\ a <= b => a * m <= b * m
         /\ a < b => a * m + m <= b * m
  BY SMT

LEMMA BagPlus ==
  ASSUME NEW B, IsABag(B), NEW e
  PROVE  /\ IsABag(B (+) SetToBag({e}))
         /\ BagToSet(B (+) SetToBag({e})) = BagToSet(B) \cup {e}
         /\ e \notin BagToSet(B) => (B (+) SetToBag({e}))[e] = 1
         /\ \A x \in BagToSet(B) : x # e => (B (+) SetToBag({e}))[x] = B[x]
  BY DEF IsABag, BagToSet, SetToBag, (+)

LEMMA BagMinus ==
  ASSUME NEW B, IsABag(B), NEW e, BagIn(e, B)
  PROVE  /\ IsABag(B (-) SetToBag({e}))
         /\ BagToSet(B (-) SetToBag({e})) \subseteq BagToSet(B)
         /\ B[e] = 1 => e \notin BagToSet(B (-) SetToBag({e}))
         /\ \A x \in BagToSet(B) : x # e => x \in BagToSet(B (-) SetToBag({e})) /\ (B (-) SetToBag({e}))[x] = B[x]
  BY DEF IsABag, BagToSet, SetToBag, (-), BagIn

LEMMA Removed ==
  ASSUME NEW S, NEW s \in Seq(S), NEW p \in 1 .. Len(s)
  PROVE  /\ RemoveAt(s, p) \in Seq(S) /\ Len(RemoveAt(s, p)) = Len(s) - 1
         /\ \A k \in 1 .. Len(s) - 1 : RemoveAt(s, p)[k] = IF k < p THEN s[k] ELSE s[k + 1]
<1> DEFINE a == SubSeq(s, 1, p - 1)
           b == SubSeq(s, p + 1, Len(s))
<1>1. a \in Seq(S) /\ Len(a) = p - 1 /\ \A k \in 1 .. p - 1 : a[k] = s[k]
  OBVIOUS
<1>2. b \in Seq(S) /\ Len(b) = Len(s) - p /\ \A k \in 1 .. Len(s) - p : b[k] = s[p + k]
  OBVIOUS
<1>3. RemoveAt(s, p) = a \o b
  BY DEF RemoveAt
<1> HIDE DEF a, b
<1> QED BY <1>1, <1>2, <1>3, SMTT(40)

-----------------------------------------------------------------------------

(* random_arr returns a permutation of the pages.                          *)

Exchanged(a, p, q) == [a EXCEPT ![p] = a[q], ![q] = a[p]]

Onto(n) == {a \in [1 .. n -> 1 .. n] : \A p \in 1 .. n : \E k \in 1 .. n : a[k] = p}

LEMMA ExchangeOnto ==
  ASSUME NEW n \in Nat, NEW a \in Onto(n), NEW p \in 1 .. n, NEW q \in 1 .. n
  PROVE  Exchanged(a, p, q) \in Onto(n)
<1> DEFINE b == Exchanged(a, p, q)
<1>1. a \in [1 .. n -> 1 .. n]
  BY DEF Onto
<1>2. /\ b \in [1 .. n -> 1 .. n]
      /\ b[q] = a[p] /\ b[p] = IF p = q THEN a[p] ELSE a[q]
      /\ \A k \in 1 .. n : k # p /\ k # q => b[k] = a[k]
  BY <1>1 DEF Exchanged
<1> HIDE DEF b
<1>3. ASSUME NEW v \in 1 .. n PROVE \E k \in 1 .. n : b[k] = v
  <2>1. PICK k \in 1 .. n : a[k] = v
    BY DEF Onto
  <2>2. CASE k = p
    BY <1>2, <2>1, <2>2
  <2>3. CASE k = q
    BY <1>2, <2>1, <2>3
  <2>4. CASE k # p /\ k # q
    BY <1>2, <2>1, <2>4
  <2> QED BY <2>2, <2>3, <2>4
<1>4. b \in Onto(n)
  BY <1>2, <1>3 DEF Onto
<1> QED BY <1>4 DEF b

\* The loop of random_arr has a result after each of its steps.
LEMMA ExchangesExist ==
  ASSUME NEW n \in Nat, NEW pick \in [1 .. n -> 1 .. n]
  PROVE  \E g : g = [k \in 0 .. n |-> IF k = 0 THEN [p \in 1 .. n |-> p]
                                      ELSE Exchanged(g[k - 1], k, pick[k])]
<1> DEFINE Step(g, k) == IF k = 0 THEN [p \in 1 .. n |-> p] ELSE Exchanged(g[k - 1], k, pick[k])
           Good == {m \in Nat : \E g : g = [k \in 0 .. m |-> Step(g, k)]}
<1>1. 0 \in Good
  <2> DEFINE g == [k \in 0 .. 0 |-> [p \in 1 .. n |-> p]]
  <2>1. g = [k \in 0 .. 0 |-> Step(g, k)]
    OBVIOUS
  <2> QED BY <2>1
<1>2. ASSUME NEW m \in 1 .. n, m - 1 \in Good PROVE m \in Good
  <2>1. PICK g : g = [k \in 0 .. m - 1 |-> Step(g, k)]
    BY <1>2
  <2> DEFINE h == [k \in 0 .. m |-> IF k = m THEN Step(g, m) ELSE g[k]]
  <2>2. ASSUME NEW k \in 0 .. m PROVE h[k] = Step(h, k)
    <3>1. k # 0 => h[k - 1] = g[k - 1]
      OBVIOUS
    <3>2. h[k] = Step(g, k)
      <4>1. CASE k = m
        BY <4>1
      <4>2. CASE k # m
        <5>1. k \in 0 .. m - 1
          BY <4>2
        <5>2. g[k] = Step(g, k)
          BY <2>1, <5>1, Zenon
        <5> HIDE DEF Step
        <5> QED BY <4>2, <5>2
      <4> QED BY <4>1, <4>2
    <3>3. Step(h, k) = Step(g, k)
      <4> HIDE DEF h
      <4> QED BY <3>1
    <3> QED BY <3>2, <3>3
  <2>3. h = [k \in 0 .. m |-> Step(h, k)]
    <3> DEFINE f == [k \in 0 .. m |-> Step(h, k)]
    <3>1. \A k \in 0 .. m : h[k] = f[k]
      <4> HIDE DEF h, Step
      <4> QED BY <2>2
    <3>2. h = [k \in 0 .. m |-> h[k]] /\ f = [k \in 0 .. m |-> f[k]]
      OBVIOUS
    <3> HIDE DEF h, f
    <3>3. h = f
      BY <3>1, <3>2
    <3> QED BY <3>3 DEF f
  <2>4. m \in Nat
    OBVIOUS
  <2> HIDE DEF h, Step
  <2> QED BY <2>3, <2>4
<1>3. n \in Good
  <2> HIDE DEF Good
  <2>1. \A k \in 0 .. n : k \in Good
    BY <1>1, <1>2, UpTo
  <2> QED BY <2>1
<1> QED BY <1>3

LEMMA RandomArrOnto ==
  ASSUME NEW n \in Nat, NEW pick \in [1 .. n -> 1 .. n]
  PROVE  RandomArr(n, pick) \in Onto(n)
<1> DEFINE Is(g) == g = [k \in 0 .. n |-> IF k = 0 THEN [p \in 1 .. n |-> p]
                                          ELSE Exchanged(g[k - 1], k, pick[k])]
           arr == CHOOSE g : Is(g)
<1>1. RandomArr(n, pick) = arr[n]
  BY DEF RandomArr, Exchanged
<1>2. Is(arr)
  <2>1. \E g : Is(g)
    BY ExchangesExist
  <2> HIDE DEF Is
  <2> QED BY <2>1
<1>3. /\ arr[0] = [p \in 1 .. n |-> p]
      /\ \A k \in 1 .. n : arr[k] = Exchanged(arr[k - 1], k, pick[k])
  <2> HIDE DEF arr
  <2>1. \A k \in 0 .. n : arr[k] = IF k = 0 THEN [p \in 1 .. n |-> p]
                                   ELSE Exchanged(arr[k - 1], k, pick[k])
    BY <1>2, Zenon
  <2>2. 0 \in 0 .. n /\ \A k \in 1 .. n : k \in 0 .. n /\ k # 0
    OBVIOUS
  <2> QED BY <2>1, <2>2, Zenon
<1> HIDE DEF arr
<1> DEFINE Good == {k \in Nat : arr[k] \in Onto(n)}
<1>4. 0 \in Good
  <2>1. [p \in 1 .. n |-> p] \in Onto(n)
    BY DEF Onto
  <2> QED BY <1>3, <2>1
<1>5. ASSUME NEW k \in 1 .. n, k - 1 \in Good PROVE k \in Good
  <2>1. Exchanged(arr[k - 1], k, pick[k]) \in Onto(n)
    BY <1>5, ExchangeOnto
  <2> QED BY <1>3, <2>1
<1>6. n \in Good
  <2> HIDE DEF Good
  <2>1. \A k \in 0 .. n : k \in Good
    BY <1>4, <1>5, UpTo
  <2> QED BY <2>1
<1> QED BY <1>1, <1>6

-----------------------------------------------------------------------------
(* The rounds of dsa_copy and the pages of a descriptor.                   *)

LEMMA JobFacts ==
  ASSUME job \in Jobs
  PROVE  /\ job.npages \in Nat \ {0} /\ NumDescs \in Nat \ {0} /\ MaxBatch \in Nat \ {0}
         /\ LoopTimes \in Nat \ {0} /\ (~Loops => LoopTimes = 1)
         /\ Pages = 1 .. job.npages /\ None \notin Descs
<1>1. job.npages \in Nat \ {0} /\ NumDescs \in Nat \ {0} /\ MaxBatch \in Nat \ {0}
  BY SingleParameters
<1>2. CeilDiv(job.npages, NumDescs) \in Nat \ {0}
  BY <1>1, Division
<1> QED BY <1>1, <1>2 DEF LoopTimes, Pages, None, Descs

LEMMA RoundFacts ==
  ASSUME job \in Jobs, round \in Nat, round < LoopTimes
  PROVE  /\ Nents \in 1 .. job.npages
         /\ Loops => /\ Nents <= NumDescs /\ round * NumDescs \in Nat
                     /\ round * NumDescs + Nents <= job.npages
                     /\ round + 1 < LoopTimes => Nents = NumDescs
                     /\ round + 1 = LoopTimes => round * NumDescs + Nents = job.npages
         /\ ~Loops => /\ round = 0 /\ LoopTimes = 1
                      /\ job.npages <= Nents * MaxBatch
                      /\ Nents * MaxBatch < job.npages + MaxBatch
<1>1. /\ job.npages \in Nat \ {0} /\ NumDescs \in Nat \ {0} /\ MaxBatch \in Nat \ {0}
      /\ LoopTimes \in Nat \ {0} /\ (~Loops => LoopTimes = 1)
  BY JobFacts
<1>2. CASE ~Loops
  <2>1. Nents = CeilDiv(job.npages, MaxBatch) /\ LoopTimes = 1 /\ round = 0
    BY <1>1, <1>2 DEF Nents
  <2>2. /\ CeilDiv(job.npages, MaxBatch) \in Nat \ {0}
        /\ CeilDiv(job.npages, MaxBatch) <= job.npages
        /\ job.npages <= CeilDiv(job.npages, MaxBatch) * MaxBatch
        /\ CeilDiv(job.npages, MaxBatch) * MaxBatch < job.npages + MaxBatch
    BY <1>1, Division
  <2> QED BY <1>1, <1>2, <2>1, <2>2
<1>3. CASE Loops
  <2> DEFINE t == LoopTimes
             b == round * NumDescs
  <2>1. b \in Nat /\ (round + 1) * NumDescs = b + NumDescs
    BY <1>1, Products
  <2>2. b < job.npages /\ (round + 1 < t => b + NumDescs <= job.npages)
                       /\ (round + 1 = t => job.npages <= b + NumDescs)
    <3>1. CASE job.npages = 1
      <4>1. t = 1 /\ round = 0
        BY <1>1, <3>1 DEF LoopTimes
      <4>2. b = 0
        BY <1>1, <4>1
      <4> QED BY <1>1, <3>1, <4>1, <4>2
    <3>2. CASE job.npages > 1
      <4>1. t = CeilDiv(job.npages, NumDescs)
        BY <1>3, <3>2 DEF LoopTimes
      <4>2. job.npages <= t * NumDescs /\ t * NumDescs < job.npages + NumDescs
        BY <1>1, <4>1, Division
      <4>3. b + NumDescs <= t * NumDescs
        BY <1>1, Products
      <4>4. round + 1 < t => b + NumDescs + NumDescs <= t * NumDescs
        <5>1. round + 1 \in Nat /\ t \in Nat /\ NumDescs \in Nat
          BY <1>1
        <5>2. round + 1 < t => (round + 1) * NumDescs + NumDescs <= t * NumDescs
          BY <5>1, Products
        <5> QED BY <2>1, <5>2
      <4>5. t * NumDescs \in Nat
        BY <1>1, Products
      <4>6. round + 1 = t => t * NumDescs = b + NumDescs
        BY <2>1
      <4> HIDE DEF b, t
      <4> QED BY <1>1, <2>1, <4>2, <4>3, <4>4, <4>5, <4>6
    <3> QED BY <1>1, <3>1, <3>2
  <2>3. Nents = Min({job.npages - b, NumDescs})
    BY <1>3 DEF Nents
  <2> HIDE DEF b, t
  <2>4. Nents = IF job.npages - b <= NumDescs THEN job.npages - b ELSE NumDescs
    BY <1>1, <2>1, <2>3, Least2
  <2>5. Nents \in 1 .. job.npages /\ Nents <= NumDescs /\ b + Nents <= job.npages
    BY <1>1, <2>1, <2>2, <2>4
  <2>6. (round + 1 < t => Nents = NumDescs) /\ (round + 1 = t => b + Nents = job.npages)
    BY <1>1, <2>1, <2>2, <2>4
  <2> QED BY <1>3, <2>1, <2>5, <2>6 DEF b, t
<1> QED BY <1>2, <1>3

\* The scatter-list entries given to the first j descriptors of the round.
Upto(j) == IF Loops THEN round * NumDescs + j ELSE j * MaxBatch

LEMMA ChunkFacts ==
  ASSUME job \in Jobs, order \in [Pages -> Pages], round \in Nat, round < LoopTimes,
         i \in Nat, i < Nents
  PROVE  /\ NextChunk \subseteq Pages
         /\ \A k \in Pages : k <= Upto(i + 1) => k <= Upto(i) \/ order[k] \in NextChunk
<1>1. /\ job.npages \in Nat \ {0} /\ NumDescs \in Nat \ {0} /\ MaxBatch \in Nat \ {0}
      /\ Pages = 1 .. job.npages
  BY JobFacts
<1>2. Nents \in Nat
  BY RoundFacts, <1>1
<1> DEFINE first == IF Loops THEN round * NumDescs + i ELSE i * MaxBatch
           size == IF Loops THEN 1 ELSE Min({job.npages - i * MaxBatch, MaxBatch})
<1>3. NextChunk = {order[k] : k \in first + 1 .. first + size}
  BY DEF NextChunk
<1>4. /\ first \in Nat /\ size \in Nat /\ first + size <= job.npages
      /\ first = Upto(i)
      /\ \A k \in Pages : k <= Upto(i + 1) => k <= first + size
  <2>1. CASE Loops
    <3>1. round * NumDescs \in Nat /\ round * NumDescs + Nents <= job.npages
      BY <2>1, RoundFacts
    <3> QED BY <1>1, <1>2, <2>1, <3>1 DEF Upto
  <2>2. CASE ~Loops
    <3> DEFINE b == i * MaxBatch
    <3>1. b \in Nat /\ (i + 1) * MaxBatch = b + MaxBatch /\ b + MaxBatch <= Nents * MaxBatch
      BY <1>1, <1>2, Products
    <3>2. Nents * MaxBatch < job.npages + MaxBatch /\ Nents * MaxBatch \in Nat
      BY <1>1, <1>2, <2>2, RoundFacts, Products
    <3>3. first = b /\ size = Min({job.npages - b, MaxBatch}) /\ Upto(i) = b /\ Upto(i + 1) = (i + 1) * MaxBatch
      BY <2>2 DEF Upto
    <3> DEFINE c == (i + 1) * MaxBatch
               e == Nents * MaxBatch
    <3>4. /\ b \in Nat /\ e \in Nat /\ c = b + MaxBatch /\ b + MaxBatch <= e
          /\ e < job.npages + MaxBatch /\ Upto(i + 1) = c
      BY <3>1, <3>2, <3>3
    <3> HIDE DEF b, c, e, first, size
    <3>5. size = IF job.npages - b <= MaxBatch THEN job.npages - b ELSE MaxBatch
      BY <1>1, <3>1, <3>3, Least2
    <3>6. first = b
      BY <3>3
    <3>7. b < job.npages /\ size \in Nat /\ first + size <= job.npages
      BY <1>1, <3>5, <3>4, <3>6
    <3>8. \A k \in Pages : k <= Upto(i + 1) => k <= first + size
      BY <1>1, <3>5, <3>4, <3>6
    <3> QED BY <3>3, <3>7, <3>8, <3>4
  <2> QED BY <2>1, <2>2
<1> HIDE DEF first, size
<1>5. \A k \in first + 1 .. first + size : k \in Pages
  BY <1>1, <1>4
<1>6. \A k \in Pages : k <= first + size => k <= first \/ k \in first + 1 .. first + size
  BY <1>1, <1>4
<1> QED BY <1>3, <1>4, <1>5, <1>6

-----------------------------------------------------------------------------
(* What a step leaves alone.                                               *)

LEMMA JobKept ==
  ASSUME job' = job
  PROVE  /\ Pages' = Pages /\ Loops' = Loops /\ LoopTimes' = LoopTimes
         /\ round' = round => Nents' = Nents /\ (i' = i => \A k : Given(k)' = Given(k))
  BY DEF Pages, Loops, LoopTimes, Nents, Given

LEMMA ListKept ==
  ASSUME list' = list
  PROVE  Listed' = Listed /\ Open' = Open
  BY DEF Listed, Open

LEMMA QueueKept ==
  ASSUME queue' = queue
  PROVE  AtDevice' = AtDevice
  BY DEF AtDevice

LEMMA FaultsGrow ==
  ASSUME job' = job, faults \subseteq faults'
  PROVE  (Waits' => Waits) /\ (Clean' => Clean) /\ (Clean => Waits)
  BY JobKept DEF Waits, Clean

LEMMA NoEntries ==
  ASSUME list = <<>>
  PROVE  Listed = {} /\ Open = {}
  BY DEF Listed, Open

LEMMA EntryFacts ==
  ASSUME NEW e \in Entry
  PROVE  /\ e.desc \in Descs \cup {None}
         /\ [e EXCEPT !.done = TRUE] \in Entry
         /\ [e EXCEPT !.done = TRUE].desc = e.desc /\ [e EXCEPT !.done = TRUE].done
  BY DEF Entry

LEMMA NewEntry ==
  ASSUME NEW d \in Descs \cup {None}
  PROVE  [desc |-> d, done |-> FALSE] \in Entry
  BY DEF Entry

LEMMA OpenFacts ==
  ASSUME TypeOK
  PROVE  /\ list \in Seq(Entry) /\ DOMAIN list = 1 .. Len(list)
         /\ Open \subseteq Listed /\ Listed \subseteq Descs \cup {None}
         /\ IsFiniteSet(Open)
<1>1. list \in Seq(Entry) /\ DOMAIN list = 1 .. Len(list)
  BY DEF TypeOK
<1>2. Open \subseteq Listed /\ Listed \subseteq Descs \cup {None}
  <2>1. ASSUME NEW k \in DOMAIN list PROVE list[k].desc \in Descs \cup {None}
    <3>1. list[k] \in Entry
      BY <1>1
    <3> QED BY <3>1, EntryFacts
  <2> QED BY <2>1 DEF Open, Listed
<1>3. IsFiniteSet(Descs \cup {None})
  <2>1. IsFiniteSet(Descs)
    BY SingleParameters, FS_Interval DEF Descs
  <2> QED BY <2>1, FS_AddElement
<1> QED BY <1>1, <1>2, <1>3, FS_Subset

LEMMA InitInv ==
  ASSUME Init
  PROVE  SingleInv
<1>1. job \in Jobs /\ /\ job.npages \in Nat \ {0} /\ LoopTimes \in Nat \ {0}
      /\ Pages = 1 .. job.npages
  BY JobFacts DEF Init
<1>2. order \in Onto(job.npages)
  <2>1. CASE job.shuffled
    <3>1. PICK pick \in [1 .. job.npages -> 1 .. job.npages] : order = RandomArr(job.npages, pick)
      BY <2>1 DEF Init
    <3> QED BY <1>1, <3>1, RandomArrOnto
  <2>2. CASE ~job.shuffled
    BY <1>1, <2>2 DEF Init, Onto
  <2> QED BY <2>1, <2>2
<1>3. Listed = {} /\ Open = {} /\ AtDevice = {} /\ IsABag(queue)
  BY NoEntries DEF Init, AtDevice, BagToSet, EmptyBag, SetToBag, IsABag
<1>4. TypeOK
  <2>1. order \in [Pages -> Pages]
    BY <1>1, <1>2 DEF Onto
  <2>2. list \in Seq(Entry) /\ pos \in 1 .. Len(list) + 1
    BY DEF Init
  <2>3. status \in [Descs -> {"none", "success", "error"}] /\ chunk \in [Descs -> SUBSET Pages]
    BY DEF Init
  <2>4. /\ areas \in {"none", "live", "freed", "leaked"}
        /\ tables \subseteq 1 .. 4 /\ mapped \subseteq 1 .. 4 /\ chan \in BOOLEAN
        /\ round \in 0 .. LoopTimes /\ i \in 0 .. job.npages
        /\ free \subseteq Descs /\ copied \subseteq Pages
    <3>1. /\ areas = "none" /\ tables = {} /\ mapped = {} /\ chan = FALSE /\ round = 0 /\ i = 0
          /\ free = Descs /\ copied = {}
      BY DEF Init
    <3>2. chan \in BOOLEAN
      BY <3>1, Zenon
    <3>3. round \in 0 .. LoopTimes /\ i \in 0 .. job.npages
      BY <1>1, <3>1
    <3> QED BY <3>1, <3>2, <3>3
  <2> QED BY <1>1, <1>3, <2>1, <2>2, <2>3, <2>4 DEF TypeOK
<1>5. RoundInv /\ MappingInv
  BY DEF Init, RoundInv, MappingInv, Setup, Copying
<1>6. EntryInv
  BY <1>3 DEF Init, EntryInv, DescriptorsKept, Copying
<1>7. DeviceInv
  BY <1>3 DEF Init, DeviceInv
<1>8. PagesInv
  BY <1>1, <1>2, <1>3 DEF Init, PagesInv, Copying, Onto
<1> QED BY <1>4, <1>5, <1>6, <1>7, <1>8 DEF SingleInv

-----------------------------------------------------------------------------
(* my_init up to dsa_copy.                                                 *)

SetupAction == InitRegion \/ InitDsa \/ Test \/ VmallocToSgtable \/ SgtableToDmaMap

LEMMA SetupStep ==
  ASSUME SingleInv, SetupAction
  PROVE  SingleInv'
<1> USE DEF SetupAction
<1>1. /\ UNCHANGED <<job, order, round, i, list, pos, pollEntry, free, status, chunk, queue, copied>>
      /\ pc \in Setup /\ pc' \in Setup \cup {"notloaded", "alloc", "oops"}
      /\ faults \subseteq faults' /\ faults' \subseteq faults \cup {"chan", "test", "tables", "map"}
      /\ pc' \in Setup => faults' \subseteq faults \cup {"chan", "test", "tables"}
  BY DEF InitRegion, InitDsa, Test, VmallocToSgtable, SgtableToDmaMap, loopVars, descVars, deviceVars,
         setupVars, Setup
<1>2. /\ TypeOK /\ round = 0 /\ i = 0 /\ list = <<>> /\ faults \subseteq {"chan", "test", "tables"}
      /\ pollEntry \in Nat
  BY <1>1 DEF SingleInv, RoundInv
<1>3. /\ job \in Jobs /\ Pages' = Pages /\ LoopTimes' = LoopTimes /\ Nents' = Nents
      /\ LoopTimes \in Nat \ {0} /\ Pages = 1 .. job.npages /\ job.npages \in Nat
      /\ Nents \in 1 .. job.npages
      /\ NumDescs \in Nat /\ MaxBatch \in Nat
  <2>1. /\ job \in Jobs /\ LoopTimes \in Nat \ {0} /\ Pages = 1 .. job.npages /\ job.npages \in Nat
        /\ NumDescs \in Nat /\ MaxBatch \in Nat
    BY <1>2, JobFacts DEF TypeOK
  <2>2. Nents \in 1 .. job.npages
    BY <1>2, <2>1, RoundFacts
  <2> QED BY <1>1, <2>1, <2>2, JobKept
<1>4. Listed = {} /\ Open = {} /\ Listed' = {} /\ Open' = {} /\ AtDevice' = AtDevice
  BY <1>1, <1>2, NoEntries, ListKept, QueueKept
<1>5. DeviceInv /\ AtDevice = {}
  BY <1>1, <1>2 DEF SingleInv, Waits, DeviceInv
<1>6. TypeOK'
  <2>1. chan' \in BOOLEAN
    <3>1. chan \in BOOLEAN
      BY <1>2 DEF TypeOK
    <3> QED BY <3>1, Zenon DEF InitRegion, InitDsa, Test, VmallocToSgtable, SgtableToDmaMap, setupVars
  <2>2. (areas \in {"none", "live", "freed", "leaked"})'
    <3>1. areas \in {"none", "live", "freed", "leaked"}
      BY <1>2 DEF TypeOK
    <3> QED BY <3>1 DEF InitRegion, InitDsa, Test, VmallocToSgtable, SgtableToDmaMap, setupVars
  <2>3. tables' \subseteq 1 .. 4 /\ mapped' \subseteq 1 .. 4
    <3>1. tables \subseteq 1 .. 4 /\ mapped \subseteq 1 .. 4
      BY <1>2 DEF TypeOK
    <3>2. /\ tables' \subseteq tables \cup {1, 2, 3, 4}
          /\ mapped' \subseteq mapped \cup {1, 2, 3}
      BY DEF InitRegion, InitDsa, Test, VmallocToSgtable, SgtableToDmaMap, setupVars
    <3> QED BY <3>1, <3>2
  <2> QED BY <1>1, <1>2, <1>3, <1>4, <2>1, <2>2, <2>3 DEF TypeOK
<1>7. RoundInv'
  BY <1>1, <1>2, <1>3 DEF RoundInv, Setup, Copying
<1>8. EntryInv'
  <2>1. free' = Descs
    BY <1>1, <1>4 DEF SingleInv, EntryInv, DescriptorsKept, Setup
  <2>2. list' = <<>> /\ pc' \notin {"submit", "poll"} /\ "alloc" \notin faults'
    BY <1>1, <1>2 DEF Setup
  <2> QED BY <1>4, <2>1, <2>2 DEF EntryInv, DescriptorsKept
<1>9. DeviceInv'
  <2>1. Cardinality({}) = 0
    BY FS_EmptySet
  <2> QED BY <1>1, <1>2, <1>4, <1>5, <2>1 DEF DeviceInv, Setup
<1>10. Clean' => PagesInv'
  <2> SUFFICES ASSUME Clean' PROVE PagesInv'
    OBVIOUS
  <2>1. PagesInv
    BY <1>1, FaultsGrow DEF SingleInv
  <2>2. \A k \in Pages : ~Given(k)'
    <3>1. 0 * NumDescs = 0 /\ 0 * MaxBatch = 0
      BY <1>3
    <3> QED BY <1>1, <1>2, <1>3, <3>1 DEF Given
  <2>3. pc' \notin {"unmap", "compare"}
    BY <1>1 DEF Setup
  <2> QED BY <1>1, <1>3, <1>4, <1>5, <2>1, <2>2, <2>3 DEF PagesInv
<1>11. MappingInv'
  <2>1. MappingInv
    BY DEF SingleInv
  <2>2. CASE InitRegion
    BY <2>1, <2>2 DEF InitRegion, MappingInv, Setup
  <2>3. CASE InitDsa
    BY <2>1, <2>3 DEF InitDsa, MappingInv, Setup
  <2>4. CASE Test
    <3>1. /\ mapped = {} /\ areas' # "freed" /\ pc' = "tables"
          /\ mapped' = mapped \/ (mapped' = mapped \cup {3} /\ "test" \in faults')
      <4>1. mapped = {} /\ areas # "freed"
        BY <2>1, <2>4 DEF Test, MappingInv
      <4>2. areas' = areas /\ pc' = "tables"
        BY <2>4 DEF Test
      <4>3. mapped' = mapped \/ (mapped' = mapped \cup {3} /\ "test" \in faults')
        BY <2>4 DEF Test
      <4> QED BY <4>1, <4>2, <4>3
    <3>2. mapped' \subseteq {3} /\ (3 \in mapped' => "test" \in faults')
      BY <3>1
    <3> QED BY <3>1, <3>2 DEF MappingInv
  <2>5. CASE VmallocToSgtable
    BY <2>1, <2>5 DEF VmallocToSgtable, MappingInv, Setup
  <2>6. CASE SgtableToDmaMap
    <3>1. /\ mapped' \subseteq mapped \cup {1, 2} /\ areas' # "freed" /\ pc' \in {"alloc", "oops"}
          /\ "tables" \in faults \/ {1, 2} \subseteq tables
          /\ tables' = tables
      BY <2>1, <2>6 DEF SgtableToDmaMap, MappingInv, setupVars
    <3>2. mapped' \subseteq {1, 2, 3} /\ (3 \in mapped' => "test" \in faults')
      BY <1>1, <2>1, <3>1 DEF MappingInv
    <3>3. "tables" \in faults' \/ {1, 2} \subseteq tables'
      BY <1>1, <3>1
    <3> QED BY <3>1, <3>2, <3>3 DEF MappingInv, Setup
  <2> QED BY <2>2, <2>3, <2>4, <2>5, <2>6
<1> QED BY <1>6, <1>7, <1>8, <1>9, <1>10, <1>11 DEF SingleInv

-----------------------------------------------------------------------------
(* dsa_copy: the descriptors of a round are allocated.                     *)

LEMMA MappingKept ==
  ASSUME MappingInv, UNCHANGED <<mapped, tables, areas>>, faults \subseteq faults',
         pc \in Copying,
         pc' \in Copying \cup {"oops", "unmap"} \/ (pc' = "loaded" /\ "submit" \in faults')
  PROVE  MappingInv'
  BY DEF MappingInv, Setup, Copying

LEMMA Appending ==
  ASSUME TypeOK, NEW d \in Descs \cup {None}, list' = Appended(d)
  PROVE  /\ list' \in Seq(Entry) /\ Len(list') = Len(list) + 1
         /\ DOMAIN list' = 1 .. Len(list) + 1 /\ DOMAIN list = 1 .. Len(list) /\ Len(list) \in Nat
         /\ \A k \in 1 .. Len(list) : list'[k] = list[k]
         /\ list'[Len(list) + 1].desc = d /\ ~list'[Len(list) + 1].done
         /\ Listed' = Listed \cup {d} /\ Open' = Open \cup {d}
<1> DEFINE e == [desc |-> d, done |-> FALSE]
<1>1. list \in Seq(Entry) /\ DOMAIN list = 1 .. Len(list) /\ e \in Entry /\ list' = Append(list, e)
  BY OpenFacts, NewEntry DEF Appended
<1>2. e.desc = d /\ ~e.done
  OBVIOUS
<1> HIDE DEF e
<1>3. /\ list' \in Seq(Entry) /\ Len(list') = Len(list) + 1
      /\ DOMAIN list' = 1 .. Len(list) + 1 /\ Len(list) \in Nat
      /\ \A k \in 1 .. Len(list) : list'[k] = list[k]
      /\ list'[Len(list) + 1] = e
  BY <1>1
<1>4. \A k \in 1 .. Len(list) + 1 : k \in 1 .. Len(list) \/ k = Len(list) + 1
  BY <1>3
<1>5. Len(list) + 1 \in DOMAIN list' /\ \A k \in DOMAIN list : k \in DOMAIN list'
  BY <1>1, <1>3
<1>6. Listed' = Listed \cup {d}
  BY <1>1, <1>2, <1>3, <1>4, <1>5 DEF Listed
<1>7. Open' = Open \cup {d}
  BY <1>1, <1>2, <1>3, <1>4, <1>5 DEF Open
<1> QED BY <1>1, <1>2, <1>3, <1>6, <1>7

LEMMA CopyingFacts ==
  ASSUME SingleInv, pc \in Copying
  PROVE  /\ TypeOK /\ job \in Jobs /\ round \in Nat /\ round < LoopTimes /\ i \in 0 .. Nents
         /\ job.npages \in Nat \ {0} /\ Pages = 1 .. job.npages /\ LoopTimes \in Nat \ {0}
         /\ Nents \in 1 .. job.npages /\ order \in [Pages -> Pages] /\ i \in Nat
         /\ None \notin Descs /\ NumDescs \in Nat /\ MaxBatch \in Nat /\ pollEntry \in Nat
<1>1. TypeOK /\ job \in Jobs /\ round < LoopTimes /\ i \in 0 .. Nents /\ pollEntry \in Nat
  BY DEF SingleInv, RoundInv, TypeOK
<1>2. /\ job.npages \in Nat \ {0} /\ Pages = 1 .. job.npages /\ LoopTimes \in Nat \ {0}
      /\ None \notin Descs /\ NumDescs \in Nat /\ MaxBatch \in Nat
  BY <1>1, JobFacts
<1>3. round \in Nat
  BY <1>1, <1>2 DEF TypeOK
<1>4. Nents \in 1 .. job.npages
  BY <1>1, <1>3, RoundFacts
<1> QED BY <1>1, <1>2, <1>3, <1>4 DEF TypeOK

LEMMA AllocDescStep ==
  ASSUME SingleInv, AllocDesc
  PROVE  SingleInv'
<1>1. PICK d \in free :
          /\ free' = free \ {d} /\ status' = [status EXCEPT ![d] = "none"]
          /\ chunk' = [chunk EXCEPT ![d] = NextChunk] /\ list' = Appended(d)
  BY DEF AllocDesc
<1>2. /\ pc = "alloc" /\ pc' = "alloc" /\ i < Nents /\ i' = i + 1
      /\ UNCHANGED <<job, order, areas, tables, chan, mapped, round, pos, pollEntry, queue, copied, faults>>
  BY DEF AllocDesc, setupVars, deviceVars
<1>3. /\ TypeOK /\ job \in Jobs /\ round \in Nat /\ round < LoopTimes /\ i \in Nat
      /\ job.npages \in Nat \ {0} /\ Pages = 1 .. job.npages /\ order \in [Pages -> Pages]
      /\ Nents \in 1 .. job.npages /\ None \notin Descs /\ pollEntry \in Nat
  BY <1>2, CopyingFacts DEF Copying
<1>4. /\ Pages' = Pages /\ LoopTimes' = LoopTimes /\ Nents' = Nents /\ Loops' = Loops
      /\ AtDevice' = AtDevice
  BY <1>2, JobKept, QueueKept
<1>5. d \in Descs /\ d # None
  BY <1>3 DEF TypeOK
<1>6. /\ list' \in Seq(Entry) /\ Len(list') = Len(list) + 1
      /\ DOMAIN list' = 1 .. Len(list) + 1 /\ DOMAIN list = 1 .. Len(list) /\ Len(list) \in Nat
      /\ \A k \in 1 .. Len(list) : list'[k] = list[k]
      /\ list'[Len(list) + 1].desc = d /\ ~list'[Len(list) + 1].done
      /\ Listed' = Listed \cup {d} /\ Open' = Open \cup {d}
  BY <1>1, <1>3, <1>5, Appending
<1>7. DescriptorsKept /\ d \notin Listed
  BY DEF SingleInv, EntryInv, DescriptorsKept
<1>8. NextChunk \subseteq Pages /\ \A k \in Pages : k <= Upto(i + 1) => k <= Upto(i) \/ order[k] \in NextChunk
  BY <1>2, <1>3, ChunkFacts
<1>9. /\ status' \in [Descs -> {"none", "success", "error"}] /\ chunk' \in [Descs -> SUBSET Pages]
      /\ status'[d] = "none" /\ chunk'[d] = NextChunk
      /\ \A c \in Descs : c # d => status'[c] = status[c] /\ chunk'[c] = chunk[c]
  BY <1>1, <1>3, <1>5, <1>8 DEF TypeOK
<1>10. \A k \in DOMAIN list' : k \in DOMAIN list \/ k = Len(list) + 1
  BY <1>6
<1>11. \A k \in DOMAIN list : list[k].desc \in Listed /\ list[k].desc # d
  BY <1>7 DEF Listed
<1>12. TypeOK'
  <2>1. pos' \in 1 .. Len(list') + 1
    BY <1>2, <1>3, <1>6 DEF TypeOK
  <2>2. i' \in 0 .. job.npages /\ free' \subseteq Descs
    BY <1>1, <1>2, <1>3 DEF TypeOK
  <2> QED BY <1>2, <1>3, <1>4, <1>6, <1>9, <2>1, <2>2 DEF TypeOK
<1>13. RoundInv'
  BY <1>2, <1>3, <1>4 DEF SingleInv, RoundInv, Setup, Copying
<1>14. EntryInv'
  <2>1. DescriptorsKept'
    <3>1. free' \cap Listed' = {}
      BY <1>1, <1>6, <1>7 DEF DescriptorsKept
    <3>2. \A j, k \in DOMAIN list' : j # k /\ list'[j].desc # None => list'[j].desc # list'[k].desc
      BY <1>5, <1>6, <1>7, <1>10, <1>11 DEF DescriptorsKept
    <3>3. free' \cup (Listed' \ {None}) = Descs
      BY <1>1, <1>2, <1>3, <1>5, <1>6, <1>7 DEF DescriptorsKept
    <3> QED BY <3>1, <3>2, <3>3 DEF DescriptorsKept
  <2>2. "error" \notin faults => \A k \in DOMAIN list' : ~list'[k].done
    BY <1>6, <1>10 DEF SingleInv, EntryInv
  <2> QED BY <1>2, <1>5, <1>6, <2>1, <2>2 DEF SingleInv, EntryInv, Copying
<1>15. Waits' => DeviceInv'
  <2> SUFFICES ASSUME Waits' PROVE DeviceInv'
    OBVIOUS
  <2>1. DeviceInv /\ AtDevice = {}
    BY <1>2, FaultsGrow DEF SingleInv, DeviceInv
  <2>2. \A k \in DOMAIN list' : ~list'[k].done /\ (list'[k].desc # None => status'[list'[k].desc] = "none")
    <3>1. \A k \in DOMAIN list : ~list[k].done /\ (list[k].desc # None => status[list[k].desc] = "none")
      BY <1>2, <2>1 DEF DeviceInv
    <3>2. \A k \in DOMAIN list : list[k].desc # None => list[k].desc \in Descs
      BY <1>3, <1>11, OpenFacts
    <3> QED BY <1>6, <1>9, <1>10, <1>11, <3>1, <3>2
  <2>3. "alloc" \notin faults => Cardinality(Open') = i'
    <3>1. IsFiniteSet(Open) /\ d \notin Open
      BY <1>3, <1>7, OpenFacts
    <3>2. Cardinality(Open \cup {d}) = Cardinality(Open) + 1
      BY <3>1, FS_AddElement
    <3> QED BY <1>2, <1>6, <2>1, <3>2 DEF DeviceInv
  <2> QED BY <1>2, <1>4, <2>1, <2>2, <2>3 DEF DeviceInv, Setup
<1>16. Clean' => PagesInv'
  <2> SUFFICES ASSUME Clean' PROVE PagesInv'
    OBVIOUS
  <2>1. PagesInv /\ DeviceInv
    BY <1>2, FaultsGrow DEF SingleInv
  <2>2. AtDevice' = {}
    BY <1>2, <1>4, <2>1 DEF DeviceInv
  <2>3. None \notin Listed /\ Listed \subseteq Descs
    BY <1>2, <1>3, OpenFacts DEF SingleInv, EntryInv, Clean
  <2>4. \A c \in Listed' : status'[c] = "success" => chunk'[c] \subseteq copied'
    BY <1>2, <1>6, <1>7, <1>9, <2>1, <2>3 DEF PagesInv
  <2>5. \A k \in Pages : Given(k)' => Given(k) \/ order[k] \in NextChunk
    BY <1>2, <1>3, <1>4, <1>8 DEF Given, Upto
  <2>6. ASSUME NEW k \in Pages, Given(k)'
        PROVE  order'[k] \in copied' \/ \E c \in Listed' : order'[k] \in chunk'[c]
    <3>1. CASE order[k] \in NextChunk
      BY <1>2, <1>6, <1>9, <3>1
    <3>2. CASE Given(k)
      <4>1. order[k] \in copied \/ \E c \in Listed : order[k] \in chunk[c]
        BY <1>2, <2>1, <3>2 DEF PagesInv, Copying
      <4> QED BY <1>2, <1>6, <1>7, <1>9, <2>3, <4>1
    <3> QED BY <2>5, <2>6, <3>1, <3>2
  <2> QED BY <1>2, <1>4, <2>1, <2>2, <2>4, <2>6 DEF PagesInv
<1>17. MappingInv'
  BY <1>2, MappingKept DEF SingleInv, Copying
<1> QED BY <1>12, <1>13, <1>14, <1>15, <1>16, <1>17 DEF SingleInv

LEMMA AllocFailsStep ==
  ASSUME SingleInv, AllocFails
  PROVE  SingleInv'
<1>1. /\ pc = "alloc" /\ pc' \in {"alloc", "oops"} /\ i < Nents /\ i' = i + 1 /\ list' = Appended(None)
      /\ faults' = faults \cup {"alloc"}
      /\ UNCHANGED <<job, order, areas, tables, chan, mapped, round, pos, pollEntry, free, status, chunk,
                     queue, copied>>
  BY DEF AllocFails, setupVars, descVars, deviceVars
<1>2. /\ TypeOK /\ job \in Jobs /\ round \in Nat /\ round < LoopTimes /\ i \in Nat
      /\ job.npages \in Nat \ {0} /\ Nents \in 1 .. job.npages /\ None \notin Descs /\ pollEntry \in Nat
  BY <1>1, CopyingFacts DEF Copying
<1>3. /\ Pages' = Pages /\ LoopTimes' = LoopTimes /\ Nents' = Nents /\ AtDevice' = AtDevice
  BY <1>1, JobKept, QueueKept
<1>4. /\ list' \in Seq(Entry) /\ Len(list') = Len(list) + 1
      /\ DOMAIN list' = 1 .. Len(list) + 1 /\ DOMAIN list = 1 .. Len(list) /\ Len(list) \in Nat
      /\ \A k \in 1 .. Len(list) : list'[k] = list[k]
      /\ list'[Len(list) + 1].desc = None /\ ~list'[Len(list) + 1].done
      /\ Listed' = Listed \cup {None}
  BY <1>1, <1>2, Appending
<1>5. \A k \in DOMAIN list' : k \in DOMAIN list \/ k = Len(list) + 1
  BY <1>4
<1>6. TypeOK'
  <2>1. pos' \in 1 .. Len(list') + 1
    BY <1>1, <1>2, <1>4 DEF TypeOK
  <2>2. i' \in 0 .. job.npages
    BY <1>1, <1>2
  <2> QED BY <1>1, <1>2, <1>3, <1>4, <2>1, <2>2 DEF TypeOK
<1>7. RoundInv'
  BY <1>1, <1>2, <1>3 DEF SingleInv, RoundInv, Setup, Copying
<1>8. EntryInv'
  <2>1. DescriptorsKept
    BY DEF SingleInv, EntryInv
  <2>2. free' \cap Listed' = {} /\ free' \cup (Listed' \ {None}) = Descs
    <3>1. free \subseteq Descs
      BY <1>2 DEF TypeOK
    <3> QED BY <1>1, <1>2, <1>4, <2>1, <3>1 DEF DescriptorsKept
  <2>3. \A j, k \in DOMAIN list' : j # k /\ list'[j].desc # None => list'[j].desc # list'[k].desc
    BY <1>4, <1>5, <2>1 DEF DescriptorsKept
  <2>4. "error" \notin faults' => \A k \in DOMAIN list' : ~list'[k].done
    BY <1>1, <1>4, <1>5 DEF SingleInv, EntryInv
  <2> QED BY <1>1, <1>4, <2>2, <2>3, <2>4 DEF EntryInv, DescriptorsKept
<1>9. Waits' => DeviceInv'
  <2> SUFFICES ASSUME Waits' PROVE DeviceInv'
    OBVIOUS
  <2>1. DeviceInv /\ AtDevice = {}
    BY <1>1, FaultsGrow DEF SingleInv, DeviceInv
  <2>2. \A k \in DOMAIN list' : ~list'[k].done /\ (list'[k].desc # None => status'[list'[k].desc] = "none")
    BY <1>1, <1>4, <1>5, <2>1 DEF DeviceInv
  <2> QED BY <1>1, <1>3, <2>1, <2>2 DEF DeviceInv
<1>10. ~Clean'
  BY <1>1 DEF Clean
<1>11. MappingInv'
  BY <1>1, MappingKept DEF SingleInv, Copying
<1> QED BY <1>6, <1>7, <1>8, <1>9, <1>10, <1>11 DEF SingleInv

\* The steps of the thread that only move it on to the next loop.
LEMMA AllocDoneStep ==
  ASSUME SingleInv, AllocDone
  PROVE  SingleInv'
<1>1. /\ pc = "alloc" /\ pc' = "submit" /\ i = Nents /\ pos' = 1
      /\ UNCHANGED <<job, order, areas, tables, chan, mapped, round, i, list, pollEntry, free, status, chunk,
                     queue, copied, faults>>
  BY DEF AllocDone, setupVars, descVars, deviceVars
<1>2. TypeOK /\ LoopTimes \in Nat \ {0} /\ Nents \in Nat
  BY <1>1, CopyingFacts DEF Copying
<1>3. /\ Pages' = Pages /\ LoopTimes' = LoopTimes /\ Nents' = Nents /\ AtDevice' = AtDevice
      /\ Listed' = Listed /\ Open' = Open /\ \A k : Given(k)' = Given(k)
  BY <1>1, JobKept, QueueKept, ListKept
<1>4. (pos \in 1 .. Len(list) + 1)' /\ DOMAIN list = 1 .. Len(list)
  BY <1>1, <1>2, OpenFacts DEF TypeOK
<1>5. TypeOK'
  BY <1>1, <1>2, <1>3, <1>4 DEF TypeOK
<1>6. RoundInv'
  BY <1>1, <1>2, <1>3 DEF SingleInv, RoundInv, Setup, Copying
<1>7. EntryInv'
  <2>1. DescriptorsKept'
    BY <1>1, <1>3 DEF SingleInv, EntryInv, DescriptorsKept
  <2> QED BY <1>1, <1>3, <2>1 DEF SingleInv, EntryInv, Copying
<1>8. Waits' => DeviceInv'
  BY <1>1, <1>3, <1>4, FaultsGrow DEF SingleInv, DeviceInv, Setup
<1>9. Clean' => PagesInv'
  BY <1>1, <1>3, FaultsGrow DEF SingleInv, PagesInv, Copying
<1>10. MappingInv'
  BY <1>1, MappingKept DEF SingleInv, Copying
<1> QED BY <1>5, <1>6, <1>7, <1>8, <1>9, <1>10 DEF SingleInv

-----------------------------------------------------------------------------
(* dsa_copy: the list is submitted.                                        *)

LEMMA SubmitDoneStep ==
  ASSUME SingleInv, SubmitDone
  PROVE  SingleInv'
<1>1. /\ pc = "submit" /\ pc' = "poll" /\ pos > Len(list) /\ pos' = 1 /\ pollEntry' = 0
      /\ UNCHANGED <<job, order, areas, tables, chan, mapped, round, i, list, free, status, chunk,
                     queue, copied, faults>>
  BY DEF SubmitDone, setupVars, descVars, deviceVars
<1>2. TypeOK /\ LoopTimes \in Nat \ {0} /\ Nents \in Nat /\ i = Nents
  BY <1>1, CopyingFacts DEF Copying, SingleInv, RoundInv
<1>3. /\ Pages' = Pages /\ LoopTimes' = LoopTimes /\ Nents' = Nents /\ AtDevice' = AtDevice
      /\ Listed' = Listed /\ Open' = Open /\ \A k : Given(k)' = Given(k)
  BY <1>1, JobKept, QueueKept, ListKept
<1>4. (pos \in 1 .. Len(list) + 1)' /\ DOMAIN list = 1 .. Len(list)
  BY <1>1, <1>2, OpenFacts DEF TypeOK
<1>5. None \notin Listed /\ "alloc" \notin faults
  <2>1. \A k \in 1 .. Len(list) : k \in 1 .. pos - 1
    BY <1>1, <1>2 DEF TypeOK
  <2>2. None \notin Listed
    BY <1>1, <1>4, <2>1 DEF SingleInv, EntryInv, Listed
  <2> QED BY <1>1, <2>2 DEF SingleInv, EntryInv, Copying
<1>6. TypeOK'
  BY <1>1, <1>2, <1>3, <1>4 DEF TypeOK
<1>7. RoundInv'
  BY <1>1, <1>2, <1>3 DEF SingleInv, RoundInv, Setup, Copying
<1>8. EntryInv'
  <2>1. DescriptorsKept'
    BY <1>1, <1>3 DEF SingleInv, EntryInv, DescriptorsKept
  <2> QED BY <1>1, <1>3, <1>5, <2>1 DEF SingleInv, EntryInv
<1>9. Waits' => DeviceInv'
  <2> SUFFICES ASSUME Waits' PROVE DeviceInv'
    OBVIOUS
  <2>1. DeviceInv
    BY <1>1, FaultsGrow DEF SingleInv
  <2>2. Cardinality(Open) = Nents
    BY <1>1, <1>2, <1>5, <2>1 DEF DeviceInv
  <2>3. pollEntry' + Cardinality(Open') = Nents'
    BY <1>1, <1>2, <1>3, <2>2
  <2>4. \A q \in AtDevice : q[1] \in Open /\ status[q[1]] = "none"
    BY <1>1, <2>1 DEF DeviceInv
  <2> QED BY <1>1, <1>3, <2>1, <2>3, <2>4 DEF DeviceInv, Setup
<1>10. Clean' => PagesInv'
  BY <1>1, <1>3, FaultsGrow DEF SingleInv, PagesInv, Copying
<1>11. MappingInv'
  BY <1>1, MappingKept DEF SingleInv, Copying
<1> QED BY <1>6, <1>7, <1>8, <1>9, <1>10, <1>11 DEF SingleInv

LEMMA SubmitFailsStep ==
  ASSUME SingleInv, SubmitFails
  PROVE  SingleInv'
<1>1. /\ pc = "submit" /\ pc' = "loaded" /\ faults' = faults \cup {"submit"}
      /\ UNCHANGED <<job, order, areas, tables, chan, mapped, round, i, list, pos, pollEntry, free, status,
                     chunk, queue, copied>>
  BY DEF SubmitFails, setupVars, loopVars, descVars, deviceVars
<1>2. TypeOK
  BY DEF SingleInv
<1>3. /\ Pages' = Pages /\ LoopTimes' = LoopTimes /\ Nents' = Nents /\ AtDevice' = AtDevice
      /\ Listed' = Listed /\ Open' = Open
  BY <1>1, JobKept, QueueKept, ListKept
<1>4. TypeOK'
  BY <1>1, <1>2, <1>3 DEF TypeOK
<1>5. RoundInv'
  BY <1>1 DEF SingleInv, RoundInv, Setup, Copying
<1>6. EntryInv'
  <2>1. DescriptorsKept'
    BY <1>1, <1>3 DEF SingleInv, EntryInv, DescriptorsKept
  <2> QED BY <1>1, <1>3, <2>1 DEF SingleInv, EntryInv, Copying
<1>7. Waits' => DeviceInv'
  BY <1>1, <1>3, FaultsGrow DEF SingleInv, DeviceInv, Setup
<1>8. ~Clean'
  BY <1>1 DEF Clean
<1>9. MappingInv'
  BY <1>1, MappingKept DEF SingleInv, Copying
<1> QED BY <1>4, <1>5, <1>6, <1>7, <1>8, <1>9 DEF SingleInv

LEMMA SubmitEntryStep ==
  ASSUME SingleInv, SubmitEntry
  PROVE  SingleInv'
<1> DEFINE d == list[pos].desc
<1>1. /\ pc = "submit" /\ pos <= Len(list)
      /\ UNCHANGED <<job, order, areas, tables, chan, mapped, round, i, list, pollEntry, free, status, chunk,
                     copied, faults>>
      /\ \/ d = None /\ pc' = "oops" /\ UNCHANGED <<queue, pos>>
         \/ d # None /\ queue' = queue (+) SetToBag({<<d, chunk[d]>>}) /\ pos' = pos + 1 /\ pc' = pc
  BY DEF SubmitEntry, setupVars, descVars
<1>2. TypeOK /\ LoopTimes \in Nat \ {0}
  BY <1>1, CopyingFacts DEF Copying
<1>3. /\ Pages' = Pages /\ LoopTimes' = LoopTimes /\ Nents' = Nents
      /\ Listed' = Listed /\ Open' = Open /\ \A k : Given(k)' = Given(k)
  BY <1>1, JobKept, ListKept
<1>4. DOMAIN list = 1 .. Len(list) /\ pos \in DOMAIN list /\ pos \in Nat /\ Len(list) \in Nat
  BY <1>1, <1>2, OpenFacts DEF TypeOK
<1>5. d \in Listed /\ d \in Descs \cup {None}
  BY <1>2, <1>4, OpenFacts DEF Listed
<1>6. DescriptorsKept'
  BY <1>1, <1>3 DEF SingleInv, EntryInv, DescriptorsKept
<1>7. MappingInv'
  BY <1>1, MappingKept DEF SingleInv, Copying
<1>8. CASE d = None
  <2>1. pc' = "oops" /\ UNCHANGED <<queue, pos>> /\ AtDevice' = AtDevice
    BY <1>1, <1>8, QueueKept
  <2>2. TypeOK'
    BY <1>1, <1>2, <1>3, <2>1 DEF TypeOK
  <2>3. RoundInv'
    BY <1>1, <2>1 DEF SingleInv, RoundInv, Setup, Copying
  <2>4. EntryInv'
    BY <1>1, <1>3, <1>6, <2>1 DEF SingleInv, EntryInv, Copying
  <2>5. Waits' => DeviceInv'
    BY <1>1, <2>1, FaultsGrow DEF SingleInv, DeviceInv, Setup
  <2>6. Clean' => PagesInv'
    BY <1>1, <1>3, <2>1, FaultsGrow DEF SingleInv, PagesInv, Copying
  <2> QED BY <1>7, <2>2, <2>3, <2>4, <2>5, <2>6 DEF SingleInv
<1>9. CASE d # None
  <2> DEFINE e == <<d, chunk[d]>>
  <2>1. d \in Descs /\ e \in Descs \X SUBSET Pages
    <3>1. d \in Descs
      BY <1>5, <1>9
    <3>2. chunk \in [Descs -> SUBSET Pages]
      BY <1>2 DEF TypeOK
    <3> HIDE DEF d
    <3> QED BY <3>1, <3>2
  <2>2. pc' = "submit" /\ pos' = pos + 1 /\ queue' = queue (+) SetToBag({e})
    BY <1>1, <1>9
  <2>3. e[1] = d /\ e[2] = chunk[d]
    OBVIOUS
  <2> HIDE DEF e
  <2>4. /\ (IsABag(queue))' /\ AtDevice' = AtDevice \cup {e}
        /\ e \notin AtDevice => queue'[e] = 1
        /\ \A x \in AtDevice : x # e => queue'[x] = queue[x]
    <3> DEFINE B == queue (+) SetToBag({e})
    <3>1. IsABag(queue)
      BY <1>2 DEF TypeOK
    <3>2. /\ IsABag(B) /\ BagToSet(B) = BagToSet(queue) \cup {e}
          /\ e \notin BagToSet(queue) => B[e] = 1
          /\ \A x \in BagToSet(queue) : x # e => B[x] = queue[x]
      BY <3>1, BagPlus
    <3>3. queue' = B
      BY <2>2
    <3> HIDE DEF B
    <3> QED BY <3>2, <3>3 DEF AtDevice
  <2>5. TypeOK'
    <3>1. AtDevice' \subseteq Descs \X SUBSET Pages
      BY <1>2, <2>1, <2>4 DEF TypeOK
    <3>2. pos' \in 1 .. Len(list) + 1
      BY <1>1, <1>4, <2>2
    <3> QED BY <1>1, <1>2, <1>3, <2>4, <3>1, <3>2 DEF TypeOK
  <2>6. RoundInv'
    BY <1>1, <1>3, <2>2 DEF SingleInv, RoundInv, Setup, Copying
  <2>7. EntryInv'
    <3>1. \A k \in 1 .. pos' - 1 : list'[k].desc # None
      <4>1. \A k \in 1 .. pos' - 1 : k \in 1 .. pos - 1 \/ k = pos
        BY <1>4, <2>2
      <4> QED BY <1>1, <1>9, <4>1 DEF SingleInv, EntryInv
    <3> QED BY <1>1, <1>3, <1>6, <2>2, <3>1 DEF SingleInv, EntryInv
  <2>8. Waits' => DeviceInv'
    <3> SUFFICES ASSUME Waits' PROVE DeviceInv'
      OBVIOUS
    <3>1. DeviceInv
      BY <1>1, FaultsGrow DEF SingleInv
    <3>2. status[d] = "none" /\ (\A q \in AtDevice : q[1] # d) /\ d \in Open
      BY <1>1, <1>4, <1>9, <3>1 DEF DeviceInv, Open
    <3>3. \A q, r \in AtDevice' : q[1] = r[1] => q = r /\ queue'[q] = 1
      BY <2>3, <2>4, <3>1, <3>2 DEF DeviceInv
    <3>4. \A q \in AtDevice' : q[1] \in Open' /\ status'[q[1]] = "none"
      BY <1>1, <1>3, <2>3, <2>4, <3>1, <3>2 DEF DeviceInv
    <3>5. ASSUME NEW k \in DOMAIN list', k >= pos'
          PROVE  /\ list'[k].desc # None => status'[list'[k].desc] = "none"
                 /\ \A q \in AtDevice' : q[1] # list'[k].desc
      <4>1. k \in DOMAIN list /\ k >= pos /\ k # pos
        BY <1>1, <1>4, <2>2, <3>5
      <4>2. /\ list[k].desc # None => status[list[k].desc] = "none"
            /\ \A q \in AtDevice : q[1] # list[k].desc
        BY <1>1, <3>1, <4>1 DEF DeviceInv
      <4>3. list[k].desc # d
        BY <1>4, <1>9, <4>1 DEF SingleInv, EntryInv, DescriptorsKept
      <4> QED BY <1>1, <2>3, <2>4, <4>2, <4>3
    <3>6. \A k \in DOMAIN list' : ~list'[k].done
      BY <1>1, <3>1 DEF DeviceInv
    <3>7. "alloc" \notin faults' => Cardinality(Open') = i'
      BY <1>1, <1>3, <3>1 DEF DeviceInv
    <3> QED BY <2>2, <3>3, <3>4, <3>5, <3>6, <3>7 DEF DeviceInv, Setup
  <2>9. Clean' => PagesInv'
    <3> SUFFICES ASSUME Clean' PROVE PagesInv'
      OBVIOUS
    <3>1. PagesInv
      BY <1>1, FaultsGrow DEF SingleInv
    <3>2. \A q \in AtDevice' : q[2] = chunk'[q[1]]
      BY <1>1, <2>3, <2>4, <3>1 DEF PagesInv
    <3> QED BY <1>1, <1>3, <2>2, <3>1, <3>2 DEF PagesInv, Copying
  <2> QED BY <1>7, <2>5, <2>6, <2>7, <2>8, <2>9 DEF SingleInv
<1> QED BY <1>8, <1>9

-----------------------------------------------------------------------------
(* dsa_copy: the list is polled.                                           *)

PollPass ==
  /\ pc = "poll" /\ pc' = "poll" /\ pos' \in 1 .. Len(list) + 1
  /\ UNCHANGED <<job, order, areas, tables, chan, mapped, round, i, list, pollEntry, free, status, chunk,
                 queue, copied, faults>>

\* A step of a pass that finds nothing.
LEMMA PollPassStep ==
  ASSUME SingleInv, PollPass
  PROVE  SingleInv'
<1> USE DEF PollPass
<1>1. TypeOK
  BY DEF SingleInv
<1>2. /\ Pages' = Pages /\ LoopTimes' = LoopTimes /\ Nents' = Nents /\ AtDevice' = AtDevice
      /\ Listed' = Listed /\ Open' = Open /\ \A k : Given(k)' = Given(k)
  BY JobKept, ListKept, QueueKept
<1>3. TypeOK'
  BY <1>1, <1>2 DEF TypeOK
<1>4. RoundInv'
  BY <1>2 DEF SingleInv, RoundInv, Setup, Copying
<1>5. EntryInv'
  <2>1. DescriptorsKept'
    BY <1>2 DEF SingleInv, EntryInv, DescriptorsKept
  <2> QED BY <1>2, <2>1 DEF SingleInv, EntryInv
<1>6. Waits' => DeviceInv'
  BY <1>2, FaultsGrow DEF SingleInv, DeviceInv, Setup
<1>7. Clean' => PagesInv'
  BY <1>2, FaultsGrow DEF SingleInv, PagesInv
<1>8. MappingInv'
  BY MappingKept DEF SingleInv, Copying
<1> QED BY <1>3, <1>4, <1>5, <1>6, <1>7, <1>8 DEF SingleInv

LEMMA PollAgainStep ==
  ASSUME SingleInv, PollAgain
  PROVE  SingleInv'
<1>1. pos' = 1 /\ TypeOK
  BY DEF PollAgain, SingleInv
<1>2. pos' \in 1 .. Len(list) + 1
  BY <1>1, OpenFacts
<1>3. PollPass
  BY <1>2 DEF PollPass, PollAgain, setupVars, descVars, deviceVars
<1> QED BY <1>3, PollPassStep

\* Unlinking the entry at pos takes its descriptor off the list.
LEMMA Unlinking ==
  ASSUME TypeOK, pos \in DOMAIN list, list' = RemoveAt(list, pos),
         \A k \in DOMAIN list : k # pos => list[k].desc # list[pos].desc
  PROVE  /\ list' \in Seq(Entry) /\ Len(list') = Len(list) - 1 /\ Len(list) \in Nat
         /\ DOMAIN list' = 1 .. Len(list')
         /\ \A k \in DOMAIN list' : list'[k] = IF k < pos THEN list[k] ELSE list[k + 1]
         /\ Listed' = Listed \ {list[pos].desc}
         /\ Open' = Open \ {list[pos].desc}
<1>1. list \in Seq(Entry) /\ DOMAIN list = 1 .. Len(list) /\ Len(list) \in Nat /\ pos \in 1 .. Len(list)
  BY OpenFacts, SMTT(40)
<1>2. /\ RemoveAt(list, pos) \in Seq(Entry) /\ Len(RemoveAt(list, pos)) = Len(list) - 1
      /\ \A k \in 1 .. Len(list) - 1 : RemoveAt(list, pos)[k] = IF k < pos THEN list[k] ELSE list[k + 1]
  BY <1>1, Removed
<1>3. /\ list' \in Seq(Entry) /\ Len(list') = Len(list) - 1 /\ DOMAIN list' = 1 .. Len(list) - 1
      /\ \A k \in 1 .. Len(list) - 1 : list'[k] = IF k < pos THEN list[k] ELSE list[k + 1]
  BY <1>1, <1>2
<1>4. ASSUME NEW k \in DOMAIN list' PROVE \E j \in DOMAIN list : j # pos /\ list'[k] = list[j]
  <2>1. CASE k < pos
    BY <1>1, <1>3, <2>1
  <2>2. CASE ~(k < pos)
    <3>1. k + 1 \in DOMAIN list /\ k + 1 # pos
      BY <1>1, <1>3, <2>2
    <3> QED BY <1>3, <2>2, <3>1
  <2> QED BY <2>1, <2>2
<1>5. ASSUME NEW j \in DOMAIN list, j # pos PROVE \E k \in DOMAIN list' : list'[k] = list[j]
  <2>1. CASE j < pos
    <3>1. j \in 1 .. Len(list) - 1
      BY <1>1, <2>1
    <3> QED BY <1>3, <2>1, <3>1
  <2>2. CASE ~(j < pos)
    <3>1. j - 1 \in 1 .. Len(list) - 1 /\ ~(j - 1 < pos) /\ (j - 1) + 1 = j
      BY <1>1, <1>5, <2>2
    <3>2. list'[j - 1] = list[(j - 1) + 1]
      BY <1>3, <3>1
    <3> QED BY <1>3, <3>1, <3>2
  <2> QED BY <2>1, <2>2
<1>6. Listed' = Listed \ {list[pos].desc}
  BY <1>4, <1>5 DEF Listed
<1>7. Open' = Open \ {list[pos].desc}
  BY <1>4, <1>5 DEF Open
<1> QED BY <1>1, <1>3, <1>6, <1>7, SMTT(40)

\* Marking the entry at pos done keeps it on the list.
LEMMA Marking ==
  ASSUME TypeOK, pos \in DOMAIN list, list' = [list EXCEPT ![pos].done = TRUE],
         \A k \in DOMAIN list : k # pos => list[k].desc # list[pos].desc
  PROVE  /\ list' \in Seq(Entry) /\ Len(list') = Len(list) /\ DOMAIN list' = DOMAIN list
         /\ \A k \in DOMAIN list : list'[k].desc = list[k].desc
         /\ Listed' = Listed
         /\ Open' = Open \ {list[pos].desc}
<1>1. list \in Seq(Entry) /\ DOMAIN list = 1 .. Len(list) /\ Len(list) \in Nat /\ list[pos] \in Entry
  BY OpenFacts
<1> DEFINE e == [list[pos] EXCEPT !.done = TRUE]
<1>2. e \in Entry /\ e.desc = list[pos].desc /\ e.done
  BY <1>1, EntryFacts
<1>3. list' = [list EXCEPT ![pos] = e]
  OBVIOUS
<1> HIDE DEF e
<1>4. /\ list' \in Seq(Entry) /\ Len(list') = Len(list) /\ DOMAIN list' = DOMAIN list
      /\ list'[pos] = e /\ \A k \in DOMAIN list : k # pos => list'[k] = list[k]
  <2> DEFINE n == Len(list)
  <2>1. n \in Nat /\ list \in [1 .. n -> Entry] /\ pos \in 1 .. n
    BY <1>1
  <2> HIDE DEF n
  <2>2. list' \in [1 .. n -> Entry]
    BY <1>2, <1>3, <2>1
  <2>3. list' \in Seq(Entry) /\ Len(list') = n
    BY <2>1, <2>2
  <2>4. list'[pos] = e /\ \A k \in DOMAIN list : k # pos => list'[k] = list[k]
    BY <1>3, <2>1
  <2> QED BY <1>1, <2>1, <2>2, <2>3, <2>4 DEF n
<1>5. \A k \in DOMAIN list : list'[k].desc = list[k].desc
  BY <1>2, <1>4
<1>6. Listed' = Listed
  BY <1>4, <1>5 DEF Listed
<1>7. Open' = Open \ {list[pos].desc}
  <2>1. \A k \in DOMAIN list : k # pos => (list'[k].done <=> list[k].done)
    BY <1>4
  <2>2. list'[pos].done
    BY <1>2, <1>4
  <2>3. {k \in DOMAIN list' : ~list'[k].done} = {k \in DOMAIN list : ~list[k].done} \ {pos}
    BY <1>4, <2>1, <2>2
  <2> QED BY <1>4, <1>5, <2>3 DEF Open
<1> QED BY <1>4, <1>5, <1>6, <1>7

LEMMA PollEntryStep ==
  ASSUME SingleInv, PollEntry
  PROVE  SingleInv'
<1> DEFINE d == list[pos].desc
<1>1. /\ pc = "poll" /\ pc' = "poll" /\ pos <= Len(list)
      /\ UNCHANGED <<job, order, areas, tables, chan, mapped, round, i, status, chunk, queue, copied>>
  BY DEF PollEntry, setupVars, deviceVars
<1>2. TypeOK /\ LoopTimes \in Nat \ {0} /\ Nents \in Nat /\ i = Nents /\ pollEntry \in Nat
  BY <1>1, CopyingFacts DEF Copying, SingleInv, RoundInv
<1>3. /\ Pages' = Pages /\ LoopTimes' = LoopTimes /\ Nents' = Nents /\ AtDevice' = AtDevice
      /\ \A k : Given(k)' = Given(k)
  BY <1>1, JobKept, QueueKept
<1>4. DOMAIN list = 1 .. Len(list) /\ pos \in DOMAIN list /\ pos \in Nat /\ Len(list) \in Nat
  BY <1>1, <1>2, OpenFacts DEF TypeOK
<1>5. /\ None \notin Listed /\ "alloc" \notin faults /\ DescriptorsKept
      /\ "error" \notin faults => \A k \in DOMAIN list : ~list[k].done
  BY <1>1 DEF SingleInv, EntryInv, Copying
<1>6. d \in Listed /\ d \in Descs /\ d # None
  BY <1>2, <1>4, <1>5, OpenFacts DEF Listed
<1>7. \A k \in DOMAIN list : k # pos => list[k].desc # list[pos].desc
  BY <1>4, <1>5, <1>6 DEF DescriptorsKept
<1>8. /\ \A j, k \in DOMAIN list : j # k => list[j].desc # list[k].desc
      /\ free \cap Listed = {} /\ free \cup Listed = Descs /\ free \subseteq Descs
  <2>1. \A j \in DOMAIN list : list[j].desc # None
    BY <1>5 DEF Listed
  <2> QED BY <1>1, <1>2, <1>5, <2>1 DEF DescriptorsKept, TypeOK
<1>9. CASE list[pos].done \/ status[d] = "none"
  <2>1. pos' = pos + 1 /\ UNCHANGED <<list, free, pollEntry, faults>>
    BY <1>9 DEF PollEntry
  <2>2. PollPass
    BY <1>1, <1>4, <2>1 DEF PollPass
  <2> QED BY <2>2, PollPassStep
<1>10. CASE ~list[pos].done /\ status[d] = "success"
  <2>1. /\ pollEntry' = pollEntry + 1 /\ list' = RemoveAt(list, pos) /\ free' = free \cup {d}
        /\ UNCHANGED <<pos, faults>>
    BY <1>10, SMTT(40) DEF PollEntry
  <2>2. /\ list' \in Seq(Entry) /\ Len(list') = Len(list) - 1
        /\ DOMAIN list' = 1 .. Len(list) - 1
        /\ \A k \in DOMAIN list' : list'[k] = IF k < pos THEN list[k] ELSE list[k + 1]
        /\ Listed' = Listed \ {d} /\ Open' = Open \ {d}
    BY <1>2, <1>4, <1>7, <2>1, Unlinking
  <2>3. /\ \A k \in DOMAIN list' : k \in DOMAIN list /\ k + 1 \in DOMAIN list
        /\ \A j, k \in DOMAIN list' : j # k => j + 1 # k + 1
        /\ \A j, k \in DOMAIN list' : j < pos /\ ~(k < pos) => j # k + 1
    BY <1>4, <2>2
  <2>4. d \in Open
    BY <1>4, <1>10 DEF Open
  <2>5. TypeOK'
    <3>1. pos' \in 1 .. Len(list') + 1 /\ free' \subseteq Descs
      BY <1>1, <1>4, <1>6, <1>8, <2>1, <2>2
    <3> QED BY <1>1, <1>2, <1>3, <2>2, <3>1 DEF TypeOK
  <2>6. RoundInv'
    BY <1>1, <1>2, <1>3, <2>1 DEF SingleInv, RoundInv, Setup, Copying
  <2>7. EntryInv'
    <3>1. \A j, k \in DOMAIN list' : j # k => list'[j].desc # list'[k].desc
      BY <1>8, <2>2, <2>3
    <3>2. free' \cap Listed' = {} /\ free' \cup (Listed' \ {None}) = Descs
      BY <1>5, <1>6, <1>8, <2>1, <2>2
    <3>3. "error" \notin faults' => \A k \in DOMAIN list' : ~list'[k].done
      BY <1>5, <2>1, <2>2, <2>3
    <3> QED BY <1>1, <1>5, <2>1, <2>2, <3>1, <3>2, <3>3 DEF EntryInv, DescriptorsKept
  <2>8. Waits' => DeviceInv'
    <3> SUFFICES ASSUME Waits' PROVE DeviceInv'
      OBVIOUS
    <3>1. DeviceInv
      BY <1>1, <2>1, FaultsGrow DEF SingleInv
    <3>2. \A q \in AtDevice : q[1] \in Open \ {d} /\ status[q[1]] = "none"
      BY <1>1, <1>10, <3>1 DEF DeviceInv
    <3>3. pollEntry' + Cardinality(Open') = Nents'
      <4>1. IsFiniteSet(Open)
        BY <1>2, OpenFacts
      <4>2. Cardinality(Open \ {d}) = Cardinality(Open) - 1
        BY <2>4, <4>1, FS_RemoveElement
      <4>3. Cardinality(Open) \in Nat /\ pollEntry + Cardinality(Open) = Nents
        BY <1>1, <3>1, <4>1, FS_CardinalityType DEF DeviceInv
      <4> QED BY <1>2, <1>3, <2>1, <2>2, <4>2, <4>3
    <3> QED BY <1>1, <1>3, <2>2, <3>1, <3>2, <3>3 DEF DeviceInv, Setup
  <2>9. Clean' => PagesInv'
    <3> SUFFICES ASSUME Clean' PROVE PagesInv'
      OBVIOUS
    <3>1. PagesInv
      BY <1>1, <2>1, FaultsGrow DEF SingleInv
    <3>2. chunk[d] \subseteq copied
      BY <1>6, <1>10, <3>1 DEF PagesInv
    <3>3. \A k \in Pages : Given(k) =>
             order[k] \in copied \/ \E c \in Listed' : order[k] \in chunk[c]
      BY <1>1, <2>2, <3>1, <3>2 DEF PagesInv, Copying
    <3>4. \A c \in Listed' : status[c] = "success" => chunk[c] \subseteq copied
      BY <2>2, <3>1 DEF PagesInv
    <3> QED BY <1>1, <1>3, <3>1, <3>3, <3>4 DEF PagesInv
  <2>10. MappingInv'
    BY <1>1, <2>1, MappingKept DEF SingleInv, Copying
  <2> QED BY <2>5, <2>6, <2>7, <2>8, <2>9, <2>10 DEF SingleInv
<1>11. CASE ~list[pos].done /\ status[d] \notin {"none", "success"}
  <2>1. /\ pollEntry' = pollEntry + 1 /\ list' = [list EXCEPT ![pos].done = TRUE] /\ pos' = pos + 1
        /\ faults' = faults \cup {"error"} /\ free' = free
    BY <1>11 DEF PollEntry
  <2>2. /\ list' \in Seq(Entry) /\ Len(list') = Len(list) /\ DOMAIN list' = DOMAIN list
        /\ \A k \in DOMAIN list : list'[k].desc = list[k].desc
        /\ Listed' = Listed /\ Open' = Open \ {d}
    BY <1>2, <1>4, <1>7, <2>1, Marking
  <2>3. d \in Open
    BY <1>4, <1>11 DEF Open
  <2>4. TypeOK'
    <3>1. pos' \in 1 .. Len(list') + 1
      BY <1>1, <1>4, <2>1, <2>2
    <3> QED BY <1>1, <1>2, <1>3, <2>1, <2>2, <3>1 DEF TypeOK
  <2>5. RoundInv'
    BY <1>1, <1>2, <1>3, <2>1 DEF SingleInv, RoundInv, Setup, Copying
  <2>6. EntryInv'
    <3>1. \A j, k \in DOMAIN list' : j # k => list'[j].desc # list'[k].desc
      BY <1>8, <2>2
    <3>2. free' \cap Listed' = {} /\ free' \cup (Listed' \ {None}) = Descs
      BY <1>5, <1>8, <2>1, <2>2
    <3> QED BY <1>1, <1>5, <2>1, <2>2, <3>1, <3>2 DEF EntryInv, DescriptorsKept
  <2>7. Waits' => DeviceInv'
    <3> SUFFICES ASSUME Waits' PROVE DeviceInv'
      OBVIOUS
    <3>1. DeviceInv
      BY <1>1, <2>1, FaultsGrow DEF SingleInv
    <3>2. \A q \in AtDevice : q[1] \in Open \ {d} /\ status[q[1]] = "none"
      BY <1>1, <1>11, <3>1 DEF DeviceInv
    <3>3. pollEntry' + Cardinality(Open') = Nents'
      <4>1. IsFiniteSet(Open)
        BY <1>2, OpenFacts
      <4>2. Cardinality(Open \ {d}) = Cardinality(Open) - 1
        BY <2>3, <4>1, FS_RemoveElement
      <4>3. Cardinality(Open) \in Nat /\ pollEntry + Cardinality(Open) = Nents
        BY <1>1, <3>1, <4>1, FS_CardinalityType DEF DeviceInv
      <4> QED BY <1>2, <1>3, <2>1, <2>2, <4>2, <4>3
    <3> QED BY <1>1, <1>3, <2>2, <3>1, <3>2, <3>3 DEF DeviceInv, Setup
  <2>8. ~Clean'
    BY <2>1 DEF Clean
  <2>9. MappingInv'
    BY <1>1, <2>1, MappingKept DEF SingleInv, Copying
  <2> QED BY <2>4, <2>5, <2>6, <2>7, <2>8, <2>9 DEF SingleInv
<1> QED BY <1>9, <1>10, <1>11

\* The end of a round, by the count or by the poll limit.
RoundEnds ==
  /\ pc = "poll" /\ EndRound /\ faults' \subseteq faults \cup {"timeout"} /\ faults \subseteq faults'
  /\ pollEntry < Nents => "timeout" \in faults'
  /\ UNCHANGED <<job, order, areas, tables, chan, mapped, list, pos, pollEntry, free, status, chunk,
                 queue, copied>>

\* The entries of the rounds that are over have all been given out.
LEMMA RoundGiven ==
  ASSUME SingleInv, RoundEnds, NEW k \in Pages, Given(k)'
  PROVE  Given(k)
<1>1. pc = "poll" /\ round' = round + 1 /\ i' = 0 /\ job' = job
  BY DEF RoundEnds, EndRound
<1>2. /\ job \in Jobs /\ round \in Nat /\ round < LoopTimes /\ LoopTimes \in Nat
      /\ Pages = 1 .. job.npages /\ job.npages \in Nat /\ Nents \in 1 .. job.npages
      /\ NumDescs \in Nat /\ MaxBatch \in Nat
  BY <1>1, CopyingFacts DEF Copying
<1>3. i = Nents /\ LoopTimes' = LoopTimes /\ Loops' = Loops
  BY <1>1, JobKept DEF SingleInv, RoundInv
<1>4. CASE ~Loops
  <2>1. job.npages <= Nents * MaxBatch /\ Nents * MaxBatch \in Nat
    BY <1>2, <1>4, RoundFacts, Products
  <2> DEFINE c == Nents * MaxBatch
  <2>2. Given(k) <=> (round = LoopTimes \/ k <= c)
    BY <1>3, <1>4 DEF Given
  <2> HIDE DEF c
  <2>3. job.npages <= c /\ c \in Nat
    BY <2>1 DEF c
  <2> QED BY <1>2, <2>2, <2>3
<1>5. CASE Loops
  <2> DEFINE b == round * NumDescs
             c == (round + 1) * NumDescs
  <2>1. b \in Nat /\ c = b + NumDescs
    BY <1>2, Products
  <2>2. /\ round + 1 < LoopTimes => Nents = NumDescs
        /\ round + 1 = LoopTimes => b + Nents = job.npages
    BY <1>2, <1>5, RoundFacts
  <2>3. Given(k) <=> (round = LoopTimes \/ k <= b + Nents)
    BY <1>3, <1>5 DEF Given
  <2>4. round + 1 = LoopTimes \/ k <= c + 0
    BY <1>1, <1>3, <1>5 DEF Given
  <2> HIDE DEF b, c
  <2> QED BY <1>2, <2>1, <2>2, <2>3, <2>4
<1> QED BY <1>4, <1>5

LEMMA RoundEndsStep ==
  ASSUME SingleInv, RoundEnds
  PROVE  SingleInv'
<1>1. /\ pc = "poll" /\ round' = round + 1 /\ i' = 0
      /\ pc' = IF round + 1 < LoopTimes THEN "alloc" ELSE "unmap"
      /\ faults' \subseteq faults \cup {"timeout"} /\ faults \subseteq faults'
      /\ pollEntry < Nents => "timeout" \in faults'
      /\ UNCHANGED <<job, order, areas, tables, chan, mapped, list, pos, pollEntry, free, status, chunk,
                     queue, copied>>
  BY DEF RoundEnds, EndRound
<1>2. /\ TypeOK /\ job \in Jobs /\ round \in Nat /\ round < LoopTimes /\ LoopTimes \in Nat \ {0}
      /\ Pages = 1 .. job.npages /\ job.npages \in Nat /\ Nents \in 1 .. job.npages
      /\ NumDescs \in Nat /\ MaxBatch \in Nat /\ pollEntry \in Nat
  BY <1>1, CopyingFacts DEF Copying
<1>3. /\ Pages' = Pages /\ LoopTimes' = LoopTimes /\ Loops' = Loops /\ AtDevice' = AtDevice
      /\ Listed' = Listed /\ Open' = Open
  BY <1>1, JobKept, QueueKept, ListKept
<1>4. /\ round + 1 < LoopTimes => pc' = "alloc"
      /\ ~(round + 1 < LoopTimes) => pc' = "unmap" /\ round' = LoopTimes
      /\ round' \in 0 .. LoopTimes
  BY <1>1, <1>2
<1>5. round + 1 < LoopTimes => Nents' \in Nat
  <2> SUFFICES ASSUME round + 1 < LoopTimes PROVE Nents' \in Nat
    OBVIOUS
  <2>1. job' \in Jobs /\ round' \in Nat /\ round' < LoopTimes' /\ job'.npages \in Nat
    BY <1>1, <1>2, <1>3
  <2>2. (job \in Jobs /\ round \in Nat /\ round < LoopTimes => Nents \in 1 .. job.npages)'
    BY RoundFacts, PTL
  <2> QED BY <2>1, <2>2
<1>6. None \notin Listed /\ "alloc" \notin faults'
  BY <1>1 DEF SingleInv, EntryInv, Copying
<1>7. Waits' => AtDevice = {} /\ Open = {} /\ ("error" \notin faults => Listed = {} /\ list = <<>>)
  <2> SUFFICES ASSUME Waits' PROVE AtDevice = {} /\ Open = {} /\ ("error" \notin faults => Listed = {} /\ list = <<>>)
    OBVIOUS
  <2>1. DeviceInv /\ ~(pollEntry < Nents)
    BY <1>1, FaultsGrow DEF SingleInv, Waits
  <2>2. IsFiniteSet(Open) /\ Cardinality(Open) \in Nat /\ pollEntry + Cardinality(Open) = Nents
    BY <1>1, <1>2, <2>1, OpenFacts, FS_CardinalityType DEF DeviceInv
  <2>3. Open = {}
    <3>1. Cardinality(Open) = 0
      BY <1>2, <2>1, <2>2
    <3> QED BY <2>2, <3>1, FS_EmptySet
  <2>4. AtDevice = {}
    BY <1>1, <2>1, <2>3 DEF DeviceInv
  <2>5. ASSUME "error" \notin faults PROVE Listed = {} /\ list = <<>>
    <3>1. \A k \in DOMAIN list : ~list[k].done
      BY <2>5 DEF SingleInv, EntryInv
    <3>2. DOMAIN list = {}
      BY <2>3, <3>1 DEF Open
    <3>3. list = <<>>
      BY <1>2, <3>2, OpenFacts
    <3> QED BY <3>3, NoEntries
  <2> QED BY <2>3, <2>4, <2>5
<1>8. TypeOK'
  <2>1. i' \in 0 .. job.npages
    BY <1>1, <1>2
  <2> QED BY <1>1, <1>2, <1>3, <1>4, <2>1 DEF TypeOK
<1>9. RoundInv'
  <2>1. pc' = "alloc" => round' < LoopTimes' /\ i' \in 0 .. Nents'
    BY <1>1, <1>3, <1>4, <1>5
  <2> QED BY <1>1, <1>2, <1>3, <1>4, <2>1 DEF RoundInv, Setup, Copying
<1>10. EntryInv'
  <2>1. DescriptorsKept'
    BY <1>1, <1>3 DEF SingleInv, EntryInv, DescriptorsKept
  <2> QED BY <1>1, <1>3, <1>6, <2>1 DEF SingleInv, EntryInv
<1>11. Waits' => DeviceInv'
  <2> SUFFICES ASSUME Waits' PROVE DeviceInv'
    OBVIOUS
  <2>1. pc' = "alloc" => "error" \notin faults
    BY <1>1, <1>2, <1>3, <1>4 DEF Waits
  <2>2. pc' = "alloc" => list' = <<>>
    BY <1>1, <1>7, <2>1
  <2>3. Cardinality(Open') = 0
    BY <1>3, <1>7, FS_EmptySet
  <2>4. AtDevice' = {}
    BY <1>3, <1>7
  <2> QED BY <1>1, <1>4, <2>2, <2>3, <2>4 DEF DeviceInv
<1>12. Clean' => PagesInv'
  <2> SUFFICES ASSUME Clean' PROVE PagesInv'
    OBVIOUS
  <2>1. PagesInv /\ Waits'
    <3>1. Clean' => Waits'
      BY DEF Clean, Waits
    <3> QED BY <1>1, <3>1, FaultsGrow DEF SingleInv
  <2>2. Listed = {}
    BY <1>1, <1>7, <2>1 DEF Clean
  <2>3. \A k \in Pages : Given(k)' => order[k] \in copied
    <3>1. \A k \in Pages : Given(k)' => Given(k)
      BY RoundGiven
    <3> QED BY <1>1, <2>1, <2>2, <3>1 DEF PagesInv, Copying
  <2> QED BY <1>1, <1>3, <2>1, <2>2, <2>3 DEF PagesInv
<1>13. MappingInv'
  BY <1>1, MappingKept DEF SingleInv, Copying
<1> QED BY <1>8, <1>9, <1>10, <1>11, <1>12, <1>13 DEF SingleInv

LEMMA PollDoneStep ==
  ASSUME SingleInv, PollDone \/ PollLimit
  PROVE  SingleInv'
<1>1. pollEntry \in Nat /\ Nents \in Nat
  BY CopyingFacts DEF Copying, PollDone, PollLimit
<1>2. RoundEnds
  BY <1>1 DEF PollDone, PollLimit, RoundEnds, setupVars, descVars, deviceVars
<1> QED BY <1>2, RoundEndsStep

-----------------------------------------------------------------------------
(* The end of dsa_copy, my_exit, and the device.                           *)

LEMMA UnmapStep ==
  ASSUME SingleInv, Unmap
  PROVE  SingleInv'
<1>1. /\ pc = "unmap" /\ pc' = "compare" /\ mapped' = mapped \ {1, 2} /\ tables' = tables \ {1, 2}
      /\ UNCHANGED <<job, order, areas, chan, round, i, list, pos, pollEntry, free, status, chunk,
                     queue, copied, faults>>
  BY DEF Unmap, loopVars, descVars, deviceVars
<1>2. /\ Pages' = Pages /\ LoopTimes' = LoopTimes /\ Nents' = Nents /\ AtDevice' = AtDevice
      /\ Listed' = Listed /\ Open' = Open /\ \A k : Given(k)' = Given(k)
  BY <1>1, JobKept, QueueKept, ListKept
<1>3. TypeOK'
  <2>1. tables' \subseteq 1 .. 4 /\ mapped' \subseteq 1 .. 4
    BY <1>1 DEF SingleInv, TypeOK
  <2> QED BY <1>1, <1>2, <2>1 DEF SingleInv, TypeOK
<1>4. RoundInv'
  BY <1>1, <1>2 DEF SingleInv, RoundInv, Setup, Copying
<1>5. EntryInv'
  <2>1. DescriptorsKept'
    BY <1>1, <1>2 DEF SingleInv, EntryInv, DescriptorsKept
  <2> QED BY <1>1, <1>2, <2>1 DEF SingleInv, EntryInv, Copying
<1>6. Waits' => DeviceInv'
  BY <1>1, <1>2, FaultsGrow DEF SingleInv, DeviceInv, Setup
<1>7. Clean' => PagesInv'
  BY <1>1, <1>2, FaultsGrow DEF SingleInv, PagesInv
<1>8. MappingInv'
  <2>1. /\ mapped' \subseteq {1, 2, 3} /\ (3 \in mapped' => "test" \in faults') /\ mapped' \cap {1, 2} = {}
        /\ areas' # "freed"
    BY <1>1 DEF SingleInv, MappingInv
  <2> QED BY <1>1, <2>1 DEF MappingInv, Setup
<1> QED BY <1>3, <1>4, <1>5, <1>6, <1>7, <1>8 DEF SingleInv

LEMMA CompareStep ==
  ASSUME SingleInv, Compare
  PROVE  SingleInv'
<1>1. /\ pc = "compare" /\ pc' = "loaded" /\ faults \subseteq faults' /\ faults' \subseteq faults \cup {"differs"}
      /\ UNCHANGED <<job, order, areas, tables, chan, mapped, round, i, list, pos, pollEntry, free, status,
                     chunk, queue, copied>>
  BY DEF Compare, setupVars, loopVars, descVars, deviceVars
<1>2. /\ Pages' = Pages /\ LoopTimes' = LoopTimes /\ Nents' = Nents /\ AtDevice' = AtDevice
      /\ Listed' = Listed /\ Open' = Open
  BY <1>1, JobKept, QueueKept, ListKept
<1>3. TypeOK'
  BY <1>1, <1>2 DEF SingleInv, TypeOK
<1>4. RoundInv'
  BY <1>1 DEF SingleInv, RoundInv, Setup, Copying
<1>5. EntryInv'
  <2>1. DescriptorsKept'
    BY <1>1, <1>2 DEF SingleInv, EntryInv, DescriptorsKept
  <2> QED BY <1>1, <1>2, <2>1 DEF SingleInv, EntryInv, Copying
<1>6. Waits' => DeviceInv'
  BY <1>1, <1>2, FaultsGrow DEF SingleInv, DeviceInv, Setup
<1>7. Clean' => PagesInv'
  BY <1>1, <1>2, FaultsGrow DEF SingleInv, PagesInv, Copying
<1>8. MappingInv'
  BY <1>1 DEF SingleInv, MappingInv, Setup
<1> QED BY <1>3, <1>4, <1>5, <1>6, <1>7, <1>8 DEF SingleInv

LEMMA ExitStep ==
  ASSUME SingleInv, ExitModule
  PROVE  SingleInv'
<1>1. /\ pc = "loaded" /\ pc' = "unloaded" /\ list' = <<>> /\ pos' = 1 /\ areas' = "freed"
      /\ tables' = tables \ {3, 4} /\ chan' = FALSE
      /\ UNCHANGED <<job, order, mapped, round, i, pollEntry, free, status, chunk, queue, copied, faults>>
  BY DEF ExitModule, descVars, deviceVars
<1>2. /\ Pages' = Pages /\ LoopTimes' = LoopTimes /\ Nents' = Nents /\ AtDevice' = AtDevice
  BY <1>1, JobKept, QueueKept
<1>3. Listed' = {} /\ Open' = {}
  BY <1>1 DEF Listed, Open
<1>4. TypeOK'
  <2>1. tables' \subseteq 1 .. 4
    BY <1>1 DEF SingleInv, TypeOK
  <2>2. chan' \in BOOLEAN
    BY <1>1, Zenon
  <2>3. list' \in Seq(Entry) /\ pos' \in 1 .. Len(list') + 1
    BY <1>1
  <2> QED BY <1>1, <1>2, <2>1, <2>2, <2>3 DEF SingleInv, TypeOK
<1>5. RoundInv'
  BY <1>1 DEF SingleInv, RoundInv, Setup, Copying
<1>6. EntryInv'
  BY <1>1, <1>3 DEF EntryInv, DescriptorsKept, Copying
<1>7. Waits' => DeviceInv'
  BY <1>1, <1>2, FaultsGrow DEF SingleInv, DeviceInv, Setup
<1>8. Clean' => PagesInv'
  BY <1>1, <1>2, <1>3, FaultsGrow DEF SingleInv, PagesInv, Copying
<1>9. MappingInv'
  BY <1>1 DEF SingleInv, MappingInv, Setup
<1> QED BY <1>4, <1>5, <1>6, <1>7, <1>8, <1>9 DEF SingleInv

LEMMA DeviceStep ==
  ASSUME SingleInv, NEW d \in Descs, DeviceCopies(d)
  PROVE  SingleInv'
<1>1. PICK c \in SUBSET Pages :
          /\ BagIn(<<d, c>>, queue) /\ queue' = queue (-) SetToBag({<<d, c>>})
          /\ \/ copied' = copied \cup c /\ status' = [status EXCEPT ![d] = "success"]
             \/ (CopyFails \/ "map" \in faults) /\ status' = [status EXCEPT ![d] = "error"] /\ copied' = copied
  BY DEF DeviceCopies
<1> DEFINE e == <<d, c>>
<1>2. UNCHANGED <<job, order, pc, areas, tables, chan, mapped, round, i, list, pos, pollEntry, free,
                  chunk, faults>>
  BY DEF DeviceCopies, setupVars, loopVars
<1>3. e[1] = d /\ e[2] = c
  OBVIOUS
<1> HIDE DEF e
<1>4. TypeOK /\ IsABag(queue)
  BY DEF SingleInv, TypeOK
<1>5. /\ e \in AtDevice /\ IsABag(queue') /\ AtDevice' \subseteq AtDevice
      /\ queue[e] = 1 => e \notin AtDevice'
      /\ \A x \in AtDevice : x # e => queue'[x] = queue[x]
  <2> DEFINE B == queue (-) SetToBag({e})
  <2>1. BagIn(e, queue) /\ queue' = B
    BY <1>1 DEF e
  <2>2. /\ IsABag(B) /\ BagToSet(B) \subseteq BagToSet(queue)
        /\ queue[e] = 1 => e \notin BagToSet(B)
        /\ \A x \in BagToSet(queue) : x # e => B[x] = queue[x]
    BY <1>4, <2>1, BagMinus
  <2> HIDE DEF B
  <2> QED BY <2>1, <2>2 DEF AtDevice, BagIn
<1>6. /\ Pages' = Pages /\ LoopTimes' = LoopTimes /\ Nents' = Nents
      /\ Listed' = Listed /\ Open' = Open /\ \A k : Given(k)' = Given(k)
  BY <1>2, JobKept, ListKept
<1>7. /\ status' \in [Descs -> {"none", "success", "error"}]
      /\ \A b \in Descs : b # d => status'[b] = status[b]
      /\ status'[d] = "success" => c \subseteq copied'
      /\ copied \subseteq copied' /\ copied' \subseteq Pages
  BY <1>1, <1>4 DEF TypeOK
<1>8. TypeOK'
  BY <1>2, <1>4, <1>5, <1>6, <1>7 DEF TypeOK
<1>9. RoundInv'
  BY <1>2, <1>6 DEF SingleInv, RoundInv
<1>10. EntryInv'
  <2>1. DescriptorsKept'
    BY <1>2, <1>6 DEF SingleInv, EntryInv, DescriptorsKept
  <2> QED BY <1>2, <1>6, <2>1 DEF SingleInv, EntryInv
<1>11. \A k \in DOMAIN list : list[k].desc # None => list[k].desc \in Descs
  BY <1>4, OpenFacts DEF Listed
<1>12. Waits' => DeviceInv'
  <2> SUFFICES ASSUME Waits' PROVE DeviceInv'
    OBVIOUS
  <2>1. DeviceInv
    BY <1>2, FaultsGrow DEF SingleInv
  <2>2. \A q, r \in AtDevice : q[1] = r[1] => q = r /\ queue[q] = 1
    BY <2>1 DEF DeviceInv
  <2>3. queue[e] = 1
    BY <1>5, <2>2
  <2>4. \A q \in AtDevice' : q \in AtDevice /\ q[1] # d
    BY <1>3, <1>5, <2>2, <2>3
  <2>5. \A q \in AtDevice' : queue'[q] = queue[q]
    BY <1>3, <1>5, <2>4
  <2>6. \A q, r \in AtDevice' : q[1] = r[1] => q = r /\ queue'[q] = 1
    BY <2>2, <2>4, <2>5
  <2>7. /\ pc' \in Setup \cup {"notloaded", "alloc", "unmap", "compare"} => AtDevice' = {}
        /\ pc' \in {"loaded", "unloaded"} /\ "submit" \notin faults' => AtDevice' = {}
    BY <1>2, <1>5, <2>1 DEF DeviceInv
  <2>8. pc' \in {"submit", "poll"} => \A q \in AtDevice' : q[1] \in Open' /\ status'[q[1]] = "none"
    <3>1. \A q \in AtDevice : q[1] \in Descs
      BY <1>4 DEF TypeOK
    <3> QED BY <1>2, <1>6, <1>7, <2>1, <2>4, <3>1 DEF DeviceInv
  <2>9. ASSUME pc' \in {"alloc", "submit"}, NEW k \in DOMAIN list'
        PROVE  /\ ~list'[k].done
               /\ pc' = "alloc" \/ k >= pos' =>
                     /\ list'[k].desc # None => status'[list'[k].desc] = "none"
                     /\ \A q \in AtDevice' : q[1] # list'[k].desc
    <3>1. pc = "submit" /\ ~list[k].done
      BY <1>2, <1>5, <2>1, <2>9 DEF DeviceInv
    <3>2. k >= pos => /\ list[k].desc # None => status[list[k].desc] = "none"
                      /\ \A q \in AtDevice : q[1] # list[k].desc
      BY <1>2, <2>1, <2>9, <3>1 DEF DeviceInv
    <3>3. k >= pos => list[k].desc # d
      BY <1>3, <1>5, <3>2
    <3> QED BY <1>2, <1>7, <1>11, <2>4, <3>1, <3>2, <3>3
  <2>10. /\ pc' \in {"alloc", "submit"} /\ "alloc" \notin faults' => Cardinality(Open') = i'
         /\ pc' = "poll" => pollEntry' + Cardinality(Open') = Nents'
    BY <1>2, <1>6, <2>1 DEF DeviceInv
  <2> QED BY <2>6, <2>7, <2>8, <2>9, <2>10 DEF DeviceInv
<1>13. Clean' => PagesInv'
  <2> SUFFICES ASSUME Clean' PROVE PagesInv'
    OBVIOUS
  <2>1. PagesInv
    BY <1>2, FaultsGrow DEF SingleInv
  <2>2. \A q \in AtDevice' : q[2] = chunk'[q[1]]
    BY <1>2, <1>5, <2>1 DEF PagesInv
  <2>3. chunk[d] = c
    BY <1>3, <1>5, <2>1 DEF PagesInv
  <2>4. ASSUME NEW b \in Listed', status'[b] = "success" PROVE chunk'[b] \subseteq copied'
    <3>1. CASE b = d
      BY <1>2, <1>7, <2>3, <2>4, <3>1
    <3>2. CASE b # d
      <4>1. b \in Descs
        <5>1. "alloc" \notin faults
          BY <1>2 DEF Clean
        <5>2. None \notin Listed
          BY <5>1 DEF SingleInv, EntryInv
        <5> QED BY <1>4, <1>6, <2>4, <5>2, OpenFacts
      <4> QED BY <1>2, <1>6, <1>7, <2>1, <2>4, <3>2, <4>1 DEF PagesInv
    <3> QED BY <3>1, <3>2
  <2>5. \A k \in Pages : pc \in Copying \cup {"unmap", "compare"} /\ Given(k) =>
           order[k] \in copied' \/ \E b \in Listed : order[k] \in chunk[b]
    BY <1>7, <2>1 DEF PagesInv
  <2> QED BY <1>2, <1>6, <2>1, <2>2, <2>4, <2>5 DEF PagesInv
<1>14. MappingInv'
  BY <1>2 DEF SingleInv, MappingInv
<1> QED BY <1>8, <1>9, <1>10, <1>12, <1>13, <1>14 DEF SingleInv

-----------------------------------------------------------------------------
(* The theorems.                                                           *)

LEMMA StepInv ==
  ASSUME SingleInv, [Next]_vars
  PROVE  SingleInv'
<1>1. CASE CopyThread
  BY <1>1, SetupStep, AllocDescStep, AllocDoneStep, SubmitEntryStep, SubmitDoneStep, PollEntryStep,
     PollAgainStep, PollDoneStep, UnmapStep, CompareStep, Zenon DEF CopyThread, SetupAction
<1>2. CASE Failures
  BY <1>2, AllocFailsStep, SubmitFailsStep, PollDoneStep, Zenon DEF Failures
<1>3. CASE ExitModule
  BY <1>3, ExitStep
<1>4. CASE Device
  BY <1>4, DeviceStep, Zenon DEF Device
<1>5. CASE UNCHANGED vars
  <2>1. UNCHANGED <<job, order, pc, areas, tables, chan, mapped, round, i, list, pos, pollEntry, free, status,
                    chunk, queue, copied, faults>>
    BY <1>5 DEF vars, setupVars, loopVars, descVars, deviceVars
  <2>2. /\ Pages' = Pages /\ LoopTimes' = LoopTimes /\ Nents' = Nents /\ AtDevice' = AtDevice
        /\ Listed' = Listed /\ Open' = Open /\ \A k : Given(k)' = Given(k)
    BY <2>1, JobKept, QueueKept, ListKept
  <2>3. TypeOK' /\ RoundInv' /\ MappingInv'
    BY <2>1, <2>2 DEF SingleInv, TypeOK, RoundInv, MappingInv
  <2>4. EntryInv'
    BY <2>1, <2>2 DEF SingleInv, EntryInv, DescriptorsKept
  <2>5. Waits' => DeviceInv'
    BY <2>1, <2>2, FaultsGrow DEF SingleInv, DeviceInv
  <2>6. Clean' => PagesInv'
    BY <2>1, <2>2, FaultsGrow DEF SingleInv, PagesInv
  <2> QED BY <2>3, <2>4, <2>5, <2>6 DEF SingleInv
<1> QED BY <1>1, <1>2, <1>3, <1>4, <1>5 DEF Next

\* The inductive invariant of the rounds, the list, the device and the buffers,
\* for any page count, number of descriptors, batch size and failures of
\* my_init, dsa_copy and my_exit.
THEOREM SingleInvHolds == Spec => []SingleInv
  BY InitInv, StepInv, PTL DEF Spec

\* Each descriptor of the queue stays free or listed once through every round,
\* error and poll limit of dsa_copy, and the device is given none twice unless
\* a round ended with an entry that had not succeeded.
THEOREM DescriptorsSoundHolds == Spec => []DescriptorsSound
<1>1. SingleInv => DescriptorsSound
  <2> SUFFICES ASSUME SingleInv PROVE DescriptorsSound
    OBVIOUS
  <2>1. ASSUME faults \cap {"timeout", "error"} = {}
        PROVE  \A q, r \in AtDevice : q[1] = r[1] => q = r /\ queue[q] = 1
    <3>1. Waits
      BY <2>1 DEF Waits
    <3> QED BY <3>1 DEF SingleInv, DeviceInv
  <2>2. SubmittedOnce
    BY <2>1 DEF SubmittedOnce
  <2> QED BY <2>2 DEF SingleInv, EntryInv, DescriptorsSound
<1> QED BY <1>1, SingleInvHolds, PTL

\* The pages are unmapped under the device, or freed while mapped, only after
\* the failures of dsa_copy and test that the two parts name.
THEOREM BuffersSoundHolds == Spec => []BuffersSound
<1>1. SingleInv => BuffersSound
  <2> SUFFICES ASSUME SingleInv PROVE BuffersSound
    OBVIOUS
  <2>1. LoopTimes \in Nat \ {0}
    BY JobFacts DEF SingleInv, TypeOK
  <2>2. ASSUME pc \in {"compare", "loaded", "unloaded"}, AtDevice # {}, "submit" \notin faults,
               "timeout" \notin faults
        PROVE  "error" \in faults /\ LoopTimes > 1
    <3>1. ~Waits
      BY <2>2 DEF SingleInv, DeviceInv
    <3> QED BY <2>1, <2>2, <3>1 DEF Waits
  <2>3. QuietAtUnmap
    BY <2>2 DEF QuietAtUnmap
  <2>4. MappedWhileLive
    <3>1. MappingInv
      BY DEF SingleInv
    <3>2. ASSUME mapped \ tables # {} PROVE "test" \in faults \/ "tables" \in faults
      <4>1. PICK m \in mapped : m \notin tables
        BY <3>2
      <4>2. m \in {1, 2, 3}
        BY <3>1 DEF MappingInv
      <4>3. CASE m = 3
        BY <3>1, <4>3 DEF MappingInv
      <4>4. CASE m \in {1, 2}
        BY <3>1, <4>1, <4>4 DEF MappingInv
      <4> QED BY <4>2, <4>3, <4>4
    <3>3. ASSUME areas = "freed", mapped # {} PROVE faults \cap {"test", "submit"} # {}
      <4>1. pc = "unloaded"
        BY <3>1, <3>3 DEF MappingInv
      <4>2. CASE 3 \in mapped
        BY <3>1, <4>2 DEF MappingInv
      <4>3. CASE 3 \notin mapped
        BY <3>1, <3>3, <4>1, <4>3 DEF MappingInv
      <4> QED BY <4>2, <4>3
    <3> QED BY <3>2, <3>3 DEF MappedWhileLive
  <2> QED BY <2>3, <2>4 DEF BuffersSound
<1> QED BY <1>1, SingleInvHolds, PTL

\* What a program that reports without a fault has done.
LEMMA Finished ==
  ASSUME SingleInv, Clean
  PROVE  /\ pc = "compare" => copied = Pages
         /\ Reported => AtDevice = {}
<1>1. Waits /\ DeviceInv /\ PagesInv
  BY DEF SingleInv, Waits, Clean
<1>2. Reported => AtDevice = {}
  BY <1>1 DEF DeviceInv, Reported, Clean
<1>3. ASSUME pc = "compare" PROVE copied = Pages
  <2>1. round = LoopTimes
    BY <1>3 DEF SingleInv, RoundInv
  <2>2. \A k \in Pages : order[k] \in copied
    BY <1>1, <1>3, <2>1 DEF PagesInv, Given
  <2>3. Pages \subseteq copied
    BY <1>1, <2>2 DEF PagesInv
  <2> QED BY <2>3 DEF SingleInv, TypeOK
<1> QED BY <1>2, <1>3

\* A program whose last step is not the device's copies nothing by it, and says
\* done only after it has compared all its pages.
LEMMA ThreadPromise ==
  ASSUME SingleInv, CopyThread \/ Failures \/ ExitModule
  PROVE  /\ copied' = copied /\ Pages' = Pages
         /\ \/ Outcome' = Outcome
            \/ Outcome = "running" /\ Outcome' = "gaveup"
            \/ Outcome = "running" /\ Outcome' = "done" /\ copied = Pages
<1> USE DEF setupVars, loopVars, descVars, deviceVars
<1>1. copied' = copied /\ job' = job /\ faults \subseteq faults'
  BY DEF CopyThread, Failures, InitRegion, InitDsa, Test, VmallocToSgtable, SgtableToDmaMap,
         AllocDesc, AllocDone, SubmitEntry, SubmitDone, PollEntry, PollAgain, PollDone, Unmap, Compare,
         AllocFails, SubmitFails, PollLimit, ExitModule
<1>2. Reported => Reported'
  BY DEF CopyThread, Failures, InitRegion, InitDsa, Test, VmallocToSgtable, SgtableToDmaMap,
         AllocDesc, AllocDone, SubmitEntry, SubmitDone, PollEntry, PollAgain, PollDone, Unmap, Compare,
         AllocFails, SubmitFails, PollLimit, ExitModule, Reported
<1>3. Reported' => Reported \/ pc = "compare" \/ "submit" \in faults'
  BY DEF CopyThread, Failures, InitRegion, InitDsa, Test, VmallocToSgtable, SgtableToDmaMap,
         AllocDesc, AllocDone, SubmitEntry, SubmitDone, PollEntry, PollAgain, PollDone, EndRound, Unmap,
         Compare, AllocFails, SubmitFails, PollLimit, ExitModule, Reported
<1>4. Reported => faults' = faults
  BY DEF CopyThread, Failures, InitRegion, InitDsa, Test, VmallocToSgtable, SgtableToDmaMap,
         AllocDesc, AllocDone, SubmitEntry, SubmitDone, PollEntry, PollAgain, PollDone, Unmap, Compare,
         AllocFails, SubmitFails, PollLimit, ExitModule, Reported
<1>5. Pages' = Pages
  BY <1>1, JobKept
<1>6. Outcome = (IF ~Clean THEN "gaveup" ELSE IF Reported THEN "done" ELSE "running")
  BY DEF Outcome, Clean
<1>7. Outcome' = (IF ~Clean' THEN "gaveup" ELSE IF Reported' THEN "done" ELSE "running")
  BY DEF Outcome, Clean
<1>8. Clean' => Clean
  BY <1>1 DEF Clean
<1>9. Reported => (Clean' <=> Clean)
  BY <1>4 DEF Clean
<1>10. Clean' /\ Reported' /\ ~Reported => copied = Pages
  BY <1>3, <1>8, Finished DEF Clean
<1> QED BY <1>1, <1>2, <1>5, <1>6, <1>7, <1>8, <1>9, <1>10

\* The device copies pages of the program, and none after it has said done.
LEMMA DevicePromise ==
  ASSUME SingleInv, Device
  PROVE  /\ Outcome # "done" /\ Outcome' = Outcome /\ Pages' = Pages
         /\ \E s \in SUBSET Pages : copied' = copied \cup s
<1>1. PICK d \in Descs : DeviceCopies(d)
  BY DEF Device
<1>2. PICK c \in SUBSET Pages : BagIn(<<d, c>>, queue) /\ (copied' = copied \cup c \/ copied' = copied)
  BY <1>1 DEF DeviceCopies
<1>3. AtDevice # {}
  BY <1>2 DEF BagIn, AtDevice
<1>4. Outcome # "done"
  <2>1. ~(Clean /\ Reported)
    BY <1>3, Finished
  <2> QED BY <2>1 DEF Outcome, Clean
<1>5. faults' = faults /\ pc' = pc /\ job' = job
  BY <1>1 DEF DeviceCopies
<1>6. Outcome' = Outcome /\ Pages' = Pages
  BY <1>5, JobKept DEF Outcome, Reported
<1>7. \E s \in SUBSET Pages : copied' = copied \cup s
  <2>1. {} \in SUBSET Pages /\ copied = copied \cup {}
    OBVIOUS
  <2> QED BY <1>2, <2>1
<1> QED BY <1>4, <1>6, <1>7

\* my_init implements the copy service for any page count, order of the pages,
\* number of descriptors, batch size and failures: all rounds or batches are
\* over and every page is copied when it reports, and nothing is written later.
THEOREM SingleServiceHolds == Spec => ImplementsCopyService
<1>1. Init => Service!Init
  BY DEF Init, Service!Init, Outcome, Reported
<1>2. SingleInv /\ [Next]_vars => [Service!Next]_(Service!vars)
  <2> SUFFICES ASSUME SingleInv, [Next]_vars PROVE [Service!Next]_(Service!vars)
    OBVIOUS
  <2>1. CASE CopyThread \/ Failures \/ ExitModule
    BY <2>1, ThreadPromise DEF Service!Next, Service!vars, Service!Finish, Service!GiveUp
  <2>2. CASE Device
    <3>1. PICK s \in SUBSET Pages : copied' = copied \cup s
      BY <2>2, DevicePromise
    <3>2. Service!CopyPieces
      BY <2>2, <3>1, DevicePromise DEF Service!CopyPieces
    <3> QED BY <2>2, <3>2, DevicePromise DEF Service!Next
  <2>3. CASE UNCHANGED vars
    BY <2>3 DEF vars, Service!vars, Outcome, Reported, Pages, deviceVars
  <2> QED BY <2>1, <2>2, <2>3 DEF Next
<1> QED BY <1>1, <1>2, SingleInvHolds, PTL DEF Spec, ImplementsCopyService, Service!Spec
=============================================================================
