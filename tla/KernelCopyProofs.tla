-------------------------- MODULE KernelCopyProofs --------------------------
(* The N-device copy programs, for any queues, lists, batches and failures. *)
EXTENDS KernelCopy, FiniteSetTheorems, WellFoundedInduction, TLAPS

-----------------------------------------------------------------------------
(* Arithmetic.                                                             *)

LEMMA LeastNat ==
  ASSUME NEW S \in SUBSET Nat, S # {}
  PROVE  Min(S) \in S /\ \A y \in S : Min(S) <= y
<1> DEFINE R == {p \in Nat \X Nat : p[1] < p[2]}
<1>1. IsWellFoundedOn(R, Nat)
  BY NatLessThanWellFounded, Zenon DEF OpToRel
<1> HIDE DEF R
<1>2. PICK x \in S : \A y \in S : ~(<<y, x>> \in R)
  BY <1>1, WFMin
<1>3. ASSUME NEW y \in S PROVE x <= y
  <2>1. x \in Nat /\ y \in Nat
    OBVIOUS
  <2>2. y < x => <<y, x>> \in R
    BY <2>1 DEF R
  <2> QED BY <1>2, <2>1, <2>2
<1> QED BY <1>3 DEF Min

LEMMA Least2 ==
  ASSUME NEW a \in Int, NEW b \in Int
  PROVE  Min({a, b}) = IF a <= b THEN a ELSE b
  BY DEF Min

LEMMA Division ==
  ASSUME NEW a \in Nat, NEW m \in Nat \ {0}
  PROVE  /\ a \div m \in Nat
         /\ (a \div m) * m <= a /\ a < (a \div m) * m + m
  BY SMT

LEMMA Products ==
  ASSUME NEW a \in Nat, NEW b \in Nat, NEW m \in Nat
  PROVE  /\ a * m \in Nat /\ (a + 1) * m = a * m + m
         /\ a <= b => a * m <= b * m
         /\ a < b => a * m + m <= b * m
  BY SMT

\* Finitely many naturals have a bound: a least prefix without one would be
\* one element longer than a prefix that has one.
LEMMA Bounded ==
  ASSUME NEW n \in Nat, NEW f \in [1 .. n -> Nat]
  PROVE  \E b \in Nat : \A i \in 1 .. n : f[i] <= b
<1> DEFINE Bd(k) == \E b \in Nat : \A i \in 1 .. k : f[i] <= b
           Unbounded == {k \in 0 .. n : ~Bd(k)}
<1>1. Bd(0)
  OBVIOUS
<1>2. ASSUME NEW k \in 1 .. n, Bd(k - 1) PROVE Bd(k)
  <2>1. PICK b \in Nat : \A i \in 1 .. k - 1 : f[i] <= b
    BY <1>2
  <2>2. f[k] \in Nat
    OBVIOUS
  <2> DEFINE c == f[k] + b
  <2>3. c \in Nat /\ \A i \in 1 .. k : f[i] <= c
    BY <2>1, <2>2
  <2> HIDE DEF c
  <2> QED BY <2>3
<1> HIDE DEF Bd
<1>3. Unbounded = {}
  <2> SUFFICES ASSUME Unbounded # {} PROVE FALSE
    OBVIOUS
  <2> DEFINE k == Min(Unbounded)
  <2>1. Unbounded \in SUBSET Nat
    OBVIOUS
  <2>2. k \in Unbounded /\ \A j \in Unbounded : k <= j
    BY <2>1, LeastNat
  <2> HIDE DEF k
  <2>3. k \in 1 .. n /\ ~Bd(k)
    BY <1>1, <2>2
  <2>4. Bd(k - 1)
    BY <2>2, <2>3
  <2> QED BY <1>2, <2>3, <2>4
<1>4. Bd(n)
  BY <1>3
<1> QED BY <1>4 DEF Bd

LEMMA GreatestNat ==
  ASSUME NEW S \in SUBSET Nat, S # {}, NEW b \in Nat, \A y \in S : y <= b
  PROVE  Max(S) \in S /\ \A y \in S : Max(S) >= y
<1> DEFINE U == {u \in Nat : \A y \in S : y <= u}
<1>1. U \in SUBSET Nat /\ U # {}
  OBVIOUS
<1> DEFINE x == Min(U)
<1>2. x \in U /\ \A u \in U : x <= u
  BY <1>1, LeastNat
<1> HIDE DEF x
<1>3. x \in S
  <2> SUFFICES ASSUME x \notin S PROVE FALSE
    OBVIOUS
  <2>1. \A y \in S : y <= x - 1
    BY <1>2
  <2>2. x - 1 \in Nat
    <3>1. PICK y \in S : TRUE
      OBVIOUS
    <3> QED BY <1>2, <2>1, <3>1
  <2>3. x - 1 \in U
    BY <2>1, <2>2
  <2> QED BY <1>2, <2>2, <2>3
<1> QED BY <1>2, <1>3 DEF Max

-----------------------------------------------------------------------------
(* The scatter lists and their split into descriptors.                     *)

LEMMA SystemFacts ==
  ASSUME sys \in Systems
  PROVE  /\ NumWqs \in Nat \ {0} /\ MaxBatch \in Nat \ {0}
         /\ SgCount \in [Wqs -> Nat \ {0}] /\ NumDescs \in Nat \ {0}
         /\ NoDesc \notin Desc
  BY CopyParameters DEF SgCount, NumDescs, Wqs, Desc, NoDesc

LEMMA EntriesFacts ==
  ASSUME sys \in Systems, NEW w \in Wqs
  PROVE  /\ DescsEntries(w) \in Nat \ {0}
         /\ Batched => /\ SgCount[w] <= DescsEntries(w) * MaxBatch
                       /\ DescsEntries(w) * MaxBatch < SgCount[w] + MaxBatch
         /\ SgCount[w] = 1 => DescsEntries(w) = 1
<1> DEFINE a == SgCount[w] + MaxBatch - 1
<1>1. a \in Nat /\ MaxBatch \in Nat \ {0} /\ SgCount[w] \in Nat \ {0}
  BY SystemFacts
<1>2. a \div MaxBatch \in Nat /\ (a \div MaxBatch) * MaxBatch <= a /\ a < (a \div MaxBatch) * MaxBatch + MaxBatch
  BY <1>1, Division
<1> DEFINE d == a \div MaxBatch
<1>3. d # 0
  <2>1. d \in Nat /\ a < d * MaxBatch + MaxBatch /\ a >= MaxBatch
    BY <1>1, <1>2
  <2> HIDE DEF d
  <2>2. d = 0 => d * MaxBatch = 0
    BY <1>1
  <2> QED BY <1>1, <2>1, <2>2
<1>4. CASE ~Batched
  BY <1>1, <1>4 DEF DescsEntries
<1>5. CASE Batched
  <2>1. DescsEntries(w) = d
    BY <1>5 DEF DescsEntries
  <2>2. SgCount[w] = 1 => d = 1
    <3> HIDE DEF d
    <3>1. d \in Nat /\ d * MaxBatch < SgCount[w] + MaxBatch
      BY <1>1, <1>2 DEF d
    <3>2. d >= 2 => 1 * MaxBatch + MaxBatch <= d * MaxBatch
      BY <1>1, <3>1, Products
    <3> QED BY <1>1, <1>3, <3>1, <3>2
  <2> HIDE DEF d
  <2>3. d \in Nat /\ d * MaxBatch <= a /\ a < d * MaxBatch + MaxBatch /\ d * MaxBatch \in Nat
    BY <1>1, <1>2, Products DEF d
  <2> QED BY <1>1, <1>3, <1>5, <2>1, <2>2, <2>3
<1> QED BY <1>4, <1>5

LEMMA MaxFacts ==
  ASSUME sys \in Systems
  PROVE  /\ MaxEnts \in Nat \ {0} /\ MaxEnts * NumWqs \in Nat
         /\ \A w \in Wqs : DescsEntries(w) <= MaxEnts
<1> DEFINE f == [w \in 1 .. NumWqs |-> DescsEntries(w)]
           S == {DescsEntries(w) : w \in Wqs}
<1>1. f \in [1 .. NumWqs -> Nat] /\ NumWqs \in Nat \ {0}
  BY EntriesFacts, SystemFacts DEF Wqs
<1>2. PICK b \in Nat : \A i \in 1 .. NumWqs : f[i] <= b
  BY <1>1, Bounded
<1>3. S \in SUBSET Nat /\ S # {} /\ \A y \in S : y <= b
  <2>1. 1 \in Wqs /\ S # {}
    BY <1>1 DEF Wqs
  <2> QED BY <1>2, <2>1, EntriesFacts DEF Wqs
<1>4. Max(S) \in S /\ \A y \in S : Max(S) >= y
  BY <1>3, GreatestNat
<1>5. MaxEnts = Max(S)
  BY DEF MaxEnts
<1>6. MaxEnts \in Nat \ {0} /\ \A w \in Wqs : DescsEntries(w) <= MaxEnts
  BY <1>4, <1>5, EntriesFacts
<1> QED BY <1>1, <1>6, Products

\* The descriptors of a queue copy what its scatter list holds, and nothing else.
LEMMA ChunkFacts ==
  ASSUME sys \in Systems
  PROVE  /\ \A w \in Wqs : \A n \in 0 .. DescsEntries(w) - 1 : Chunk(w, n) \subseteq Sgs
         /\ \A g \in Sgs : \E w \in Wqs : \E n \in 0 .. DescsEntries(w) - 1 : g \in Chunk(w, n)
<1>1. ASSUME NEW w \in Wqs, NEW n \in 0 .. DescsEntries(w) - 1
      PROVE  Chunk(w, n) \subseteq Sgs
  <2>1. /\ SgCount[w] \in Nat \ {0} /\ MaxBatch \in Nat \ {0} /\ n \in Nat
        /\ DescsEntries(w) \in Nat /\ n < DescsEntries(w)
    BY SystemFacts, EntriesFacts
  <2>2. CASE ~Batched
    BY <2>1, <2>2 DEF Chunk, Sgs, DescsEntries
  <2>3. CASE Batched
    <3> DEFINE nm == n * MaxBatch
    <3>1. nm \in Nat /\ nm + MaxBatch <= DescsEntries(w) * MaxBatch
      BY <2>1, Products
    <3>2. nm < SgCount[w]
      BY <2>1, <2>3, <3>1, EntriesFacts
    <3>3. Min({SgCount[w] - nm, MaxBatch}) =
            IF SgCount[w] - nm <= MaxBatch THEN SgCount[w] - nm ELSE MaxBatch
      BY <2>1, <3>1, Least2
    <3>4. Chunk(w, n) = {w} \X (nm + 1 .. nm + Min({SgCount[w] - nm, MaxBatch}))
      BY <2>3 DEF Chunk
    <3> HIDE DEF nm
    <3> QED BY <2>1, <3>1, <3>2, <3>3, <3>4 DEF Sgs
  <2> QED BY <2>2, <2>3
<1>2. ASSUME NEW w \in Wqs, NEW k \in 1 .. SgCount[w]
      PROVE  \E n \in 0 .. DescsEntries(w) - 1 : <<w, k>> \in Chunk(w, n)
  <2>1. /\ SgCount[w] \in Nat \ {0} /\ MaxBatch \in Nat \ {0} /\ k - 1 \in Nat
        /\ DescsEntries(w) \in Nat
    BY SystemFacts, EntriesFacts
  <2>2. CASE ~Batched
    <3>1. k - 1 \in 0 .. DescsEntries(w) - 1 /\ <<w, k>> \in Chunk(w, k - 1)
      BY <2>1, <2>2 DEF Chunk, DescsEntries
    <3> QED BY <3>1
  <2>3. CASE Batched
    <3> DEFINE n == (k - 1) \div MaxBatch
               nm == n * MaxBatch
    <3>1. n \in Nat /\ nm <= k - 1 /\ k - 1 < nm + MaxBatch /\ nm \in Nat
      BY <2>1, Division, Products
    <3> HIDE DEF n
    <3>2. n < DescsEntries(w)
      <4>1. DescsEntries(w) <= n => DescsEntries(w) * MaxBatch <= nm
        BY <2>1, <3>1, Products
      <4>2. SgCount[w] <= DescsEntries(w) * MaxBatch /\ DescsEntries(w) * MaxBatch \in Nat
        BY <2>1, <2>3, EntriesFacts, Products
      <4> QED BY <2>1, <3>1, <4>1, <4>2
    <3>3. Min({SgCount[w] - nm, MaxBatch}) =
            IF SgCount[w] - nm <= MaxBatch THEN SgCount[w] - nm ELSE MaxBatch
      BY <2>1, <3>1, Least2
    <3>4. Chunk(w, n) = {w} \X (nm + 1 .. nm + Min({SgCount[w] - nm, MaxBatch}))
      BY <2>3 DEF Chunk
    <3> HIDE DEF nm
    <3>5. <<w, k>> \in Chunk(w, n)
      BY <2>1, <3>1, <3>3, <3>4
    <3> QED BY <2>1, <3>1, <3>2, <3>5
  <2> QED BY <2>2, <2>3
<1>3. ASSUME NEW g \in Sgs
      PROVE  \E w \in Wqs : \E n \in 0 .. DescsEntries(w) - 1 : g \in Chunk(w, n)
  <2>1. PICK w \in Wqs : g \in {w} \X (1 .. SgCount[w])
    BY DEF Sgs
  <2>2. PICK k \in 1 .. SgCount[w] : g = <<w, k>>
    BY <2>1
  <2> QED BY <1>2, <2>2
<1> QED BY <1>1, <1>3

-----------------------------------------------------------------------------
(* The steps.                                                              *)

\* The program and the hardware stay what they are.
LEMMA SameSystem ==
  ASSUME sys' = sys
  PROVE  /\ Desc' = Desc /\ Entries' = Entries /\ Sgs' = Sgs /\ MaxEnts' = MaxEnts
         /\ SgCount' = SgCount /\ Batched' = Batched /\ MayFail' = MayFail
         /\ SinglesFirst' = SinglesFirst
         /\ \A w : DescsEntries(w)' = DescsEntries(w)
         /\ \A w, n : Chunk(w, n)' = Chunk(w, n)
<1> USE DEF SgCount, NumDescs, Batched, MayFail
<1>1. SgCount' = SgCount /\ NumDescs' = NumDescs /\ Batched' = Batched /\ MayFail' = MayFail
  OBVIOUS
<1>2. \A w : DescsEntries(w)' = DescsEntries(w)
  BY DEF DescsEntries
<1>3. \A w, n : Chunk(w, n)' = Chunk(w, n)
  BY DEF Chunk
<1>4. MaxEnts' = MaxEnts
  BY <1>2 DEF MaxEnts
<1>5. Sgs' = Sgs /\ Desc' = Desc /\ Entries' = Entries
  BY <1>4 DEF Sgs, Desc, Entries
<1> QED BY <1>1, <1>2, <1>3, <1>4, <1>5 DEF SinglesFirst

\* Types and numbers that the steps below need.
LEMMA Basics ==
  ASSUME CopyInv
  PROVE  /\ NumWqs \in Nat \ {0} /\ MaxEnts \in Nat \ {0} /\ MaxEnts * NumWqs \in Nat
         /\ curEnt \in Nat /\ wq \in Wqs /\ wq \in Nat \ {0} /\ wq <= NumWqs
         /\ appended \in Nat /\ DescsEntries(wq) \in Nat \ {0}
         /\ curEnt * NumWqs \in Nat /\ (curEnt + 1) * NumWqs = curEnt * NumWqs + NumWqs
         /\ Entries = 1 .. MaxEnts * NumWqs /\ NoDesc \notin Desc /\ Head \notin Entries
<1>1. NumWqs \in Nat \ {0} /\ MaxEnts \in Nat \ {0} /\ MaxEnts * NumWqs \in Nat /\ NoDesc \notin Desc
  BY MaxFacts, SystemFacts DEF CopyInv
<1>2. curEnt \in Nat /\ wq \in Wqs /\ appended \in Nat
  BY <1>1 DEF CopyInv, TypeOK
<1>3. wq \in Nat \ {0} /\ wq <= NumWqs
  BY <1>1, <1>2 DEF Wqs
<1>4. DescsEntries(wq) \in Nat \ {0}
  BY <1>2, EntriesFacts DEF CopyInv
<1>5. curEnt * NumWqs \in Nat /\ (curEnt + 1) * NumWqs = curEnt * NumWqs + NumWqs
  BY <1>1, <1>2, Products
<1> QED BY <1>1, <1>2, <1>3, <1>4, <1>5 DEF Entries, Head

LEMMA NextSystem ==
  ASSUME Next
  PROVE  sys' = sys /\ ~oops
  BY DEF Next, CopyStep, Unload, PollStep, Device, DevComplete

\* A turn ends: dsa_copy is at the next queue or entry, or has taken them all.
LEMMA TurnEnds ==
  ASSUME CopyInv, NextTurn, spc \in {"alloc", "wake"}
  PROVE  /\ curEnt' \in Nat /\ wq' \in Wqs /\ curEnt' <= MaxEnts
         /\ curEnt' * NumWqs + wq' = curEnt * NumWqs + wq + 1
         /\ spc' = "alloc" => curEnt' < MaxEnts
         /\ spc' = "waitwake" => curEnt' = MaxEnts /\ wq' = 1
         /\ spc' \in {"alloc", "waitwake"}
         /\ \A w \in Wqs, n \in Nat : Taken(w, n)' <=> Taken(w, n) \/ (w = wq /\ n = curEnt)
<1>1. curEnt < MaxEnts
  BY DEF CopyInv, TurnInv, InTurn
<1>0. /\ NumWqs \in Nat \ {0} /\ MaxEnts \in Nat \ {0} /\ curEnt \in Nat
      /\ wq \in Nat \ {0} /\ wq <= NumWqs
  BY Basics
<1>2. curEnt' * NumWqs + wq' = curEnt * NumWqs + wq + 1
  <2>1. PICK m \in Nat : m = curEnt * NumWqs /\ (curEnt + 1) * NumWqs = m + NumWqs
    BY Basics
  <2>2. CASE wq = NumWqs
    <3>1. wq' = 1 /\ curEnt' * NumWqs = m + NumWqs
      BY <2>1, <2>2 DEF NextTurn
    <3> QED BY <1>0, <2>1, <2>2, <3>1
  <2>3. CASE wq # NumWqs
    <3>1. wq' = wq + 1 /\ curEnt' * NumWqs = m
      BY <2>1, <2>3 DEF NextTurn
    <3> QED BY <1>0, <2>1, <2>3, <3>1
  <2> QED BY <2>2, <2>3
<1>3. /\ curEnt' \in Nat /\ wq' \in Wqs /\ curEnt' <= MaxEnts
      /\ spc' = "alloc" => curEnt' < MaxEnts
      /\ spc' = "waitwake" => curEnt' = MaxEnts /\ wq' = 1
      /\ spc' \in {"alloc", "waitwake"}
  BY <1>0, <1>1 DEF NextTurn, Wqs
<1>4. ASSUME NEW w \in Wqs, NEW n \in Nat
      PROVE  Taken(w, n)' <=> Taken(w, n) \/ (w = wq /\ n = curEnt)
  <2>1. w \in Nat \ {0} /\ w <= NumWqs /\ NumWqs \in Nat
    BY Basics DEF Wqs
  <2>2. Taken(w, n)' <=> n < curEnt' \/ (n = curEnt' /\ w < wq')
    BY <1>3 DEF Taken
  <2>3. CASE wq = NumWqs
    <3>1. wq' = 1 /\ curEnt' = curEnt + 1
      BY <2>3 DEF NextTurn
    <3> QED BY <1>0, <2>1, <2>2, <2>3, <3>1 DEF Taken
  <2>4. CASE wq # NumWqs
    <3>1. wq' = wq + 1 /\ curEnt' = curEnt
      BY <2>4 DEF NextTurn
    <3> QED BY <1>0, <2>1, <2>2, <2>4, <3>1 DEF Taken
  <2> QED BY <2>3, <2>4
<1> QED BY <1>2, <1>3, <1>4

LEMMA NextTurnInv ==
  ASSUME CopyInv, Next
  PROVE  TurnInv'
<1>1. sys' = sys /\ MaxEnts' = MaxEnts /\ \A w : DescsEntries(w)' = DescsEntries(w)
  BY NextSystem, SameSystem
<1> USE <1>1, Basics DEF TurnInv, InTurn, Ended
<1>2. TurnInv
  BY DEF CopyInv
<1>3. CASE SkipTurn \/ WakeThread
  <2>1. NextTurn /\ spc \in {"alloc", "wake"} /\ appended' = appended
    BY <1>3 DEF SkipTurn, WakeThread
  <2>2. appended < curEnt * NumWqs + wq + 1
    BY <1>2, <2>1, SMTT(40)
  <2>3. curEnt' * NumWqs + wq' = curEnt * NumWqs + wq + 1 /\ spc' \in {"alloc", "waitwake"}
    BY <2>1, TurnEnds
  <2>4. appended' < curEnt' * NumWqs + wq' + (IF spc' \in {"submit", "wake"} THEN 1 ELSE 0)
    BY <2>1, <2>2, <2>3, SMTT(40)
  <2> QED BY <2>1, <2>4, TurnEnds
<1>4. CASE CopyStart \/ AllocDesc \/ AllocFails
  BY <1>2, <1>4 DEF CopyStart, AllocDesc, AllocFails
<1>5. CASE AppendEntry
  BY <1>2, <1>5, SMTT(40) DEF AppendEntry
<1>6. CASE SubmitDesc
  BY <1>2, <1>6 DEF SubmitDesc
<1>7. CASE WaitWakeup \/ ClearExecution \/ WaitStatus \/ Unload
  BY <1>2, <1>7 DEF WaitWakeup, ClearExecution, WaitStatus, Unload
<1>8. CASE PollStep \/ Device
  BY <1>2, <1>8 DEF PollStep, Device, DevComplete, copyVars
<1> QED BY <1>3, <1>4, <1>5, <1>6, <1>7, <1>8 DEF Next, CopyStep

LEMMA NextFlagInv ==
  ASSUME CopyInv, Next
  PROVE  FlagInv'
<1> USE DEF FlagInv, Ended
<1>1. FlagInv
  BY DEF CopyInv
<1>2. CASE CopyStep
  <2> USE <1>2 DEF CopyStep, pollVars, flagVars, listVars
  <2>1. CASE CopyStart \/ AllocDesc \/ AllocFails \/ AppendEntry \/ SubmitDesc
    BY <1>1, <2>1 DEF CopyStart, AllocDesc, AllocFails, AppendEntry, SubmitDesc
  <2>2. CASE SkipTurn \/ WakeThread
    BY <1>1, <2>2 DEF SkipTurn, WakeThread, NextTurn
  <2>3. CASE WaitWakeup \/ ClearExecution \/ WaitStatus
    BY <1>1, <2>3 DEF WaitWakeup, ClearExecution, WaitStatus
  <2> QED BY <2>1, <2>2, <2>3
<1>3. CASE Unload
  BY <1>1, <1>3 DEF Unload, flagVars, listVars, pollVars
<1>4. CASE PollStep
  <2> USE <1>4 DEF PollStep, copyVars, flagVars, listVars
  <2>1. CASE ThreadWait \/ OuterLoop \/ InnerLoop \/ ReportStatus
    BY <1>1, <2>1 DEF ThreadWait, OuterLoop, InnerLoop, ReportStatus
  <2>2. CASE SeeCompleted \/ SeePending \/ UnlinkFinished
    BY <1>1, <2>2 DEF SeeCompleted, SeePending, UnlinkFinished, Unlink, Advance
  <2>3. CASE SeeFinished
    <3>1. linked # {}
      BY <2>3 DEF CopyInv, ListInv, SeeFinished
    <3> QED BY <1>1, <2>3, <3>1 DEF SeeFinished
  <2> QED BY <2>1, <2>2, <2>3
<1>5. CASE Device
  BY <1>1, <1>5 DEF Device, DevComplete, copyVars, flagVars, listVars, pollVars
<1> QED BY <1>2, <1>3, <1>4, <1>5 DEF Next

LEMMA AfterFacts ==
  ASSUME NEW L \in SUBSET Nat, NEW e \in Nat
  PROVE  /\ After(e, L) = Head \/ (After(e, L) \in L /\ After(e, L) > e)
         /\ (\E f \in L : f > e) => After(e, L) \in L
<1> DEFINE later == {f \in L : f > e}
<1>1. later \in SUBSET Nat
  OBVIOUS
<1>2. CASE later = {}
  BY <1>2 DEF After
<1>3. CASE later # {}
  <2>1. Min(later) \in later
    BY <1>1, <1>3, LeastNat
  <2> QED BY <1>3, <2>1 DEF After
<1> QED BY <1>2, <1>3

LEMMA CompletedFinite ==
  ASSUME NEW n \in Nat, NEW C \in SUBSET (1 .. n)
  PROVE  /\ IsFiniteSet(C) /\ Cardinality(C) \in Nat /\ Cardinality(C) <= n
         /\ \A e : e \notin C => Cardinality(C \cup {e}) = Cardinality(C) + 1
<1>1. IsFiniteSet(1 .. n) /\ Cardinality(1 .. n) = n
  BY FS_Interval
<1>2. IsFiniteSet(C) /\ Cardinality(C) <= n
  BY <1>1, FS_Subset
<1> QED BY <1>2, FS_CardinalityType, FS_AddElement

LEMMA NextListInv ==
  ASSUME CopyInv, Next
  PROVE  ListInv'
<1> USE DEF ListInv
<1>1. ListInv
  BY DEF CopyInv
<1>2. appended \in Nat /\ linked \in SUBSET Nat /\ Head = 0
  BY <1>1, Basics DEF Head
<1>3. ASSUME NEW L, L \subseteq linked, linked \ {entry} \subseteq L, Advance(L), linked' = L,
             entry \in linked, temp = Head \/ (temp \in linked /\ temp > entry),
             L = linked \/ entry \in completed, UNCHANGED <<completed, appended, pollEntry>>
      PROVE  ListInv'
  <2>1. CASE temp = Head
    BY <1>1, <1>2, <1>3, <2>1 DEF Advance
  <2>2. CASE temp # Head
    <3>0. temp \in Nat /\ entry \in Nat /\ L \in SUBSET Nat /\ temp \in linked /\ temp > entry
      BY <1>2, <1>3, <2>2
    <3>1. temp \in L
      BY <1>3, <3>0
    <3>2. entry' = temp /\ cpc' = "examine" /\ temp' = After(temp, L)
      BY <1>3, <2>2 DEF Advance
    <3> QED BY <1>1, <1>2, <1>3, <3>0, <3>1, <3>2, AfterFacts
  <2> QED BY <2>1, <2>2
<1>4. CASE CopyStep
  <2> USE <1>4 DEF CopyStep, pollVars, listVars
  <2>1. CASE AppendEntry
    <3>1. appended' = appended + 1 /\ linked' = linked \cup {appended + 1}
          /\ completed' = completed
      BY <2>1 DEF AppendEntry
    <3> QED BY <1>1, <1>2, <3>1
  <2>2. CASE ~AppendEntry
    <3>1. UNCHANGED <<appended, linked, completed, cpc, entry, temp, pollEntry>>
      BY <2>2 DEF CopyStart, SkipTurn, AllocDesc, AllocFails, SubmitDesc, WakeThread, WaitWakeup,
         ClearExecution, WaitStatus
    <3> QED BY <1>1, <3>1
  <2> QED BY <2>1, <2>2
<1>5. CASE Unload \/ Device
  BY <1>1, <1>5 DEF Unload, Device, DevComplete, copyVars, listVars, pollVars
<1>6. CASE PollStep
  <2> USE <1>6 DEF PollStep, copyVars, listVars
  <2>1. CASE ThreadWait \/ OuterLoop \/ ReportStatus
    BY <1>1, <2>1 DEF ThreadWait, OuterLoop, ReportStatus
  <2>2. CASE InnerLoop
    <3>1. CASE cpc' = "idle"
      BY <1>1, <2>2, <3>1 DEF InnerLoop
    <3>2. CASE cpc' # "idle"
      <4>1. linked # {} /\ entry' = After(Head, linked) /\ temp' = After(entry', linked)
            /\ cpc' = "examine" /\ UNCHANGED <<linked, completed, appended, pollEntry>>
        BY <2>2, <3>2 DEF InnerLoop
      <4>2. \E f \in linked : f > Head
        <5>1. PICK f \in linked : f \in 1 .. appended
          BY <1>1, <4>1
        <5> QED BY <1>2, <5>1
      <4>3. entry' \in linked
        BY <1>2, <4>1, <4>2, AfterFacts
      <4>4. temp' = Head \/ (temp' \in linked /\ temp' > entry')
        BY <1>2, <4>1, <4>3, AfterFacts
      <4> QED BY <1>1, <4>1, <4>3, <4>4
    <3> QED BY <3>1, <3>2
  <2>3. CASE SeeCompleted \/ UnlinkFinished
    <3>1. /\ Unlink /\ entry \in completed /\ UNCHANGED <<completed, appended, pollEntry>>
          /\ entry \in linked /\ (temp = Head \/ (temp \in linked /\ temp > entry))
      BY <1>1, <2>3 DEF SeeCompleted, UnlinkFinished
    <3>2. linked' \subseteq linked /\ linked \ {entry} \subseteq linked' /\ Advance(linked')
      BY <3>1 DEF Unlink
    <3> QED BY <1>3, <3>1, <3>2
  <2>4. CASE SeePending
    <3>1. /\ Advance(linked) /\ UNCHANGED <<linked, completed, appended, pollEntry>>
          /\ entry \in linked /\ (temp = Head \/ (temp \in linked /\ temp > entry))
      BY <1>1, <2>4 DEF SeePending
    <3> QED BY <1>3, <3>1
  <2>5. CASE SeeFinished
    <3>1. /\ completed' = completed \cup {entry} /\ pollEntry' = pollEntry + 1
          /\ UNCHANGED <<linked, appended, entry, temp>> /\ cpc' = "unlink"
          /\ entry \notin completed /\ entry \in linked
      BY <1>1, <2>5 DEF SeeFinished
    <3>2. Cardinality(completed') = Cardinality(completed) + 1
      BY <1>1, <1>2, <3>1, CompletedFinite
    <3>3. completed' \subseteq 1 .. appended
      BY <1>1, <3>1
    <3>4. pollEntry' = Cardinality(completed')
      BY <1>1, <3>1, <3>2
    <3>5. temp' = Head \/ (temp' \in linked' /\ temp' > entry')
      BY <1>1, <2>5, <3>1 DEF SeeFinished
    <3> QED BY <1>1, <3>1, <3>3, <3>4, <3>5
  <2> QED BY <2>1, <2>2, <2>3, <2>4, <2>5
<1> QED BY <1>4, <1>5, <1>6 DEF Next

LEMMA NextFlags ==
  ASSUME CopyInv, Next
  PROVE  ({threadExecution, threadWakeup, completionError, shouldStop, oops} \subseteq BOOLEAN)'
<1>1. /\ threadExecution \in BOOLEAN /\ threadWakeup \in BOOLEAN /\ completionError \in BOOLEAN
      /\ shouldStop \in BOOLEAN /\ oops \in BOOLEAN
  BY DEF CopyInv, TypeOK
<1>2. CASE CopyStep
  <2>1. threadExecution' \in BOOLEAN
    BY <1>1, <1>2, Zenon DEF CopyStep, CopyStart, SkipTurn, AllocDesc, AllocFails, AppendEntry,
       SubmitDesc, WakeThread, WaitWakeup, ClearExecution, WaitStatus, flagVars
  <2>2. threadWakeup' = threadWakeup /\ completionError' = completionError /\ shouldStop' = shouldStop
    BY <1>2, Zenon DEF CopyStep, CopyStart, SkipTurn, AllocDesc, AllocFails, AppendEntry, SubmitDesc,
       WakeThread, WaitWakeup, ClearExecution, WaitStatus, flagVars, pollVars
  <2>3. oops' \in BOOLEAN
    <3>1. CASE AllocFails
      BY <3>1, Zenon DEF AllocFails, UsesBatch
    <3>2. CASE CopyStart \/ SkipTurn \/ AllocDesc \/ AppendEntry \/ SubmitDesc \/ WakeThread
               \/ WaitWakeup \/ ClearExecution \/ WaitStatus
      BY <1>1, <3>2, Zenon DEF CopyStart, SkipTurn, AllocDesc, AppendEntry, SubmitDesc,
         WakeThread, WaitWakeup, ClearExecution, WaitStatus
    <3> QED BY <1>2, <3>1, <3>2 DEF CopyStep
  <2> QED BY <1>1, <2>1, <2>2, <2>3, Zenon
<1>3. CASE Unload
  BY <1>1, <1>3, Zenon DEF Unload, flagVars, pollVars
<1>4. CASE PollStep
  <2>1. threadExecution' = threadExecution /\ shouldStop' = shouldStop
    BY <1>4, Zenon DEF PollStep, ThreadWait, OuterLoop, InnerLoop, SeeCompleted, SeePending,
       SeeFinished, UnlinkFinished, ReportStatus, flagVars
  <2>2. threadWakeup' \in BOOLEAN
    <3>1. CASE ReportStatus
      BY <1>1, <3>1, Zenon DEF ReportStatus
    <3> QED BY <1>1, <1>4, <3>1, Zenon DEF PollStep, ThreadWait, OuterLoop, InnerLoop,
               SeeCompleted, SeePending, SeeFinished, UnlinkFinished, flagVars
  <2>3. completionError' \in BOOLEAN
    BY <1>1, <1>4, Zenon DEF PollStep, ThreadWait, OuterLoop, InnerLoop, SeeCompleted, SeePending,
       SeeFinished, UnlinkFinished, ReportStatus
  <2>4. oops' \in BOOLEAN
    BY <1>1, <1>4, Zenon DEF PollStep, ThreadWait, OuterLoop, InnerLoop, SeeCompleted, SeePending,
       SeeFinished, UnlinkFinished, ReportStatus
  <2> QED BY <1>1, <2>1, <2>2, <2>3, <2>4, Zenon
<1>5. CASE Device
  BY <1>1, <1>5, Zenon DEF Device, DevComplete, flagVars, pollVars
<1> QED BY <1>2, <1>3, <1>4, <1>5 DEF Next

LEMMA NextType ==
  ASSUME CopyInv, Next
  PROVE  TypeOK'
<1>0. /\ Desc' = Desc /\ Entries' = Entries /\ Sgs' = Sgs /\ MaxEnts' = MaxEnts /\ Wqs' = Wqs
      /\ NoDesc' = NoDesc /\ Head' = Head
  BY NextSystem, SameSystem DEF Wqs, NoDesc, Head
<1> DEFINE Control == spc \in {"start", "alloc", "append", "submit", "wake", "waitwake", "clear",
                               "waitstatus", "unmapped", "stopping", "unloaded"}
           Turn == curEnt \in 0 .. MaxEnts /\ wq \in Wqs /\ newDesc \in Desc \cup {NoDesc}
                   /\ batchTask \in {"null", "live", "freed"}
                   /\ appended \in 0 .. MaxEnts * NumWqs /\ totalEntries \in Nat
           List == linked \in SUBSET Entries /\ completed \in SUBSET Entries
                   /\ entryDesc \in [Entries -> Desc \cup {NoDesc}]
                   /\ pollEntry \in 0 .. MaxEnts * NumWqs
           Thread == /\ cpc \in {"wait", "wait2", "outer", "inner", "examine", "unlink", "idle",
                                 "stopped"}
                     /\ entry \in Entries \cup {Head} /\ temp \in Entries \cup {Head}
                     /\ completionStatus \in 0 .. 2
           Data == /\ busy \in SUBSET Desc /\ inflight \in SUBSET Desc /\ copied \in SUBSET Sgs
                   /\ status \in [Desc -> {"none", "success", "error"}]
                   /\ chunk \in [Desc -> SUBSET Sgs]
<1>1. Control /\ Turn /\ List /\ Thread /\ Data
  BY DEF CopyInv, TypeOK
<1>2. Control'
  BY <1>1 DEF Next, CopyStep, CopyStart, SkipTurn, AllocDesc, AllocFails, AppendEntry, SubmitDesc,
     WakeThread, NextTurn, WaitWakeup, ClearExecution, WaitStatus, Unload, PollStep, Device,
     DevComplete, copyVars
<1>3. Turn'
  <2>1. CASE CopyStep
    <3>1. CASE SkipTurn \/ WakeThread
      <4>1. /\ NextTurn /\ spc \in {"alloc", "wake"} /\ UNCHANGED <<newDesc, appended, totalEntries>>
            /\ batchTask' \in {"null", "live", "freed"}
        BY <1>1, <3>1 DEF SkipTurn, WakeThread
      <4>2. curEnt' \in 0 .. MaxEnts /\ wq' \in Wqs
        BY <4>1, TurnEnds, Basics
      <4> QED BY <1>0, <1>1, <4>1, <4>2
    <3>2. CASE AppendEntry
      <4>1. appended < curEnt * NumWqs + wq /\ curEnt < MaxEnts
        BY <3>2, Basics DEF CopyInv, TurnInv, AppendEntry, InTurn
      <4>2. curEnt * NumWqs + NumWqs <= MaxEnts * NumWqs
        BY <4>1, Basics, Products
      <4>3. appended + 1 \in 0 .. MaxEnts * NumWqs
        BY <4>1, <4>2, Basics, SMTT(40)
      <4> QED BY <1>0, <1>1, <3>2, <4>3 DEF AppendEntry
    <3>3. CASE CopyStart \/ AllocDesc \/ AllocFails \/ SubmitDesc \/ WaitWakeup \/ ClearExecution
               \/ WaitStatus
      BY <1>0, <1>1, <3>3, Basics, SMTT(40) DEF CopyStart, AllocDesc, AllocFails, SubmitDesc, WaitWakeup,
         ClearExecution, WaitStatus
    <3> QED BY <2>1, <3>1, <3>2, <3>3 DEF CopyStep
  <2>2. CASE Unload \/ PollStep \/ Device
    BY <1>0, <1>1, <2>2 DEF Unload, PollStep, Device, DevComplete, copyVars
  <2> QED BY <2>1, <2>2 DEF Next
<1>4. List'
  <2>1. /\ appended' \in Nat /\ appended' <= MaxEnts * NumWqs /\ MaxEnts * NumWqs \in Nat
        /\ Entries = 1 .. MaxEnts * NumWqs
        /\ linked' \subseteq 1 .. appended' /\ completed' \subseteq 1 .. appended'
        /\ pollEntry' = Cardinality(completed')
    BY <1>0, <1>3, Basics, NextListInv, SMTT(40) DEF ListInv
  <2>2. pollEntry' \in 0 .. MaxEnts * NumWqs
    BY <2>1, CompletedFinite
  <2>3. entryDesc' \in [Entries -> Desc \cup {NoDesc}]
    <3>1. CASE AppendEntry
      BY <1>1, <3>1 DEF AppendEntry
    <3> QED BY <1>1, <3>1 DEF Next, CopyStep, CopyStart, SkipTurn, AllocDesc, AllocFails,
               SubmitDesc, WakeThread, WaitWakeup, ClearExecution, WaitStatus, Unload, PollStep,
               ThreadWait, OuterLoop, InnerLoop, SeeCompleted, SeePending, SeeFinished,
               UnlinkFinished, ReportStatus, Device, DevComplete, listVars
  <2> QED BY <1>0, <2>1, <2>2, <2>3
<1>5. Thread'
  <2>0. \A e \in Nat, L \in SUBSET Entries : After(e, L) \in Entries \cup {Head}
    <3>1. Entries \subseteq Nat
      BY Basics
    <3> QED BY <3>1, AfterFacts
  <2>1. CASE PollStep
    <3>1. CASE ThreadWait \/ OuterLoop \/ SeeFinished \/ ReportStatus
      BY <1>0, <1>1, <3>1 DEF ThreadWait, OuterLoop, SeeFinished, ReportStatus, flagVars
    <3>2. CASE InnerLoop
      <4>1. Head \in Nat /\ Entries \subseteq Nat
        BY Basics DEF Head
      <4>2. After(Head, linked) \in Entries \cup {Head}
        BY <1>1, <2>0, <4>1
      <4>3. After(After(Head, linked), linked) \in Entries \cup {Head}
        BY <1>1, <2>0, <4>1, <4>2
      <4> QED BY <1>0, <1>1, <3>2, <4>2, <4>3 DEF InnerLoop, flagVars
    <3>3. CASE SeeCompleted \/ SeePending \/ UnlinkFinished
      <4>1. PICK L \in SUBSET Entries : Advance(L)
        BY <1>1, <3>3 DEF SeeCompleted, SeePending, UnlinkFinished, Unlink
      <4>2. temp # Head => temp \in Nat
        BY <1>1, Basics
      <4>3. entry' \in Entries \cup {Head} /\ temp' \in Entries \cup {Head}
        BY <1>1, <2>0, <4>1, <4>2 DEF Advance
      <4>4. cpc' \in {"inner", "examine"} /\ completionStatus' = completionStatus
        BY <3>3, <4>1 DEF Advance, SeeCompleted, SeePending, UnlinkFinished, flagVars
      <4> QED BY <1>0, <1>1, <4>3, <4>4
    <3> QED BY <2>1, <3>1, <3>2, <3>3 DEF PollStep
  <2>2. CASE CopyStep \/ Unload \/ Device
    BY <1>0, <1>1, <2>2 DEF CopyStep, CopyStart, SkipTurn, AllocDesc, AllocFails, AppendEntry,
       SubmitDesc, WakeThread, WaitWakeup, ClearExecution, WaitStatus, Unload, Device, DevComplete,
       flagVars, pollVars
  <2> QED BY <2>1, <2>2 DEF Next
<1>6. Data'
  <2>1. CASE AllocDesc
    <3>1. Chunk(wq, curEnt) \subseteq Sgs
      <4>1. sys \in Systems /\ wq \in Wqs /\ curEnt \in 0 .. DescsEntries(wq) - 1
        BY <2>1, Basics DEF AllocDesc, CopyInv
      <4> QED BY <4>1, ChunkFacts
    <3> QED BY <1>0, <1>1, <2>1, <3>1 DEF AllocDesc
  <2>2. CASE Device
    BY <1>0, <1>1, <2>2 DEF Device, DevComplete
  <2>3. CASE SubmitDesc
    BY <1>0, <1>1, <2>3 DEF SubmitDesc
  <2>4. CASE CopyStep /\ ~AllocDesc /\ ~SubmitDesc
    BY <1>0, <1>1, <2>4 DEF CopyStep, CopyStart, SkipTurn, AllocFails, AppendEntry,
       WakeThread, WaitWakeup, ClearExecution, WaitStatus, descVars
  <2>5. CASE Unload \/ PollStep
    BY <1>0, <1>1, <2>5 DEF Unload, PollStep, ThreadWait, OuterLoop, InnerLoop, SeeCompleted,
       SeePending, SeeFinished, UnlinkFinished, ReportStatus, descVars
  <2> QED BY <2>1, <2>2, <2>3, <2>4, <2>5 DEF Next
<1> QED BY <1>2, <1>3, <1>4, <1>5, <1>6, NextFlags DEF TypeOK

\* Of the steps, only these two change which entries are pending.
LEMMA PendingSteps ==
  ASSUME CopyInv, Next
  PROVE  \/ CopyStep /\ AppendEntry /\ Pending' = Pending \cup {appended + 1} /\ appended + 1 \notin Pending
         \/ PollStep /\ SeeFinished /\ Pending' = Pending \ {entry} /\ entry \in Pending
         \/ Pending' = Pending /\ entryDesc' = entryDesc /\ ~AppendEntry /\ ~SeeFinished
<1> USE DEF Pending
<1>1. ListInv /\ appended \in Nat
  BY Basics DEF CopyInv
<1>2. CASE CopyStep /\ AppendEntry
  BY <1>1, <1>2 DEF AppendEntry, ListInv
<1>3. CASE PollStep /\ SeeFinished
  BY <1>1, <1>3 DEF SeeFinished, ListInv
<1>4. CASE SeeCompleted \/ UnlinkFinished
  BY <1>1, <1>4 DEF SeeCompleted, UnlinkFinished, Unlink, ListInv, AppendEntry, SeeFinished
<1>5. CASE CopyStep /\ ~AppendEntry
  BY <1>5 DEF CopyStep, CopyStart, SkipTurn, AllocDesc, AllocFails, SubmitDesc, WakeThread,
     WaitWakeup, ClearExecution, WaitStatus, listVars, SeeFinished, pollVars
<1>6. CASE Unload \/ Device
  BY <1>6 DEF Unload, Device, DevComplete, listVars, copyVars, pollVars, AppendEntry, SeeFinished
<1>7. CASE PollStep /\ ~SeeFinished /\ ~SeeCompleted /\ ~UnlinkFinished
  BY <1>1, <1>7 DEF PollStep, ThreadWait, OuterLoop, InnerLoop, SeePending, ReportStatus, listVars,
     copyVars, AppendEntry
<1> QED BY <1>2, <1>3, <1>4, <1>5, <1>6, <1>7 DEF Next, CopyStep, PollStep

LEMMA NextOwn ==
  ASSUME CopyInv, Next
  PROVE  OwnInv'
<1>1. OwnInv /\ TypeOK /\ ListInv
  BY DEF CopyInv
<1>2. /\ NoDesc \notin Desc /\ NoDesc' = NoDesc /\ Desc' = Desc /\ appended \in Nat
      /\ \A w, n : Chunk(w, n)' = Chunk(w, n)
  BY Basics, NextSystem, SameSystem DEF NoDesc
<1>3. /\ Pending \subseteq Entries /\ entryDesc \in [Entries -> Desc \cup {NoDesc}]
      /\ busy \subseteq Desc /\ inflight \subseteq Desc /\ newDesc \in Desc \cup {NoDesc}
      /\ status \in [Desc -> {"none", "success", "error"}] /\ chunk \in [Desc -> SUBSET Sgs]
  BY <1>1 DEF TypeOK, Pending
<1> DEFINE Owned(I, B, P, D) ==
             /\ I \subseteq B
             /\ \A e, f \in P : D[e] = D[f] /\ D[e] # NoDesc => e = f
             /\ \A e \in P : D[e] \in B \cup {NoDesc}
<1>4. OwnInv <=> /\ Owned(inflight, busy, Pending, entryDesc)
                 /\ \A d \in inflight : status[d] = "none" /\ \E e \in Pending : entryDesc[e] = d
                 /\ spc \in {"append", "submit"} /\ newDesc # NoDesc =>
                       newDesc \in busy \ inflight /\ status[newDesc] = "none"
                 /\ spc = "append" /\ newDesc # NoDesc =>
                       chunk[newDesc] = Chunk(wq, curEnt) /\ \A e \in Pending : entryDesc[e] # newDesc
                 /\ spc = "submit" /\ newDesc # NoDesc => \E e \in Pending : entryDesc[e] = newDesc
  BY DEF OwnInv, DescriptorOwned, Pending
<1>5. CASE CopyStep /\ AppendEntry
  <2>1. /\ UNCHANGED <<inflight, busy, status, chunk, newDesc, wq, curEnt>>
        /\ entryDesc' = [entryDesc EXCEPT ![appended + 1] = newDesc]
        /\ spc = "append" /\ spc' = "submit"
    BY <1>5 DEF AppendEntry, descVars
  <2>2. appended + 1 \in Entries
    BY <1>5, NextType, NextSystem, SameSystem, Basics DEF TypeOK, AppendEntry
  <2>3. Pending' = Pending \cup {appended + 1} /\ appended + 1 \notin Pending
    BY <1>5, PendingSteps DEF AppendEntry, SeeFinished, copyVars
  <2>4. entryDesc'[appended + 1] = newDesc /\ \A e \in Pending : entryDesc'[e] = entryDesc[e]
    BY <1>3, <2>1, <2>2, <2>3
  <2> QED BY <1>1, <1>2, <1>3, <1>4, <2>1, <2>3, <2>4 DEF OwnInv, DescriptorOwned, Pending
<1>6. CASE PollStep /\ SeeFinished
  <2>1. /\ UNCHANGED <<inflight, status, chunk, newDesc, wq, curEnt, spc, entryDesc>>
        /\ busy' = busy \ {entryDesc[entry]} /\ entryDesc[entry] # NoDesc
        /\ status[entryDesc[entry]] # "none"
    BY <1>6 DEF PollStep, SeeFinished, copyVars
  <2>2. Pending' = Pending \ {entry} /\ entry \in Pending
    BY <1>6, PendingSteps DEF AppendEntry, SeeFinished, PollStep, listVars
  <2>3. entryDesc[entry] \notin inflight
    BY <1>4, <1>1, <2>1
  <2>4. (Owned(inflight, busy, Pending, entryDesc))'
    BY <1>1, <1>2, <1>4, <2>1, <2>2, <2>3
  <2> QED BY <1>1, <1>2, <1>4, <2>1, <2>2, <2>4 DEF OwnInv, DescriptorOwned, Pending
<1>7. ASSUME Pending' = Pending, entryDesc' = entryDesc
      PROVE  OwnInv'
  <2>0. Chunk(wq, curEnt)' = Chunk(wq', curEnt')
    BY NextSystem DEF Chunk, SgCount, Batched
  <2>1. OwnInv' <=>
           /\ Owned(inflight', busy', Pending, entryDesc)
           /\ \A d \in inflight' : status'[d] = "none" /\ \E e \in Pending : entryDesc[e] = d
           /\ spc' \in {"append", "submit"} /\ newDesc' # NoDesc =>
                 newDesc' \in busy' \ inflight' /\ status'[newDesc'] = "none"
           /\ spc' = "append" /\ newDesc' # NoDesc =>
                 /\ chunk'[newDesc'] = Chunk(wq', curEnt')
                 /\ \A e \in Pending : entryDesc[e] # newDesc'
           /\ spc' = "submit" /\ newDesc' # NoDesc => \E e \in Pending : entryDesc[e] = newDesc'
    <3>1. linked' \ completed' = Pending
      BY <1>7 DEF Pending
    <3> QED BY <1>2, <1>7, <2>0, <3>1 DEF OwnInv, DescriptorOwned
  <2>2. CASE CopyStep /\ AllocDesc
    <3>1. PICK d \in Desc \ busy : /\ busy' = busy \cup {d} /\ newDesc' = d
                                   /\ status' = [status EXCEPT ![d] = "none"]
                                   /\ chunk' = [chunk EXCEPT ![d] = Chunk(wq, curEnt)]
      BY <2>2 DEF AllocDesc
    <3>2. UNCHANGED <<inflight, wq, curEnt>> /\ spc' = "append"
      BY <2>2 DEF AllocDesc
    <3> QED BY <1>1, <1>2, <1>3, <1>4, <2>1, <3>1, <3>2
  <2>3. CASE CopyStep /\ SubmitDesc
    <3>1. /\ UNCHANGED <<busy, status, newDesc>> /\ spc = "submit" /\ spc' = "wake"
          /\ inflight' = inflight \/ (inflight' = inflight \cup {newDesc} /\ newDesc # NoDesc)
      BY <2>3 DEF SubmitDesc
    <3> QED BY <1>1, <1>4, <2>1, <3>1
  <2>4. CASE Device
    <3>1. PICK d \in Desc : DevComplete(d)
      BY <2>4 DEF Device
    <3>2. /\ d \in inflight /\ inflight' = inflight \ {d}
          /\ \A x \in Desc : x # d => status'[x] = status[x]
          /\ UNCHANGED <<busy, spc, newDesc, wq, curEnt, chunk>>
      BY <1>3, <3>1 DEF DevComplete, copyVars
    <3> QED BY <1>1, <1>2, <1>3, <1>4, <2>1, <3>2
  <2>5. CASE CopyStep /\ AllocFails
    <3>1. UNCHANGED <<inflight, busy, status>> /\ newDesc' = NoDesc
      BY <2>5 DEF AllocFails, descVars
    <3> QED BY <1>1, <1>4, <2>1, <3>1
  <2>6. CASE CopyStep /\ ~AllocDesc /\ ~AllocFails /\ ~SubmitDesc /\ ~AppendEntry
    <3>1. UNCHANGED <<inflight, busy, status>> /\ spc' \notin {"append", "submit"}
      BY <2>6 DEF CopyStep, CopyStart, SkipTurn, WakeThread, NextTurn, WaitWakeup, ClearExecution,
         WaitStatus, descVars
    <3> QED BY <1>1, <1>4, <2>1, <3>1
  <2>7. CASE Unload \/ (PollStep /\ ~SeeFinished)
    <3>1. /\ UNCHANGED <<inflight, busy, status, newDesc, wq, curEnt, chunk>>
          /\ spc' = spc \/ spc' \notin {"append", "submit"}
      BY <2>7 DEF Unload, PollStep, ThreadWait, OuterLoop, InnerLoop, SeeCompleted, SeePending,
         UnlinkFinished, ReportStatus, copyVars, descVars
    <3> QED BY <1>1, <1>4, <2>1, <3>1
  <2> QED BY <1>5, <1>6, <2>2, <2>3, <2>4, <2>5, <2>6, <2>7 DEF Next
<1> QED BY <1>5, <1>6, <1>7, PendingSteps

\* A turn is taken when its entry is put on the list.
LEMMA TakenSteps ==
  ASSUME CopyInv, Next, NEW w \in Wqs, NEW n \in 0 .. DescsEntries(w) - 1, Taken(w, n)'
  PROVE  Taken(w, n) \/ (CopyStep /\ AppendEntry /\ w = wq /\ n = curEnt)
<1>1. DescsEntries(w) \in Nat /\ n \in Nat /\ n < DescsEntries(w) /\ w \in Nat
  BY EntriesFacts, Basics, SMTT(40) DEF CopyInv, Wqs
<1>2. CASE CopyStep /\ (SkipTurn \/ WakeThread)
  <2>1. NextTurn /\ spc \in {"alloc", "wake"}
    BY <1>2 DEF SkipTurn, WakeThread
  <2>2. Taken(w, n) \/ (w = wq /\ n = curEnt)
    BY <1>1, <2>1, TurnEnds
  <2>3. CASE SkipTurn
    BY <1>1, <2>2, <2>3, Basics DEF SkipTurn
  <2>4. CASE WakeThread
    BY <1>1, <2>2, <2>4, Basics DEF WakeThread, Taken
  <2> QED BY <1>2, <2>3, <2>4
<1>3. CASE CopyStep /\ AppendEntry
  BY <1>1, <1>3, Basics DEF AppendEntry, Taken
<1>4. CASE CopyStep /\ ~SkipTurn /\ ~WakeThread /\ ~AppendEntry
  <2>1. UNCHANGED <<wq, curEnt>> /\ (spc' \in {"submit", "wake"} => spc \in {"submit", "wake"})
    BY <1>4 DEF CopyStep, CopyStart, AllocDesc, AllocFails, SubmitDesc, WaitWakeup, ClearExecution,
       WaitStatus
  <2> QED BY <2>1 DEF Taken
<1>5. CASE Unload \/ PollStep \/ Device
  <2>1. UNCHANGED <<wq, curEnt>> /\ (spc' \in {"submit", "wake"} => spc \in {"submit", "wake"})
    BY <1>5 DEF Unload, PollStep, Device, DevComplete, copyVars
  <2> QED BY <2>1 DEF Taken
<1> QED BY <1>2, <1>3, <1>4, <1>5 DEF Next, CopyStep

LEMMA NextCover ==
  ASSUME CopyInv, Next
  PROVE  CoverInv'
<1>1. CoverInv /\ OwnInv /\ TypeOK
  BY DEF CopyInv
<1>2. /\ NoDesc \notin Desc /\ NoDesc' = NoDesc /\ Desc' = Desc /\ appended \in Nat /\ Wqs' = Wqs
      /\ \A w : DescsEntries(w)' = DescsEntries(w)
      /\ \A w, n : Chunk(w, n)' = Chunk(w, n)
  BY Basics, NextSystem, SameSystem DEF NoDesc, Wqs
<1>3. /\ Pending \subseteq Entries /\ entryDesc \in [Entries -> Desc \cup {NoDesc}]
      /\ busy \subseteq Desc /\ newDesc \in Desc \cup {NoDesc}
      /\ status \in [Desc -> {"none", "success", "error"}] /\ chunk \in [Desc -> SUBSET Sgs]
      /\ \A e \in Pending : entryDesc[e] \in busy \cup {NoDesc}
  BY <1>1 DEF TypeOK, Pending, OwnInv, DescriptorOwned
<1> DEFINE Told(e) == entryDesc[e] # NoDesc /\ status[entryDesc[e]] = "success"
                        => chunk[entryDesc[e]] \subseteq copied
           Kept(w, n) == \/ completionError \/ Chunk(w, n) \subseteq copied
                         \/ \E e \in Pending : entryDesc[e] = NoDesc \/ chunk[entryDesc[e]] = Chunk(w, n)
           ToldNext(e) == entryDesc'[e] # NoDesc /\ status'[entryDesc'[e]] = "success"
                            => chunk'[entryDesc'[e]] \subseteq copied'
           KeptNext(w, n) == \/ completionError' \/ Chunk(w, n) \subseteq copied'
                             \/ \E e \in Pending' : \/ entryDesc'[e] = NoDesc
                                                    \/ chunk'[entryDesc'[e]] = Chunk(w, n)
<1>4. /\ \A e \in Pending : Told(e)
      /\ \A w \in Wqs : \A n \in 0 .. DescsEntries(w) - 1 : Taken(w, n) => Kept(w, n)
  BY <1>1 DEF CoverInv
<1>5. SUFFICES /\ \A e \in Pending' : ToldNext(e)
               /\ \A w, n : Kept(w, n) => KeptNext(w, n)
               /\ CopyStep /\ AppendEntry => KeptNext(wq, curEnt)
  <2>1. \A w \in Wqs : \A n \in 0 .. DescsEntries(w) - 1 : Taken(w, n)' => KeptNext(w, n)
    BY <1>4, <1>5, TakenSteps
  <2> QED BY <1>2, <1>5, <2>1 DEF CoverInv
<1>6. CASE CopyStep /\ AppendEntry
  <2>1. /\ UNCHANGED <<status, chunk, copied, completionError>> /\ spc = "append"
        /\ entryDesc' = [entryDesc EXCEPT ![appended + 1] = newDesc]
    BY <1>6 DEF CopyStep, AppendEntry, descVars, pollVars
  <2>2. appended + 1 \in Entries
    BY <1>6, NextType, NextSystem, SameSystem, Basics DEF TypeOK, AppendEntry
  <2>3. Pending' = Pending \cup {appended + 1} /\ appended + 1 \notin Pending
    BY <1>6, PendingSteps DEF AppendEntry, SeeFinished, copyVars
  <2>4. entryDesc'[appended + 1] = newDesc /\ \A e \in Pending : entryDesc'[e] = entryDesc[e]
    BY <1>3, <2>1, <2>2, <2>3
  <2>5. newDesc # NoDesc => status[newDesc] = "none" /\ chunk[newDesc] = Chunk(wq, curEnt)
    BY <1>1, <2>1 DEF OwnInv
  <2> QED BY <1>4, <2>1, <2>3, <2>4, <2>5
<1>7. CASE PollStep /\ SeeFinished
  <2>1. /\ UNCHANGED <<status, chunk, copied, entryDesc>> /\ entryDesc[entry] # NoDesc
        /\ completionError' = (completionError \/ status[entryDesc[entry]] = "error")
        /\ status[entryDesc[entry]] # "none"
    BY <1>7 DEF PollStep, SeeFinished
  <2>2. Pending' = Pending \ {entry} /\ entry \in Pending
    BY <1>7, PendingSteps DEF AppendEntry, SeeFinished, PollStep, listVars
  <2>3. completionError' \/ status[entryDesc[entry]] = "success"
    BY <1>3, <2>1, <2>2
  <2>4. completionError' \/ chunk[entryDesc[entry]] \subseteq copied
    BY <1>4, <2>1, <2>2, <2>3
  <2>5. completionError => completionError'
    BY <2>1
  <2>6. ~(CopyStep /\ AppendEntry)
    BY <1>7, <2>2 DEF CopyStep, pollVars, SeeFinished
  <2> QED BY <1>4, <2>1, <2>2, <2>4, <2>5, <2>6
<1>8. CASE Pending' = Pending /\ entryDesc' = entryDesc /\ ~AppendEntry /\ ~SeeFinished
  <2>1. CASE CopyStep /\ AllocDesc
    <3>1. PICK d \in Desc \ busy : /\ status' = [status EXCEPT ![d] = "none"]
                                   /\ chunk' = [chunk EXCEPT ![d] = Chunk(wq, curEnt)]
      BY <2>1 DEF AllocDesc
    <3>2. UNCHANGED <<copied, completionError>>
      BY <2>1 DEF CopyStep, AllocDesc, pollVars
    <3>3. \A e \in Pending : entryDesc[e] # NoDesc =>
             status'[entryDesc[e]] = status[entryDesc[e]] /\ chunk'[entryDesc[e]] = chunk[entryDesc[e]]
      BY <1>3, <3>1
    <3> QED BY <1>4, <1>8, <3>2, <3>3
  <2>2. CASE Device
    <3>1. PICK d \in Desc : DevComplete(d)
      BY <2>2 DEF Device
    <3>2. /\ UNCHANGED <<completionError, chunk>> /\ copied \subseteq copied'
          /\ \A x \in Desc : status'[x] = "success" =>
                status[x] = "success" \/ (x = d /\ chunk[d] \subseteq copied')
      BY <1>3, <3>1 DEF DevComplete, pollVars
    <3> QED BY <1>3, <1>4, <1>8, <3>2
  <2>3. CASE (CopyStep /\ ~AllocDesc) \/ Unload \/ PollStep
    <3>1. UNCHANGED <<status, chunk, copied, completionError>>
      BY <1>8, <2>3 DEF CopyStep, CopyStart, SkipTurn, AllocFails, SubmitDesc, WakeThread, WaitWakeup,
         ClearExecution, WaitStatus, Unload, PollStep, ThreadWait, OuterLoop, InnerLoop,
         SeeCompleted, SeePending, UnlinkFinished, ReportStatus, descVars, pollVars
    <3> QED BY <1>4, <1>8, <3>1
  <2> QED BY <2>1, <2>2, <2>3 DEF Next
<1> QED BY <1>6, <1>7, <1>8, PendingSteps

LEMMA NextPointer ==
  ASSUME CopyInv, Next
  PROVE  PointerInv'
<1>1. PointerInv /\ TypeOK /\ TurnInv
  BY DEF CopyInv
<1>2. /\ NoDesc \notin Desc /\ NoDesc' = NoDesc /\ Desc' = Desc /\ appended \in Nat /\ Wqs' = Wqs
      /\ MayFail' = MayFail /\ Batched' = Batched /\ SgCount' = SgCount
      /\ SinglesFirst' = SinglesFirst
  BY Basics, NextSystem, SameSystem DEF NoDesc, Wqs
<1>3. ~MayFail => (/\ \A e \in 1 .. appended : entryDesc[e] # NoDesc
                   /\ spc \in {"append", "submit"} => newDesc # NoDesc)'
  <2> SUFFICES ASSUME ~MayFail
               PROVE  (/\ \A e \in 1 .. appended : entryDesc[e] # NoDesc
                       /\ spc \in {"append", "submit"} => newDesc # NoDesc)'
    OBVIOUS
  <2>1. /\ \A e \in 1 .. appended : entryDesc[e] # NoDesc
        /\ spc \in {"append", "submit"} => newDesc # NoDesc
    BY <1>1 DEF PointerInv
  <2>2. CASE CopyStep /\ AppendEntry
    <3>1. appended + 1 \in Entries /\ 1 .. appended + 1 \subseteq Entries
      BY <2>2, NextType, NextSystem, SameSystem, Basics DEF TypeOK, AppendEntry
    <3> QED BY <1>1, <1>2, <2>1, <2>2, <3>1 DEF AppendEntry, TypeOK
  <2>3. CASE ~(CopyStep /\ AppendEntry)
    <3>1. UNCHANGED <<appended, entryDesc>>
      BY <2>3 DEF Next, CopyStep, CopyStart, SkipTurn, AllocDesc, AllocFails, SubmitDesc, WakeThread,
         WaitWakeup, ClearExecution, WaitStatus, Unload, PollStep, ThreadWait, OuterLoop, InnerLoop,
         SeeCompleted, SeePending, SeeFinished, UnlinkFinished, ReportStatus, Device, DevComplete,
         copyVars, listVars
    <3>2. \/ newDesc' \in Desc
          \/ newDesc' = newDesc /\ (spc' \in {"append", "submit"} => spc \in {"append", "submit"})
      BY <2>3 DEF Next, CopyStep, CopyStart, SkipTurn, AllocDesc, AllocFails, SubmitDesc, WakeThread,
         NextTurn, WaitWakeup, ClearExecution, WaitStatus, Unload, PollStep, Device, DevComplete,
         copyVars
    <3> QED BY <1>2, <2>1, <3>1, <3>2
  <2> QED BY <2>2, <2>3
<1>4. ~Batched => batchTask' = "null"
  BY <1>1 DEF PointerInv, Next, CopyStep, CopyStart, SkipTurn, AllocDesc, UsesBatch, AllocFails,
     AppendEntry, SubmitDesc, WakeThread, WaitWakeup, ClearExecution, WaitStatus, Unload, PollStep,
     Device, DevComplete, copyVars
<1>5. ASSUME ~MayFail, SinglesFirst
      PROVE  (/\ spc \in InTurn => batchTask # "freed"
              /\ /\ spc \in InTurn \cup {"start", "alloc"} /\ curEnt = 0
                 /\ \A v \in Wqs : v < wq \/ (v = wq /\ spc \in InTurn) => SgCount[v] = 1
                 => batchTask = "null")'
  <2>1. /\ spc \in InTurn => batchTask # "freed"
        /\ /\ spc \in InTurn \cup {"start", "alloc"} /\ curEnt = 0
           /\ \A v \in Wqs : v < wq \/ (v = wq /\ spc \in InTurn) => SgCount[v] = 1
           => batchTask = "null"
    BY <1>1, <1>5 DEF PointerInv
  <2>2. CASE CopyStep /\ AllocDesc
    <3>1. /\ spc = "alloc" /\ curEnt < DescsEntries(wq) /\ UNCHANGED <<curEnt, wq>>
          /\ batchTask' = IF UsesBatch THEN "live" ELSE batchTask
      BY <2>2 DEF AllocDesc
    <3>2. CASE UsesBatch
      <4>1. SgCount[wq] # 1 /\ batchTask' = "live" /\ wq \in Wqs
        BY <3>1, <3>2, Basics DEF UsesBatch
      <4>2. spc' \in InTurn
        BY <2>2 DEF AllocDesc, InTurn
      <4> QED BY <1>2, <3>1, <4>1, <4>2
    <3>3. CASE ~UsesBatch /\ Batched
      <4>1. SgCount[wq] = 1 /\ curEnt = 0
        <5>1. SgCount[wq] = 1
          BY <3>3 DEF UsesBatch
        <5> QED BY <3>1, <5>1, Basics, EntriesFacts DEF CopyInv
      <4>2. \A v \in Wqs : v < wq => SgCount[v] = 1
        BY <1>5, <3>3, <4>1, Basics DEF SinglesFirst
      <4>3. batchTask = "null"
        BY <2>1, <3>1, <4>1, <4>2, Basics DEF InTurn, Wqs
      <4> QED BY <3>1, <3>3, <4>3
    <3>4. CASE ~Batched
      BY <1>4, <3>4
    <3> QED BY <3>2, <3>3, <3>4
  <2>3. CASE CopyStep /\ SkipTurn
    <3>1. curEnt # 0
      BY <2>3, Basics DEF SkipTurn
    <3>2. spc' \notin InTurn /\ curEnt' # 0
      BY <2>3, <3>1, Basics DEF SkipTurn, NextTurn, InTurn
    <3> QED BY <3>2
  <2>4. CASE CopyStep /\ WakeThread
    <3>1. spc' \in {"alloc", "waitwake"} /\ spc = "wake"
      BY <2>4 DEF WakeThread, NextTurn
    <3>2. CASE wq = NumWqs
      BY <2>4, <3>1, <3>2, Basics DEF WakeThread, NextTurn, InTurn
    <3>3. CASE wq # NumWqs
      <4>1. wq' = wq + 1 /\ curEnt' = curEnt /\ (batchTask = "null" => batchTask' = "null")
        BY <2>4, <3>3 DEF WakeThread, NextTurn
      <4>2. \A v \in Wqs : v < wq \/ v = wq => v < wq'
        BY <4>1, Basics, SMTT(40) DEF Wqs
      <4> QED BY <1>2, <2>1, <3>1, <4>1, <4>2 DEF InTurn
    <3> QED BY <3>2, <3>3
  <2>5. CASE CopyStep /\ ~AllocDesc /\ ~SkipTurn /\ ~WakeThread
    BY <1>2, <1>5, <2>1, <2>5 DEF CopyStep, CopyStart, AllocFails, AppendEntry, SubmitDesc, WaitWakeup,
       ClearExecution, WaitStatus, InTurn
  <2>6. CASE Unload \/ PollStep \/ Device
    BY <1>2, <2>1, <2>6 DEF Unload, PollStep, Device, DevComplete, copyVars, InTurn
  <2> QED BY <2>2, <2>3, <2>4, <2>5, <2>6 DEF Next
<1> QED BY <1>2, <1>3, <1>4, <1>5 DEF PointerInv

LEMMA NextNoOops ==
  ASSUME CopyInv, Next
  PROVE  NoOops'
<1>1. PointerInv /\ ListInv /\ ~oops
  BY NextSystem DEF CopyInv
<1>2. MayFail' = MayFail /\ SinglesFirst' = SinglesFirst
  BY NextSystem, SameSystem
<1>3. ASSUME ~MayFail, SinglesFirst PROVE ~oops'
  <2>1. CASE CopyStep
    BY <1>1, <1>3, <2>1 DEF CopyStep, CopyStart, SkipTurn, AllocDesc, AllocFails, AppendEntry,
       SubmitDesc, WakeThread, WaitWakeup, ClearExecution, WaitStatus, PointerInv, InTurn
  <2>2. CASE PollStep /\ SeePending
    BY <1>1, <1>3, <2>2 DEF SeePending, PointerInv, ListInv
  <2>3. CASE Unload \/ Device \/ (PollStep /\ ~SeePending)
    BY <1>1, <2>3 DEF Unload, Device, DevComplete, PollStep, ThreadWait, OuterLoop, InnerLoop,
       SeeCompleted, SeeFinished, UnlinkFinished, ReportStatus
  <2> QED BY <2>1, <2>2, <2>3 DEF Next
<1> QED BY <1>2, <1>3 DEF NoOops

LEMMA InitCopy == Init => CopyInv
<1> SUFFICES ASSUME Init PROVE CopyInv
  OBVIOUS
<1>1. sys \in Systems
  BY DEF Init
<1>2. /\ MaxEnts \in Nat \ {0} /\ MaxEnts * NumWqs \in Nat /\ NumWqs \in Nat \ {0}
      /\ 1 \in Wqs /\ DescsEntries(1) \in Nat \ {0} /\ NoDesc \notin Desc
  BY <1>1, MaxFacts, SystemFacts, EntriesFacts DEF Wqs
<1>3. TypeOK
  <2>1. {threadExecution, threadWakeup, completionError, shouldStop, oops} \subseteq BOOLEAN
    BY Zenon DEF Init
  <2> QED BY <1>2, <2>1 DEF Init, TypeOK
<1>4. TurnInv /\ FlagInv
  BY <1>2 DEF Init, TurnInv, FlagInv, InTurn, Ended
<1>5. ListInv
  BY FS_EmptySet DEF Init, ListInv
<1>6. OwnInv
  BY DEF Init, OwnInv, DescriptorOwned, Pending
<1>7. CoverInv
  <2>1. \A w \in Wqs : \A n \in 0 .. DescsEntries(w) - 1 : ~Taken(w, n)
    BY <1>1, <1>2, EntriesFacts DEF Init, Taken, Wqs
  <2> QED BY <2>1 DEF Init, CoverInv, Pending
<1>8. PointerInv /\ NoOops
  BY DEF Init, PointerInv, NoOops, InTurn
<1> QED BY <1>1, <1>3, <1>4, <1>5, <1>6, <1>7, <1>8 DEF CopyInv

\* The inductive invariant of the N-device copy programs.
THEOREM CopyInvHolds == Spec => []CopyInv
<1>1. CopyInv /\ UNCHANGED vars => CopyInv'
  <2> SUFFICES ASSUME CopyInv, UNCHANGED vars PROVE CopyInv'
    OBVIOUS
  <2> USE DEF vars, copyVars, flagVars, listVars, pollVars, descVars
  <2>1. /\ Desc' = Desc /\ Entries' = Entries /\ Sgs' = Sgs /\ MaxEnts' = MaxEnts
        /\ SgCount' = SgCount /\ Batched' = Batched /\ MayFail' = MayFail
        /\ SinglesFirst' = SinglesFirst
        /\ \A w : DescsEntries(w)' = DescsEntries(w)
        /\ \A w, n : Chunk(w, n)' = Chunk(w, n)
    BY SameSystem
  <2>2. Wqs' = Wqs /\ NoDesc' = NoDesc /\ Head' = Head /\ Pending' = Pending
    BY DEF Wqs, NoDesc, Head, Pending
  <2>3. TypeOK'
    BY <2>1, <2>2 DEF CopyInv, TypeOK
  <2>4. TurnInv' /\ FlagInv' /\ ListInv'
    BY <2>1, <2>2 DEF CopyInv, TurnInv, FlagInv, ListInv, InTurn, Ended
  <2>5. OwnInv'
    BY <2>1, <2>2 DEF CopyInv, OwnInv, DescriptorOwned
  <2>6. CoverInv'
    BY <2>1, <2>2 DEF CopyInv, CoverInv, Taken
  <2>7. PointerInv' /\ NoOops'
    BY <2>1, <2>2 DEF CopyInv, PointerInv, NoOops, InTurn
  <2> QED BY <2>3, <2>4, <2>5, <2>6, <2>7 DEF CopyInv
<1>2. CopyInv /\ Next => CopyInv'
  BY NextSystem, NextType, NextTurnInv, NextFlagInv, NextListInv, NextOwn, NextCover, NextPointer,
     NextNoOops DEF CopyInv
<1> QED BY InitCopy, <1>1, <1>2, PTL DEF Spec

\* What the two threads share stays sound, for any queues and failures: types, a
\* descriptor with one owner, and no NULL followed or batch_task freed twice but
\* where NoOops says so (dsa_copy, dsa_desc_complete).
THEOREM EntriesSoundHolds == Spec => []EntriesSound
<1>1. CopyInv => EntriesSound
  BY DEF CopyInv, OwnInv, EntriesSound
<1> QED BY <1>1, CopyInvHolds, PTL

\* When dsa_copy unmaps the buffers the device is done with them, and a success
\* it was told of covers every scatter-list entry (completion_status).
THEOREM CopyCompleteHolds == Spec => []CopyComplete
<1>1. CopyInv => CopyComplete
  <2> SUFFICES ASSUME CopyInv PROVE CopyComplete
    OBVIOUS
  <2>1. QuietAtUnmap
    BY DEF CopyInv, FlagInv, OwnInv, Pending, QuietAtUnmap, Ended
  <2>2. SuccessMeansCopied
    <3> SUFFICES ASSUME spc = "unmapped", completionStatus = 1 PROVE copied = Sgs
      BY DEF SuccessMeansCopied
    <3>1. Pending = {} /\ ~completionError /\ curEnt = MaxEnts
      BY DEF CopyInv, FlagInv, TurnInv, Pending, Ended
    <3>2. ASSUME NEW w \in Wqs, NEW n \in 0 .. DescsEntries(w) - 1
          PROVE  Chunk(w, n) \subseteq copied
      <4>1. Taken(w, n)
        BY <3>1, MaxFacts, EntriesFacts DEF CopyInv, Taken
      <4> QED BY <3>1, <4>1 DEF CopyInv, CoverInv
    <3>3. copied \subseteq Sgs
      BY DEF CopyInv, TypeOK
    <3> QED BY <3>2, <3>3, ChunkFacts DEF CopyInv
  <2> QED BY <2>1, <2>2 DEF CopyComplete
<1> QED BY <1>1, CopyInvHolds, PTL

\* dsa_desc_complete unlinks an entry only while dsa_copy waits for the end: the
\* list they share without a lock is never changed by both (thread_execution).
THEOREM NoUnlinkHolds == Spec => NoUnlinkWhileAppending
<1>1. CopyInv /\ [Next]_vars => [linked' \subseteq linked /\ linked' # linked => spc = "waitstatus"]_vars
  <2> SUFFICES ASSUME CopyInv, Next, linked' \subseteq linked, linked' # linked
               PROVE  spc = "waitstatus"
    BY DEF vars
  <2>1. PollStep /\ (SeeCompleted \/ UnlinkFinished)
    <3>1. ~AppendEntry
      BY DEF AppendEntry
    <3> QED BY <3>1 DEF Next, CopyStep, CopyStart, SkipTurn, AllocDesc, AllocFails, SubmitDesc,
               WakeThread, WaitWakeup, ClearExecution, WaitStatus, Unload, PollStep, ThreadWait,
               OuterLoop, InnerLoop, SeePending, SeeFinished, ReportStatus, Device, DevComplete,
               listVars
  <2>2. ~threadExecution /\ cpc # "wait" /\ linked # {}
    BY <2>1 DEF SeeCompleted, UnlinkFinished, Unlink
  <2> QED BY <2>2 DEF CopyInv, FlagInv, Ended
<1> QED BY <1>1, CopyInvHolds, PTL DEF Spec, NoUnlinkWhileAppending
=============================================================================
