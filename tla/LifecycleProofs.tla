--------------------------- MODULE LifecycleProofs ---------------------------
(* What the idxd driver acquires and gives back, for any numbers of queues, *)
(* engines and groups, whichever call fails.                                *)
EXTENDS Lifecycle, TLAPS

-----------------------------------------------------------------------------
(* Conf devices.                                                            *)

LEMMA ConfKinds ==
  /\ \A c \in Wqs : c[1] = "wq"
  /\ \A c \in Engines : c[1] = "engine"
  /\ \A c \in Groups : c[1] = "group"
  /\ Idxd[1] = "idxd"
  /\ Wqs = FirstOf("wq", NumWqs) /\ Engines = FirstOf("engine", NumEngines)
  /\ Groups = FirstOf("group", NumGroups)
  BY DEF Wqs, Engines, Groups, Idxd, FirstOf

LEMMA ConfsApart ==
  /\ Wqs \cap Engines = {} /\ Wqs \cap Groups = {} /\ Engines \cap Groups = {}
  /\ Idxd \notin Wqs \cup Engines \cup Groups
  /\ Confs = Wqs \cup Engines \cup Groups \cup {Idxd}
<1>1. "wq" # "engine" /\ "wq" # "group" /\ "engine" # "group" /\ "idxd" # "wq"
      /\ "idxd" # "engine" /\ "idxd" # "group"
  OBVIOUS
<1> QED BY <1>1, ConfKinds DEF Confs

-----------------------------------------------------------------------------
(* Acquiring and releasing while the books are right.                       *)

LEMMA HoldingFields ==
  ASSUME NEW M, NEW P, NEW C, NEW G, NEW B
  PROVE  /\ Holding(M, P, C, G, B).mem = M /\ Holding(M, P, C, G, B).ptr = P
         /\ Holding(M, P, C, G, B).reg = G /\ Holding(M, P, C, G, B).bad = B
         /\ Holding(M, P, C, G, B).refs = [c \in Confs |-> IF c \in C THEN 1 ELSE 0]
  BY DEF Holding

\* A record with these fields is that record.
LEMMA HoldingIs ==
  ASSUME NEW M, NEW P, NEW C, NEW G, NEW B,
         NEW x \in [mem : {M}, ptr : {P},
                    refs : {[c \in Confs |-> IF c \in C THEN 1 ELSE 0]},
                    reg : {G}, bad : {B}]
  PROVE  x = Holding(M, P, C, G, B)
  BY DEF Holding

LEMMA AcquireHolding ==
  ASSUME NEW M, NEW P, NEW C, NEW G, NEW B, NEW R
  PROVE  Acquire(Holding(M, P, C, G, B), R) = Holding(M \cup R, P \cup R, C, G, B)
<1> DEFINE x == Acquire(Holding(M, P, C, G, B), R)
<1>1. x \in [mem : {M \cup R}, ptr : {P \cup R},
             refs : {[c \in Confs |-> IF c \in C THEN 1 ELSE 0]}, reg : {G}, bad : {B}]
  BY DEF Holding, Acquire
<1> HIDE DEF x
<1>2. x = Holding(M \cup R, P \cup R, C, G, B)
  BY <1>1, HoldingIs
<1> QED BY <1>2 DEF x

LEMMA ReleaseHolding ==
  ASSUME NEW M, NEW P, NEW C, NEW G, NEW B, NEW R, R \subseteq M
  PROVE  Release(Holding(M, P, C, G, B), R) = Holding(M \ R, P, C, G, B)
<1>1. B \cup (R \ M) = B
  OBVIOUS
<1> DEFINE x == Release(Holding(M, P, C, G, B), R)
<1>2. x \in [mem : {M \ R}, ptr : {P}, refs : {[c \in Confs |-> IF c \in C THEN 1 ELSE 0]},
             reg : {G}, bad : {B \cup (R \ M)}]
  BY DEF Holding, Release
<1> HIDE DEF x
<1>3. x = Holding(M \ R, P, C, G, B)
  BY <1>1, <1>2, HoldingIs
<1> QED BY <1>3 DEF x

LEMMA InitializeHolding ==
  ASSUME NEW M, NEW P, NEW C, NEW G, NEW B, NEW D
  PROVE  Initialize(Holding(M, P, C, G, B), D) = Holding(M, P, C \cup D, G, B)
<1> DEFINE r == [c \in Confs |-> IF c \in C THEN 1 ELSE 0]
           m == [c \in Confs |-> IF c \in D THEN 1 ELSE r[c]]
           n == [c \in Confs |-> IF c \in C \cup D THEN 1 ELSE 0]
           x == Initialize(Holding(M, P, C, G, B), D)
<1>1. m = n
  OBVIOUS
<1>2. x \in [mem : {M}, ptr : {P}, refs : {m}, reg : {G}, bad : {B}]
  BY DEF Holding, Initialize
<1> HIDE DEF x, m
<1>3. x = Holding(M, P, C \cup D, G, B)
  BY <1>1, <1>2, HoldingIs
<1> QED BY <1>3 DEF x

\* device_del of registered devices.
LEMMA DelHolding ==
  ASSUME NEW M, NEW P, NEW C, NEW G, NEW B, NEW D, D \subseteq G
  PROVE  DeviceDel(Holding(M, P, C, G, B), D) = Holding(M, P, C, G \ D, B)
<1> DEFINE x == DeviceDel(Holding(M, P, C, G, B), D)
           late == {c[1] : c \in D \ G}
<1>1. late = {}
  OBVIOUS
<1>2. x \in [mem : {M}, ptr : {P}, refs : {[c \in Confs |-> IF c \in C THEN 1 ELSE 0]},
             reg : {G \ D}, bad : {B \cup late}]
  BY DEF Holding, DeviceDel
<1> HIDE DEF x, late
<1>3. B \cup late = B
  BY <1>1
<1> DEFINE H == G \ D
<1>4. x \in [mem : {M}, ptr : {P}, refs : {[c \in Confs |-> IF c \in C THEN 1 ELSE 0]},
             reg : {H}, bad : {B}]
  BY <1>2, <1>3
<1> HIDE DEF H
<1>5. x = Holding(M, P, C, H, B)
  BY <1>4, HoldingIs
<1> QED BY <1>5 DEF x, H

\* put_device, as a function of what was put and how it went.
Put(x, D) ==
  [x EXCEPT !.refs = [c \in Confs |-> IF c \in D THEN @[c] - 1 ELSE @[c]],
            !.bad = @ \cup {c[1] : c \in {d \in D : x.refs[d] <= 0}}
                      \cup {c[1] : c \in {d \in D : x.refs[d] = 1} \cap x.reg}]

LEMMA PutDeviceDef ==
  ASSUME NEW x, NEW D
  PROVE  PutDevice(x, D) =
           IF Idxd \in {d \in D : x.refs[d] = 1}
           THEN Release(Put(x, D), Put(x, D).ptr \cap Arrays) ELSE Put(x, D)
  BY Zenon DEF PutDevice, Put

\* The last references to devices that are not registered.
LEMMA PutOnce ==
  ASSUME NEW M, NEW P, NEW C \in SUBSET Confs, NEW G, NEW B, NEW D \in SUBSET C,
         D \cap G = {}
  PROVE  Put(Holding(M, P, C, G, B), D) = Holding(M, P, C \ D, G, B)
<1> DEFINE x == Holding(M, P, C, G, B)
           r == [c \in Confs |-> IF c \in D THEN x.refs[c] - 1 ELSE x.refs[c]]
           n == [c \in Confs |-> IF c \in C \ D THEN 1 ELSE 0]
           late == {c[1] : c \in {d \in D : x.refs[d] <= 0}}
           early == {c[1] : c \in {d \in D : x.refs[d] = 1} \cap G}
           y == Put(x, D)
<1>1. \A c \in Confs : x.refs[c] = IF c \in C THEN 1 ELSE 0
  BY DEF Holding
<1>2. x.reg = G /\ x.bad = B
  BY DEF Holding
<1>3. x \in [mem : {M}, ptr : {P}, refs : {x.refs}, reg : {G}, bad : {B}]
  BY DEF Holding
<1> HIDE DEF x
<1>8. y \in [mem : {M}, ptr : {P}, refs : {r}, reg : {G}, bad : {B \cup late \cup early}]
  BY <1>2, <1>3 DEF Put
<1>4. {d \in D : x.refs[d] <= 0} = {} /\ {d \in D : x.refs[d] = 1} \cap G = {}
  BY <1>1
<1>5. late = {} /\ early = {}
  BY <1>4
<1>6. r = n
  BY <1>1
<1> HIDE DEF r, late, early, y
<1>7. B \cup late \cup early = B
  BY <1>5
<1>9. y = Holding(M, P, C \ D, G, B)
  BY <1>8, <1>6, <1>7, HoldingIs
<1> QED BY <1>9 DEF x, y

LEMMA PutHolding ==
  ASSUME NEW M, NEW P, NEW C \in SUBSET Confs, NEW G, NEW B, NEW D \in SUBSET C,
         D \cap G = {}, Idxd \notin D
  PROVE  PutDevice(Holding(M, P, C, G, B), D) = Holding(M, P, C \ D, G, B)
<1> DEFINE x == Holding(M, P, C, G, B)
<1>1. Put(x, D) = Holding(M, P, C \ D, G, B)
  BY PutOnce
<1> HIDE DEF x
<1>2. PutDevice(x, D) = Put(x, D)
  BY PutDeviceDef
<1> QED BY <1>1, <1>2 DEF x

\* The last reference to the device frees what its pointers reach.
LEMMA PutIdxdHolding ==
  ASSUME NEW M, NEW P, NEW C \in SUBSET Confs, NEW G, NEW B, Idxd \in C, Idxd \notin G,
         P \cap Arrays \subseteq M
  PROVE  PutDevice(Holding(M, P, C, G, B), {Idxd})
           = Holding(M \ (P \cap Arrays), P, C \ {Idxd}, G, B)
<1> DEFINE x == Holding(M, P, C, G, B)
           y == Holding(M, P, C \ {Idxd}, G, B)
<1>1. x.refs[Idxd] = 1
  BY DEF Holding
<1>2. Put(x, {Idxd}) = y
  BY PutOnce
<1>3. y.ptr = P
  BY DEF Holding
<1> HIDE DEF x, y
<1>4. PutDevice(x, {Idxd}) = Release(y, P \cap Arrays)
  BY <1>1, <1>2, <1>3, PutDeviceDef
<1> QED BY <1>4, ReleaseHolding DEF x, y

LEMMA UnregisterHolding ==
  ASSUME NEW M, NEW P, NEW C \in SUBSET Confs, NEW G, NEW B, NEW D \in SUBSET C,
         D \subseteq G, Idxd \notin D
  PROVE  DeviceUnregister(Holding(M, P, C, G, B), D) = Holding(M, P, C \ D, G \ D, B)
<1>1. DeviceDel(Holding(M, P, C, G, B), D) = Holding(M, P, C, G \ D, B)
  BY DelHolding
<1>2. PutDevice(Holding(M, P, C, G \ D, B), D) = Holding(M, P, C \ D, G \ D, B)
  BY PutHolding
<1> QED BY <1>1, <1>2 DEF DeviceUnregister

\* Releasing what may be gone.
LEMMA ReleaseAny ==
  ASSUME NEW M, NEW P, NEW C, NEW G, NEW B, NEW R
  PROVE  Release(Holding(M, P, C, G, B), R) = Holding(M \ R, P, C, G, B \cup (R \ M))
<1> DEFINE x == Release(Holding(M, P, C, G, B), R)
           L == M \ R
           K == B \cup (R \ M)
<1>1. x \in [mem : {L}, ptr : {P}, refs : {[c \in Confs |-> IF c \in C THEN 1 ELSE 0]},
             reg : {G}, bad : {K}]
  BY DEF Holding, Release
<1> HIDE DEF x, L, K
<1>2. x = Holding(L, P, C, G, K)
  BY <1>1, HoldingIs
<1> QED BY <1>2 DEF x, L, K

LEMMA PutIdxdAny ==
  ASSUME NEW M, NEW P, NEW C \in SUBSET Confs, NEW G, NEW B, Idxd \in C, Idxd \notin G
  PROVE  PutDevice(Holding(M, P, C, G, B), {Idxd})
           = Holding(M \ (P \cap Arrays), P, C \ {Idxd}, G, B \cup ((P \cap Arrays) \ M))
<1> DEFINE x == Holding(M, P, C, G, B)
           y == Holding(M, P, C \ {Idxd}, G, B)
<1>1. x.refs[Idxd] = 1
  BY DEF Holding, Confs
<1>2. Put(x, {Idxd}) = y
  BY PutOnce
<1>3. y.ptr = P
  BY DEF Holding
<1> HIDE DEF x, y
<1>4. PutDevice(x, {Idxd}) = Release(y, P \cap Arrays)
  BY <1>1, <1>2, <1>3, PutDeviceDef
<1> QED BY <1>4, ReleaseAny DEF x, y

LEMMA HoldingTyped ==
  ASSUME NEW M \in SUBSET Resources, NEW P \in SUBSET Resources, NEW C,
         NEW G \in SUBSET Confs, NEW B \in SUBSET Mistakes
  PROVE  /\ Holding(M, P, C, G, B) \in HeldRecord
         /\ \A c \in Confs : Holding(M, P, C, G, B).refs[c] \in 0 .. 1
  BY DEF Holding, HeldRecord

-----------------------------------------------------------------------------
(* The failures.                                                            *)

LEMMA FailureKinds ==
  ASSUME NEW f \in Failures
  PROVE  /\ f[1] = "wq" => f \in Wqs
         /\ f[1] = "engine" => f \in Engines
         /\ f[1] = "group" => f \in Groups
         /\ f[1] = "add_wq" => f[2] \in 0 .. NumWqs - 1
         /\ f[1] = "add_engine" => f[2] \in 0 .. NumEngines - 1
         /\ f[1] = "add_group" => f[2] \in 0 .. NumGroups - 1
         /\ f[1] \in {"wqs", "enable_map", "engines", "groups", "evl"} => f = <<f[1], 0>>
         /\ f[1] \in {"none", "pci", "kzalloc", "iomap", "mask", "reset", "load_config"}
                       \cup AllocFailures \cup InterruptFailures \cup InternalFailures
                       \cup RegisterFailures
<1> DEFINE Single == {"none", "pci", "kzalloc", "iomap", "mask", "reset", "load_config",
                      "wqs", "enable_map", "engines", "groups", "workqueue", "evl",
                      "add_idxd"} \cup AllocFailures \cup InterruptFailures
<1>1. CASE \E r \in Single : f = <<r, 0>>
  <2> PICK r \in Single : f = <<r, 0>>
    BY <1>1
  <2>1. f[1] = r
    OBVIOUS
  <2>2. r \notin {"wq", "engine", "group", "add_wq", "add_engine", "add_group"}
    BY DEF AllocFailures, InterruptFailures
  <2> QED BY <2>1, <2>2 DEF InternalFailures, RegisterFailures
<1>2. CASE f \in Wqs \cup Engines \cup Groups
  BY <1>2 DEF Wqs, Engines, Groups, InternalFailures
<1>3. CASE \E c \in Confs \ {Idxd} : f = <<AddOf(c[1]), c[2]>>
  <2> PICK c \in Confs \ {Idxd} : f = <<AddOf(c[1]), c[2]>>
    BY <1>3
  <2>1. CASE c \in Wqs
    BY <2>1 DEF Wqs, AddOf, RegisterFailures
  <2>2. CASE c \in Engines
    BY <2>2 DEF Engines, AddOf, RegisterFailures
  <2>3. CASE c \in Groups
    BY <2>3 DEF Groups, AddOf, RegisterFailures
  <2> QED BY <2>1, <2>2, <2>3 DEF Confs
<1> QED BY <1>1, <1>2, <1>3 DEF Failures

-----------------------------------------------------------------------------
(* idxd_probe.                                                              *)

\* What is held during a probe: nothing is registered yet, nothing went wrong.
Fresh(M, P, C) == Holding(M, P, C, {}, {})

\* A loop that initializes the conf devices of a kind succeeds, or fails and
\* puts them.
Succeeds(f, array, kind) == f[1] # kind /\ f # <<array, 0>>
FailsAt(f, array, kind, n) ==
  f[1] = kind /\ n \in Nat /\ f[2] \in 0 .. n - 1 /\ f # <<array, 0>>

LEMMA SetupDone ==
  ASSUME NEW M, NEW P, NEW C, NEW f, NEW array, NEW kind, NEW n,
         Succeeds(f, array, kind)
  PROVE  Setup(Fresh(M, P, C), f, array, kind, n)
           = Fresh(M \cup {array}, P \cup {array}, C \cup FirstOf(kind, n))
<1>1. Setup(Fresh(M, P, C), f, array, kind, n)
        = Initialize(Acquire(Fresh(M, P, C), {array}), FirstOf(kind, n))
  BY DEF Setup, Succeeds
<1>2. Acquire(Fresh(M, P, C), {array}) = Fresh(M \cup {array}, P \cup {array}, C)
  BY AcquireHolding DEF Fresh
<1>3. Initialize(Fresh(M \cup {array}, P \cup {array}, C), FirstOf(kind, n))
        = Fresh(M \cup {array}, P \cup {array}, C \cup FirstOf(kind, n))
  BY InitializeHolding DEF Fresh
<1> QED BY <1>1, <1>2, <1>3

\* Conf devices that join those in C.
Joins(K, C) == K \subseteq Confs /\ C \subseteq Confs /\ K \cap (C \cup {Idxd}) = {}

LEMMA SetupFails ==
  ASSUME NEW M, NEW P, NEW C, NEW f, NEW array, NEW kind, NEW n,
         Joins(FirstOf(kind, n), C), FailsAt(f, array, kind, n)
  PROVE  Setup(Fresh(M, P, C), f, array, kind, n)
           = Fresh(M \cup {array}, P \cup {array}, C)
<1> DEFINE done == FirstOf(kind, f[2])
           D == C \cup done
           L == M \cup {array}
           Q == P \cup {array}
<1>1. Setup(Fresh(M, P, C), f, array, kind, n)
        = PutDevice(Initialize(Acquire(Fresh(M, P, C), {array}), done), done)
  BY DEF Setup, FailsAt
<1>2. Acquire(Fresh(M, P, C), {array}) = Fresh(L, Q, C)
  BY AcquireHolding DEF Fresh
<1>3. Initialize(Fresh(L, Q, C), done) = Fresh(L, Q, D)
  BY InitializeHolding DEF Fresh
<1>4. done \subseteq FirstOf(kind, n)
  BY DEF FirstOf, FailsAt
<1>5. D \subseteq Confs /\ done \subseteq D /\ done \cap {} = {} /\ Idxd \notin done
      /\ D \ done = C
  BY <1>4 DEF Joins
<1> HIDE DEF done, D, L, Q
<1>6. PutDevice(Fresh(L, Q, D), done) = Fresh(L, Q, D \ done)
  BY <1>5, PutHolding DEF Fresh
<1>7. Setup(Fresh(M, P, C), f, array, kind, n) = Fresh(L, Q, C)
  BY <1>1, <1>2, <1>3, <1>5, <1>6
<1> QED BY <1>7 DEF L, Q

LEMMA SetupWqsFresh ==
  ASSUME NEW M, NEW P, NEW f \in Failures
  PROVE  /\ f[1] = "wqs" => SetupWqs(Fresh(M, P, {Idxd}), f) = Fresh(M, P, {Idxd})
         /\ f[1] = "wq" => SetupWqs(Fresh(M, P, {Idxd}), f)
                             = Fresh(M \cup {"enable_map", "wqs"},
                                     P \cup {"enable_map", "wqs"}, {Idxd})
         /\ f[1] = "enable_map" => SetupWqs(Fresh(M, P, {Idxd}), f)
                                     = Fresh((M \cup {"wqs"}) \ {"wqs"}, P \cup {"wqs"}, {Idxd})
         /\ f[1] \notin {"wqs", "wq", "enable_map"} =>
              SetupWqs(Fresh(M, P, {Idxd}), f)
                = Fresh(M \cup {"enable_map", "wqs"}, P \cup {"enable_map", "wqs"},
                        Wqs \cup {Idxd})
<1> DEFINE x == Fresh(M, P, {Idxd})
           y == Fresh(M \cup {"enable_map"}, P \cup {"enable_map"}, {Idxd})
<1>1. NumWqs \in Nat
  BY LifecycleParameters
<1>2. Joins(FirstOf("wq", NumWqs), {Idxd})
  BY ConfKinds, ConfsApart DEF Joins
<1>3. f[1] = "wq" => f[2] \in 0 .. NumWqs - 1 /\ f # <<"wqs", 0>>
  BY FailureKinds DEF Wqs
<1>4. Acquire(x, {"enable_map"}) = y
  BY AcquireHolding DEF Fresh
<1>5. f[1] \in {"wqs", "enable_map"} => f = <<f[1], 0>>
  BY FailureKinds
<1>6. CASE f[1] = "wqs"
  <2>1. f = <<"wqs", 0>> /\ f # <<"enable_map", 0>>
    BY <1>5, <1>6
  <2>2. SetupWqs(x, f) = Setup(x, f, "wqs", "wq", NumWqs)
    BY <2>1 DEF SetupWqs
  <2> QED BY <1>6, <2>1, <2>2 DEF Setup
<1>7. CASE f[1] = "enable_map"
  <2>1. f = <<"enable_map", 0>>
    BY <1>5, <1>7
  <2>2. SetupWqs(x, f) = Release(Acquire(x, {"wqs"}), {"wqs"})
    BY <2>1 DEF SetupWqs
  <2>3. Acquire(x, {"wqs"}) = Fresh(M \cup {"wqs"}, P \cup {"wqs"}, {Idxd})
    BY AcquireHolding DEF Fresh
  <2>4. Release(Fresh(M \cup {"wqs"}, P \cup {"wqs"}, {Idxd}), {"wqs"})
          = Fresh((M \cup {"wqs"}) \ {"wqs"}, P \cup {"wqs"}, {Idxd})
    BY ReleaseHolding DEF Fresh
  <2> QED BY <1>7, <2>2, <2>3, <2>4
<1>8. CASE f[1] \notin {"wqs", "enable_map"}
  <2> DEFINE L == M \cup {"enable_map"}
             Q == P \cup {"enable_map"}
  <2>1. f # <<"wqs", 0>> /\ f # <<"enable_map", 0>>
    BY <1>8
  <2>2. SetupWqs(x, f) = Setup(Fresh(L, Q, {Idxd}), f, "wqs", "wq", NumWqs)
    BY <1>4, <2>1 DEF SetupWqs
  <2>3. L \cup {"wqs"} = M \cup {"enable_map", "wqs"} /\ Q \cup {"wqs"} = P \cup {"enable_map", "wqs"}
        /\ {Idxd} \cup Wqs = Wqs \cup {Idxd}
    OBVIOUS
  <2> HIDE DEF L, Q, x
  <2>4. CASE FailsAt(f, "wqs", "wq", NumWqs)
    <3>1. Setup(Fresh(L, Q, {Idxd}), f, "wqs", "wq", NumWqs)
            = Fresh(L \cup {"wqs"}, Q \cup {"wqs"}, {Idxd})
      BY <1>2, <2>4, SetupFails
    <3>2. f[1] = "wq"
      BY <2>4 DEF FailsAt
    <3> QED BY <2>2, <2>3, <3>1, <3>2 DEF x
  <2>5. CASE Succeeds(f, "wqs", "wq")
    <3>1. Setup(Fresh(L, Q, {Idxd}), f, "wqs", "wq", NumWqs)
            = Fresh(L \cup {"wqs"}, Q \cup {"wqs"}, {Idxd} \cup FirstOf("wq", NumWqs))
      BY <2>5, SetupDone
    <3>2. f[1] # "wq"
      BY <2>5 DEF Succeeds
    <3> QED BY <1>8, <2>2, <2>3, <3>1, <3>2, ConfKinds DEF x
  <2>6. FailsAt(f, "wqs", "wq", NumWqs) \/ Succeeds(f, "wqs", "wq")
    BY <1>1, <1>3, <2>1 DEF FailsAt, Succeeds
  <2> QED BY <2>4, <2>5, <2>6
<1> QED BY <1>6, <1>7, <1>8

LEMMA SetupEnginesFresh ==
  ASSUME NEW M, NEW P, NEW f \in Failures
  PROVE  LET x == Fresh(M, P, Wqs \cup {Idxd})
         IN  /\ f[1] = "engines" => SetupEngines(x, f) = x
             /\ f[1] = "engine" => SetupEngines(x, f)
                  = Fresh(M \cup {"engines"}, P \cup {"engines"}, Wqs \cup {Idxd})
             /\ f[1] \notin {"engines", "engine"} => SetupEngines(x, f)
                  = Fresh(M \cup {"engines"}, P \cup {"engines"}, Wqs \cup {Idxd} \cup Engines)
<1> DEFINE C == Wqs \cup {Idxd}
           x == Fresh(M, P, C)
<1>1. f[1] = "engines" => f = <<"engines", 0>>
  BY FailureKinds
<1>2. NumEngines \in Nat /\ (f[1] = "engine" => f[2] \in 0 .. NumEngines - 1)
  BY FailureKinds, LifecycleParameters DEF Engines
<1>3. Joins(FirstOf("engine", NumEngines), C)
  BY ConfKinds, ConfsApart DEF Joins
<1> HIDE DEF C
<1>4. CASE f[1] = "engines"
  BY <1>1, <1>4 DEF SetupEngines, Setup, C
<1>5. CASE f[1] = "engine"
  <2>1. FailsAt(f, "engines", "engine", NumEngines)
    BY <1>2, <1>5 DEF FailsAt
  <2>2. SetupEngines(x, f) = Fresh(M \cup {"engines"}, P \cup {"engines"}, C)
    BY <1>3, <2>1, SetupFails DEF SetupEngines
  <2> QED BY <1>5, <2>2 DEF C
<1>6. CASE f[1] \notin {"engines", "engine"}
  <2>1. Succeeds(f, "engines", "engine")
    BY <1>6 DEF Succeeds
  <2>2. SetupEngines(x, f)
          = Fresh(M \cup {"engines"}, P \cup {"engines"}, C \cup FirstOf("engine", NumEngines))
    BY <2>1, SetupDone DEF SetupEngines
  <2> QED BY <1>6, <2>2, ConfKinds DEF C
<1> QED BY <1>4, <1>5, <1>6

LEMMA SetupGroupsFresh ==
  ASSUME NEW M, NEW P, NEW f \in Failures
  PROVE  LET x == Fresh(M, P, Wqs \cup {Idxd} \cup Engines)
         IN  /\ f[1] = "groups" => SetupGroups(x, f) = x
             /\ f[1] = "group" => SetupGroups(x, f)
                  = Fresh(M \cup {"groups"}, P \cup {"groups"}, Wqs \cup {Idxd} \cup Engines)
             /\ f[1] \notin {"groups", "group"} => SetupGroups(x, f)
                  = Fresh(M \cup {"groups"}, P \cup {"groups"}, Confs)
<1> DEFINE C == Wqs \cup {Idxd} \cup Engines
           x == Fresh(M, P, C)
<1>1. f[1] = "groups" => f = <<"groups", 0>>
  BY FailureKinds
<1>2. NumGroups \in Nat /\ (f[1] = "group" => f[2] \in 0 .. NumGroups - 1)
  BY FailureKinds, LifecycleParameters DEF Groups
<1>3. Joins(FirstOf("group", NumGroups), C)
  BY ConfKinds, ConfsApart DEF Joins
<1>7. C \cup Groups = Confs
  BY ConfsApart
<1> HIDE DEF C
<1>4. CASE f[1] = "groups"
  BY <1>1, <1>4 DEF SetupGroups, Setup, C
<1>5. CASE f[1] = "group"
  <2>1. FailsAt(f, "groups", "group", NumGroups)
    BY <1>2, <1>5 DEF FailsAt
  <2>2. SetupGroups(x, f) = Fresh(M \cup {"groups"}, P \cup {"groups"}, C)
    BY <1>3, <2>1, SetupFails DEF SetupGroups
  <2> QED BY <1>5, <2>2 DEF C
<1>6. CASE f[1] \notin {"groups", "group"}
  <2>1. Succeeds(f, "groups", "group")
    BY <1>6 DEF Succeeds
  <2>2. SetupGroups(x, f)
          = Fresh(M \cup {"groups"}, P \cup {"groups"}, C \cup FirstOf("group", NumGroups))
    BY <2>1, SetupDone DEF SetupGroups
  <2> QED BY <1>6, <1>7, <2>2, ConfKinds DEF C
<1> QED BY <1>4, <1>5, <1>6

\* Putting every conf device but the device itself.
LEMMA PutBack ==
  ASSUME NEW M, NEW P, NEW D \in SUBSET (Wqs \cup Engines \cup Groups), NEW C,
         C = D \cup {Idxd}
  PROVE  PutDevice(Fresh(M, P, C), D) = Fresh(M, P, {Idxd})
<1>1. C \in SUBSET Confs /\ D \in SUBSET C /\ D \cap {} = {} /\ Idxd \notin D /\ C \ D = {Idxd}
  BY ConfsApart
<1>2. PutDevice(Fresh(M, P, C), D) = Fresh(M, P, C \ D)
  BY <1>1, PutHolding DEF Fresh
<1> QED BY <1>1, <1>2

\* What idxd_setup_internals adds.
Internal == {"wqs", "enable_map", "engines", "groups", "workqueue", "evl"}

\* A setup that failed and left no conf device behind.
Back(x, M, P) ==
  \E A \in SUBSET Arrays, W \in SUBSET {"workqueue"} :
      x = Fresh(M \cup A, P \cup A \cup W, {Idxd})

\* The queues, engines and groups are set up as far as the failure allows.
LEMMA InternalsSteps ==
  ASSUME NEW M, NEW P, NEW f \in Failures, f[1] \notin {"wqs", "wq", "enable_map"}
  PROVE  LET A == {"enable_map", "wqs"}
             E == A \cup {"engines"}
             a == SetupWqs(Fresh(M, P, {Idxd}), f)
             b == SetupEngines(a, f)
             c == SetupGroups(b, f)
         IN  /\ f[1] = "engines" => b = Fresh(M \cup A, P \cup A, Wqs \cup {Idxd})
             /\ f[1] = "engine" => b = Fresh(M \cup E, P \cup E, Wqs \cup {Idxd})
             /\ f[1] = "groups" => c = Fresh(M \cup E, P \cup E, Wqs \cup {Idxd} \cup Engines)
             /\ f[1] = "group" => c = Fresh(M \cup E \cup {"groups"}, P \cup E \cup {"groups"},
                                            Wqs \cup {Idxd} \cup Engines)
             /\ f[1] \notin {"engines", "engine", "groups", "group"} =>
                    c = Fresh(M \cup E \cup {"groups"}, P \cup E \cup {"groups"}, Confs)
<1> DEFINE A == {"enable_map", "wqs"}
           E == A \cup {"engines"}
           a == SetupWqs(Fresh(M, P, {Idxd}), f)
           b == SetupEngines(a, f)
           c == SetupGroups(b, f)
           L == M \cup A
           Q == P \cup A
           L2 == L \cup {"engines"}
           Q2 == Q \cup {"engines"}
<1>1. a = Fresh(L, Q, Wqs \cup {Idxd})
  BY SetupWqsFresh
<1>2. L2 = M \cup E /\ Q2 = P \cup E
  OBVIOUS
<1> HIDE DEF A, E, a, L, Q
<1>3. /\ f[1] = "engines" => b = Fresh(L, Q, Wqs \cup {Idxd})
      /\ f[1] = "engine" => b = Fresh(L2, Q2, Wqs \cup {Idxd})
      /\ f[1] \notin {"engines", "engine"} => b = Fresh(L2, Q2, Wqs \cup {Idxd} \cup Engines)
  BY <1>1, SetupEnginesFresh
<1> HIDE DEF b, L2, Q2
<1>4. /\ f[1] = "groups" => c = Fresh(L2, Q2, Wqs \cup {Idxd} \cup Engines)
      /\ f[1] = "group" => c = Fresh(L2 \cup {"groups"}, Q2 \cup {"groups"},
                                     Wqs \cup {Idxd} \cup Engines)
      /\ f[1] \notin {"engines", "engine", "groups", "group"} =>
             c = Fresh(L2 \cup {"groups"}, Q2 \cup {"groups"}, Confs)
  BY <1>3, SetupGroupsFresh
<1> HIDE DEF c
<1>5. /\ f[1] = "engines" => b = Fresh(M \cup A, P \cup A, Wqs \cup {Idxd})
      /\ f[1] = "engine" => b = Fresh(M \cup E, P \cup E, Wqs \cup {Idxd})
  BY <1>2, <1>3 DEF L, Q
<1>6. /\ f[1] = "groups" => c = Fresh(M \cup E, P \cup E, Wqs \cup {Idxd} \cup Engines)
      /\ f[1] = "group" => c = Fresh(M \cup E \cup {"groups"}, P \cup E \cup {"groups"},
                                     Wqs \cup {Idxd} \cup Engines)
      /\ f[1] \notin {"engines", "engine", "groups", "group"} =>
             c = Fresh(M \cup E \cup {"groups"}, P \cup E \cup {"groups"}, Confs)
  BY <1>2, <1>4
<1> QED BY <1>5, <1>6 DEF A, E, a, b, c

LEMMA BackWith ==
  ASSUME NEW M, NEW P, NEW A \in SUBSET Arrays, NEW W \in SUBSET {"workqueue"}, NEW C,
         NEW D \in SUBSET (Wqs \cup Engines \cup Groups), C = D \cup {Idxd}
  PROVE  Back(PutDevice(Fresh(M \cup A, P \cup A \cup W, C), D), M, P)
<1>1. PutDevice(Fresh(M \cup A, P \cup A \cup W, C), D) = Fresh(M \cup A, P \cup A \cup W, {Idxd})
  BY PutBack
<1> QED BY <1>1 DEF Back

\* A failed setup gives back its conf devices and leaves the arrays to the
\* last reference to the device.
LEMMA SetupInternalsFails ==
  ASSUME NEW M, NEW P, NEW f \in Failures, f[1] \in InternalFailures \ {"enable_map"},
         "workqueue" \notin M
  PROVE  Back(SetupInternals(Fresh(M, P, {Idxd}), f), M, P)
<1> DEFINE x == Fresh(M, P, {Idxd})
           A == {"enable_map", "wqs"}
           E == A \cup {"engines"}
           G == E \cup {"groups"}
           a == SetupWqs(x, f)
           b == SetupEngines(a, f)
           c == SetupGroups(b, f)
           d == Acquire(c, {"workqueue"})
<1>1. {} \subseteq Arrays /\ A \subseteq Arrays /\ E \subseteq Arrays /\ G \subseteq Arrays
      /\ {} \subseteq {"workqueue"}
  BY DEF Arrays
<1>2. /\ Wqs \subseteq Wqs \cup Engines \cup Groups
      /\ Wqs \cup Engines \subseteq Wqs \cup Engines \cup Groups
      /\ Wqs \cup {Idxd} \cup Engines = (Wqs \cup Engines) \cup {Idxd}
      /\ Groups \cup Engines \cup Wqs \subseteq Wqs \cup Engines \cup Groups
      /\ Confs = (Groups \cup Engines \cup Wqs) \cup {Idxd}
  BY ConfsApart
<1>3. \A S : S \cup {} = S
  OBVIOUS
<1>4. CASE f[1] \in {"wqs", "wq"}
  <2>1. SetupInternals(x, f) = a
    BY <1>4 DEF SetupInternals
  <2>2. a = Fresh(M, P, {Idxd}) \/ a = Fresh(M \cup A, P \cup A, {Idxd})
    BY <1>4, SetupWqsFresh
  <2> HIDE DEF a, A
  <2>3. \/ a = Fresh(M \cup {}, P \cup {} \cup {}, {Idxd})
        \/ a = Fresh(M \cup A, P \cup A \cup {}, {Idxd})
    BY <1>3, <2>2
  <2> QED BY <1>1, <2>1, <2>3 DEF Back
<1>5. CASE f[1] \in {"engines", "engine"}
  <2>1. SetupInternals(x, f) = PutDevice(b, Wqs)
    BY <1>5 DEF SetupInternals
  <2>2. \/ b = Fresh(M \cup A, P \cup A, Wqs \cup {Idxd})
        \/ b = Fresh(M \cup E, P \cup E, Wqs \cup {Idxd})
    BY <1>5, InternalsSteps DEF InternalFailures
  <2> HIDE DEF b, A, E
  <2>3. \A S \in SUBSET Arrays :
            Back(PutDevice(Fresh(M \cup S, P \cup S \cup {}, Wqs \cup {Idxd}), Wqs), M, P)
    BY <1>1, <1>2, BackWith
  <2>4. \A S \in SUBSET Arrays :
            Back(PutDevice(Fresh(M \cup S, P \cup S, Wqs \cup {Idxd}), Wqs), M, P)
    BY <1>3, <2>3
  <2> QED BY <1>1, <2>1, <2>2, <2>4
<1>6. CASE f[1] \in {"groups", "group"}
  <2> DEFINE C == Wqs \cup {Idxd} \cup Engines
  <2>1. SetupInternals(x, f) = PutDevice(c, Wqs \cup Engines)
    BY <1>6 DEF SetupInternals
  <2>2. c = Fresh(M \cup E, P \cup E, C) \/ c = Fresh(M \cup G, P \cup G, C)
    <3>1. (M \cup E) \cup {"groups"} = M \cup G /\ (P \cup E) \cup {"groups"} = P \cup G
      OBVIOUS
    <3>2. \/ c = Fresh(M \cup E, P \cup E, C)
          \/ c = Fresh((M \cup E) \cup {"groups"}, (P \cup E) \cup {"groups"}, C)
      BY <1>6, InternalsSteps DEF InternalFailures
    <3> HIDE DEF c, E, G, C
    <3> QED BY <3>1, <3>2
  <2> HIDE DEF c, E, G, C
  <2>3. \A S \in SUBSET Arrays :
            Back(PutDevice(Fresh(M \cup S, P \cup S \cup {}, C), Wqs \cup Engines), M, P)
    BY <1>1, <1>2, BackWith DEF C
  <2>4. \A S \in SUBSET Arrays :
            Back(PutDevice(Fresh(M \cup S, P \cup S, C), Wqs \cup Engines), M, P)
    BY <1>3, <2>3
  <2> QED BY <1>1, <2>1, <2>2, <2>4
<1>7. CASE f[1] \in {"workqueue", "evl"}
  <2>1. c = Fresh(M \cup G, P \cup G, Confs)
    <3>1. (M \cup E) \cup {"groups"} = M \cup G /\ (P \cup E) \cup {"groups"} = P \cup G
      OBVIOUS
    <3>2. c = Fresh((M \cup E) \cup {"groups"}, (P \cup E) \cup {"groups"}, Confs)
      BY <1>7, InternalsSteps
    <3> HIDE DEF c, E, G
    <3> QED BY <3>1, <3>2
  <2>2. d = Fresh((M \cup G) \cup {"workqueue"}, (P \cup G) \cup {"workqueue"}, Confs)
    <3> HIDE DEF c, G
    <3> QED BY <2>1, AcquireHolding DEF Fresh
  <2>3. Release(d, {"workqueue"}) = Fresh(M \cup G, P \cup G \cup {"workqueue"}, Confs)
    <3> HIDE DEF d
    <3>1. ((M \cup G) \cup {"workqueue"}) \ {"workqueue"} = M \cup G
      OBVIOUS
    <3> HIDE DEF G
    <3> QED BY <2>2, <3>1, ReleaseHolding DEF Fresh
  <2>4. SetupInternals(x, f) = IF f[1] = "evl"
          THEN PutDevice(Release(d, {"workqueue"}), Groups \cup Engines \cup Wqs)
          ELSE PutDevice(c, Groups \cup Engines \cup Wqs)
    BY <1>7 DEF SetupInternals
  <2>5. c = Fresh(M \cup G, P \cup G \cup {}, Confs)
    BY <1>3, <2>1
  <2> HIDE DEF c, d, G
  <2>6. Back(PutDevice(c, Groups \cup Engines \cup Wqs), M, P)
    BY <1>1, <1>2, <2>5, BackWith
  <2>7. Back(PutDevice(Release(d, {"workqueue"}), Groups \cup Engines \cup Wqs), M, P)
    BY <1>1, <1>2, <2>3, BackWith
  <2> QED BY <2>4, <2>6, <2>7
<1> QED BY <1>4, <1>5, <1>6, <1>7 DEF InternalFailures

LEMMA SetupInternalsDone ==
  ASSUME NEW M, NEW P, NEW f \in Failures, f[1] \notin InternalFailures
  PROVE  SetupInternals(Fresh(M, P, {Idxd}), f)
           = Fresh(M \cup Internal, P \cup Internal, Confs)
<1> DEFINE x == Fresh(M, P, {Idxd})
           G == {"enable_map", "wqs"} \cup {"engines"} \cup {"groups"}
           a == SetupWqs(x, f)
           b == SetupEngines(a, f)
           c == SetupGroups(b, f)
           d == Acquire(c, {"workqueue"})
           L == M \cup G
           Q == P \cup G
           L2 == L \cup {"workqueue"}
           Q2 == Q \cup {"workqueue"}
<1>1. c = Fresh(L, Q, Confs)
  <2>1. (M \cup ({"enable_map", "wqs"} \cup {"engines"})) \cup {"groups"} = L
        /\ (P \cup ({"enable_map", "wqs"} \cup {"engines"})) \cup {"groups"} = Q
    OBVIOUS
  <2>2. c = Fresh((M \cup ({"enable_map", "wqs"} \cup {"engines"})) \cup {"groups"},
                  (P \cup ({"enable_map", "wqs"} \cup {"engines"})) \cup {"groups"}, Confs)
    BY InternalsSteps DEF InternalFailures
  <2> HIDE DEF c, L, Q
  <2> QED BY <2>1, <2>2
<1>2. SetupInternals(x, f) = InitEvl(d, f) /\ f # <<"evl", 0>>
  BY DEF SetupInternals, InternalFailures
<1>3. L2 \cup {"evl"} = M \cup Internal /\ Q2 \cup {"evl"} = P \cup Internal
  BY DEF Internal
<1> HIDE DEF c, L, Q
<1>4. d = Fresh(L2, Q2, Confs)
  BY <1>1, AcquireHolding DEF Fresh
<1> HIDE DEF d, L2, Q2
<1>5. Acquire(d, {"evl"}) = Fresh(L2 \cup {"evl"}, Q2 \cup {"evl"}, Confs)
  BY <1>4, AcquireHolding DEF Fresh
<1>6. SetupInternals(x, f) = Acquire(d, {"evl"})
  BY <1>2 DEF InitEvl
<1> QED BY <1>3, <1>5, <1>6

LEMMA SetupInternalsLoses ==
  ASSUME NEW M, NEW P, NEW f \in Failures, f[1] = "enable_map"
  PROVE  SetupInternals(Fresh(M, P, {Idxd}), f)
           = Fresh((M \cup {"wqs"}) \ {"wqs"}, P \cup {"wqs"}, {Idxd})
<1>1. SetupInternals(Fresh(M, P, {Idxd}), f) = SetupWqs(Fresh(M, P, {Idxd}), f)
  BY DEF SetupInternals
<1> QED BY <1>1, SetupWqsFresh

-----------------------------------------------------------------------------
(* Unwinding a probe.                                                       *)

\* What idxd_pci_probe holds before idxd_probe.
Base == {"pci", "idxd", "ida", "opcap", "iomap"}

\* What it holds after an idxd_probe that failed and unwound.
Basic(x) ==
  \E M, P : /\ x = Fresh(M, P, {Idxd})
            /\ Base \subseteq M /\ M \subseteq Arrays \cup {"pci", "iomap"}
            /\ P \cap Arrays = M \cap Arrays

\* err: pci_iounmap, idxd_free, pci_disable_device.
Uniomap(x) == Release(PutDevice(Release(x, {"iomap"}), {Idxd}), {"pci"})

LEMMA UniomapBasic ==
  ASSUME NEW x, Basic(x)
  PROVE  \E P : Uniomap(x) = Fresh({}, P, {})
<1>1. PICK M, P : /\ x = Fresh(M, P, {Idxd})
                  /\ Base \subseteq M /\ M \subseteq Arrays \cup {"pci", "iomap"}
                  /\ P \cap Arrays = M \cap Arrays
  BY DEF Basic
<1> DEFINE L == M \ {"iomap"}
           K == L \ (P \cap Arrays)
<1>2. "iomap" \in M /\ P \cap Arrays \subseteq L /\ K = {"pci"}
  BY <1>1 DEF Base, Arrays
<1>3. Release(x, {"iomap"}) = Fresh(L, P, {Idxd})
  BY <1>1, <1>2, ReleaseHolding DEF Fresh
<1>4. {Idxd} \in SUBSET Confs /\ Idxd \in {Idxd} /\ Idxd \notin {} /\ {Idxd} \ {Idxd} = {}
  BY ConfsApart
<1> HIDE DEF L
<1>5. PutDevice(Fresh(L, P, {Idxd}), {Idxd}) = Fresh(K, P, {})
  BY <1>2, <1>4, PutIdxdHolding DEF Fresh
<1> HIDE DEF K
<1>6. {"pci"} \subseteq K /\ K \ {"pci"} = {}
  BY <1>2
<1>7. Release(Fresh(K, P, {}), {"pci"}) = Fresh(K \ {"pci"}, P, {})
  BY <1>6, ReleaseHolding DEF Fresh
<1>8. Uniomap(x) = Fresh({}, P, {})
  BY <1>3, <1>5, <1>6, <1>7 DEF Uniomap
<1> QED BY <1>8

LEMMA DisablePasidFresh ==
  ASSUME NEW M, NEW P, NEW C
  PROVE  DisablePasid(Fresh(M, P, C)) = Fresh(M \ {"pasid", "sva"}, P, C)
<1> DEFINE R == M \cap {"pasid", "sva"}
<1>1. Fresh(M, P, C).mem = M
  BY DEF Fresh, Holding
<1>2. R \subseteq M /\ M \ R = M \ {"pasid", "sva"}
  OBVIOUS
<1>3. DisablePasid(Fresh(M, P, C)) = Release(Fresh(M, P, C), R)
  BY <1>1 DEF DisablePasid
<1> HIDE DEF R
<1>4. Release(Fresh(M, P, C), R) = Fresh(M \ R, P, C)
  BY <1>2, ReleaseHolding DEF Fresh
<1> QED BY <1>2, <1>3, <1>4

LEMMA CleanupInternalsFresh ==
  ASSUME NEW M, NEW P, "workqueue" \in M
  PROVE  CleanupInternals(Fresh(M, P, Confs)) = Fresh(M \ {"workqueue"}, P, {Idxd})
<1> DEFINE D == Groups \cup Engines \cup Wqs
<1>1. D \in SUBSET (Wqs \cup Engines \cup Groups) /\ Confs = D \cup {Idxd}
  BY ConfsApart
<1>2. CleanupInternals(Fresh(M, P, Confs))
        = Release(PutDevice(Fresh(M, P, Confs), D), {"workqueue"})
  BY DEF CleanupInternals
<1> HIDE DEF D
<1>3. PutDevice(Fresh(M, P, Confs), D) = Fresh(M, P, {Idxd})
  BY <1>1, PutBack
<1>4. Release(Fresh(M, P, {Idxd}), {"workqueue"}) = Fresh(M \ {"workqueue"}, P, {Idxd})
  BY ReleaseHolding DEF Fresh
<1> QED BY <1>2, <1>3, <1>4

LEMMA ProbeFails ==
  ASSUME NEW f \in Failures, NEW options,
         f[1] \in (InternalFailures \ {"enable_map"}) \cup InterruptFailures
                    \cup {"load_config", "reset"}
  PROVE  Basic(Probe(Fresh(Base, Base, {Idxd}), f, options))
<1> DEFINE x == Fresh(Base, Base, {Idxd})
           O == options \cap {"sva", "pasid"}
           L == Base \cup O
           a == EnablePasid(x, options)
           b == SetupInternals(a, f)
<1>1. a = Fresh(L, L, {Idxd})
  BY AcquireHolding DEF Fresh, EnablePasid
<1>2. "workqueue" \notin L
  BY DEF Base
<1>3. CASE f[1] = "reset"
  <2> HIDE DEF x
  <2>1. Probe(x, f, options) = x
    BY <1>3 DEF Probe, InternalFailures, InterruptFailures
  <2>2. Base \subseteq Arrays \cup {"pci", "iomap"}
    BY DEF Base, Arrays
  <2> QED BY <2>1, <2>2 DEF Basic, x
<1>4. CASE f[1] \in InternalFailures \ {"enable_map"}
  <2>1. Probe(x, f, options) = DisablePasid(b)
    BY <1>4 DEF Probe, InternalFailures, InterruptFailures
  <2> HIDE DEF a, L
  <2>2. Back(b, L, L)
    BY <1>1, <1>2, <1>4, SetupInternalsFails
  <2> HIDE DEF b
  <2>3. PICK A \in SUBSET Arrays, W \in SUBSET {"workqueue"} :
               b = Fresh(L \cup A, L \cup A \cup W, {Idxd})
    BY <2>2 DEF Back
  <2>4. DisablePasid(b) = Fresh((L \cup A) \ {"pasid", "sva"}, L \cup A \cup W, {Idxd})
    BY <2>3, DisablePasidFresh
  <2>5. (L \cup A) \ {"pasid", "sva"} = Base \cup A
    BY DEF L, Base, Arrays
  <2>6. Base \cup A \subseteq Arrays \cup {"pci", "iomap"}
    BY DEF Base, Arrays
  <2>7. (L \cup A \cup W) \cap Arrays = (Base \cup A) \cap Arrays
    BY DEF L, Arrays
  <2> QED BY <2>1, <2>4, <2>5, <2>6, <2>7 DEF Basic
<1>5. CASE f[1] \in InterruptFailures \cup {"load_config"}
  <2> DEFINE K == L \cup Internal
             K2 == K \ {"workqueue"}
  <2>1. Probe(x, f, options) = DisablePasid(CleanupInternals(b))
    BY <1>5 DEF Probe, InternalFailures, InterruptFailures
  <2>5. (K2 \ {"pasid", "sva"}) = Arrays \cup {"pci", "iomap"}
    BY DEF L, Base, Internal, Arrays
  <2>6. Base \subseteq Arrays \cup {"pci", "iomap"}
        /\ K \cap Arrays = (Arrays \cup {"pci", "iomap"}) \cap Arrays
    BY DEF L, Base, Internal, Arrays
  <2>7. "workqueue" \in K
    BY DEF Internal
  <2>8. f[1] \notin InternalFailures
    BY <1>5 DEF InternalFailures, InterruptFailures
  <2> HIDE DEF a, L
  <2>2. b = Fresh(K, K, Confs)
    BY <1>1, <2>8, SetupInternalsDone
  <2> HIDE DEF b, K
  <2>3. CleanupInternals(b) = Fresh(K2, K, {Idxd})
    BY <2>2, <2>7, CleanupInternalsFresh
  <2> HIDE DEF K2
  <2>4. DisablePasid(CleanupInternals(b)) = Fresh(K2 \ {"pasid", "sva"}, K, {Idxd})
    BY <2>3, DisablePasidFresh
  <2> QED BY <2>1, <2>4, <2>5, <2>6 DEF Basic
<1> QED BY <1>3, <1>4, <1>5

LEMMA ProbeDone ==
  ASSUME NEW f \in Failures, NEW options,
         f[1] \notin InternalFailures \cup InterruptFailures \cup {"load_config", "reset"}
  PROVE  LET K == Core \cup (options \cap {"sva", "pasid", "pmu"})
         IN  Probe(Fresh(Base, Base, {Idxd}), f, options) = Fresh(K, K, Confs)
<1> DEFINE x == Fresh(Base, Base, {Idxd})
           L == Base \cup (options \cap {"sva", "pasid"})
           K1 == L \cup Internal
           K2 == K1 \cup {"vectors", "misc_irq"}
           K3 == K2 \cup (options \cap {"pmu"})
           a == EnablePasid(x, options)
           b == SetupInternals(a, f)
           c == SetupInterrupts(b, f)
<1>1. a = Fresh(L, L, {Idxd})
  BY AcquireHolding DEF Fresh, EnablePasid
<1>2. Probe(x, f, options) = Acquire(c, options \cap {"pmu"})
  BY DEF Probe, InternalFailures, InterruptFailures
<1>3. K3 = Core \cup (options \cap {"sva", "pasid", "pmu"})
  BY DEF Base, Internal, Core, Arrays
<1> HIDE DEF a, L
<1>4. b = Fresh(K1, K1, Confs)
  BY <1>1, SetupInternalsDone
<1>5. c = Acquire(b, {"vectors", "misc_irq"})
  BY DEF SetupInterrupts, InterruptFailures
<1> HIDE DEF b, K1
<1>6. c = Fresh(K2, K2, Confs)
  BY <1>4, <1>5, AcquireHolding DEF Fresh
<1> HIDE DEF c, K2
<1>7. Acquire(c, options \cap {"pmu"}) = Fresh(K3, K3, Confs)
  BY <1>6, AcquireHolding DEF Fresh
<1> HIDE DEF K3
<1> QED BY <1>2, <1>3, <1>7

\* idxd_cleanup, when nothing has been registered.
LEMMA CleanupFresh ==
  ASSUME NEW M, Core \subseteq M, M \subseteq Core \cup {"sva", "pasid", "pmu"}
  PROVE  Basic(Cleanup(Fresh(M, M, Confs)))
<1> DEFINE x == Fresh(M, M, Confs)
           a == Release(x, x.mem \cap {"pmu"})
           b == CleanupInterrupts(a)
           c == CleanupInternals(b)
           R == M \cap {"pmu"}
           L1 == M \ R
           L2 == L1 \ {"misc_irq", "vectors"}
           L3 == L2 \ {"workqueue"}
           L4 == L3 \ {"pasid", "sva"}
<1>1. x.mem = M
  BY DEF Fresh, Holding
<1>2. /\ L4 = Arrays \cup {"pci", "iomap"}
      /\ R \subseteq M /\ {"misc_irq", "vectors"} \subseteq L1 /\ "workqueue" \in L2
      /\ Base \subseteq Arrays \cup {"pci", "iomap"} /\ M \cap Arrays = L4 \cap Arrays
  BY DEF Core, Arrays, Base
<1> HIDE DEF x
<1>3. a = Release(x, R)
  BY <1>1
<1> HIDE DEF R, a
<1>4. a = Fresh(L1, M, Confs)
  BY <1>2, <1>3, ReleaseHolding DEF Fresh, x
<1> HIDE DEF L1
<1>5. b = Fresh(L2, M, Confs)
  BY <1>2, <1>4, ReleaseHolding DEF Fresh, CleanupInterrupts
<1> HIDE DEF b, L2
<1>6. c = Fresh(L3, M, {Idxd})
  BY <1>2, <1>5, CleanupInternalsFresh
<1> HIDE DEF c, L3
<1>7. DisablePasid(c) = Fresh(L4, M, {Idxd})
  BY <1>6, DisablePasidFresh
<1>8. Cleanup(x) = DisablePasid(c)
  BY DEF Cleanup, a, b, c
<1> HIDE DEF L4
<1> QED BY <1>2, <1>7, <1>8 DEF Basic, x

\* A probe that loses the queue array.
LEMMA ProbeLoses ==
  ASSUME NEW f \in Failures, NEW options, f[1] = "enable_map"
  PROVE  LET x == Uniomap(Probe(Fresh(Base, Base, {Idxd}), f, options))
         IN  /\ x \in HeldRecord /\ x.bad # {}
             /\ \A c \in Confs : x.refs[c] \in 0 .. 1
<1> DEFINE x == Fresh(Base, Base, {Idxd})
           O == options \cap {"sva", "pasid"}
           L == Base \cup O
           P == L \cup {"wqs"}
           a == EnablePasid(x, options)
           b == SetupInternals(a, f)
           c == DisablePasid(b)
           M1 == (L \cup {"wqs"}) \ {"wqs"}
           M2 == M1 \ {"pasid", "sva"}
           M3 == M2 \ {"iomap"}
           late == (P \cap Arrays) \ M3
           M4 == M3 \ (P \cap Arrays)
<1>1. a = Fresh(L, L, {Idxd})
  BY AcquireHolding DEF Fresh, EnablePasid
<1>2. Probe(x, f, options) = c
  BY DEF Probe, InternalFailures, InterruptFailures
<1>3. /\ "iomap" \in M2 /\ "wqs" \in late /\ late \subseteq Mistakes /\ {} \cup late = late
      /\ M4 \ {"pci"} \subseteq Resources /\ P \subseteq Resources /\ {"pci"} \subseteq M4
  BY DEF Base, Arrays, Mistakes, Resources
<1> HIDE DEF a, L
<1>4. b = Fresh(M1, P, {Idxd})
  BY <1>1, SetupInternalsLoses
<1> HIDE DEF b, M1
<1>5. c = Fresh(M2, P, {Idxd})
  BY <1>4, DisablePasidFresh
<1> HIDE DEF c, M2
<1>6. Release(c, {"iomap"}) = Fresh(M3, P, {Idxd})
  BY <1>3, <1>5, ReleaseHolding DEF Fresh
<1>7. {Idxd} \in SUBSET Confs /\ Idxd \in {Idxd} /\ Idxd \notin {} /\ {Idxd} \ {Idxd} = {}
  BY ConfsApart
<1> HIDE DEF M3, P
<1>8. PutDevice(Fresh(M3, P, {Idxd}), {Idxd}) = Holding(M4, P, {}, {}, late)
  BY <1>3, <1>7, PutIdxdAny DEF Fresh
<1> HIDE DEF M4, late
<1>9. Release(Holding(M4, P, {}, {}, late), {"pci"}) = Holding(M4 \ {"pci"}, P, {}, {}, late)
  BY <1>3, ReleaseHolding
<1>10. Uniomap(c) = Holding(M4 \ {"pci"}, P, {}, {}, late)
  BY <1>6, <1>8, <1>9 DEF Uniomap
<1>11. Holding(M4 \ {"pci"}, P, {}, {}, late).bad = late
  BY DEF Holding
<1> DEFINE y == Holding(M4 \ {"pci"}, P, {}, {}, late)
<1>12. y \in HeldRecord /\ \A cc \in Confs : y.refs[cc] \in 0 .. 1
  BY <1>3, HoldingTyped
<1> HIDE DEF y
<1> QED BY <1>2, <1>3, <1>10, <1>11, <1>12 DEF y

-----------------------------------------------------------------------------
(* Registering the conf devices.                                            *)

Registered(x, R) == [x EXCEPT !.reg = @ \cup R]
Blamed(x, R) == [x EXCEPT !.bad = @ \cup R]

LEMMA RegHolding ==
  ASSUME NEW M, NEW P, NEW C, NEW G, NEW B, NEW R
  PROVE  Registered(Holding(M, P, C, G, B), R) = Holding(M, P, C, G \cup R, B)
<1> DEFINE x == Registered(Holding(M, P, C, G, B), R)
<1>1. x \in [mem : {M}, ptr : {P}, refs : {[c \in Confs |-> IF c \in C THEN 1 ELSE 0]},
             reg : {G \cup R}, bad : {B}]
  BY DEF Holding, Registered
<1> HIDE DEF x
<1>2. x = Holding(M, P, C, G \cup R, B)
  BY <1>1, HoldingIs, ZenonT(40)
<1> QED BY <1>2 DEF x

LEMMA BadHolding ==
  ASSUME NEW M, NEW P, NEW C, NEW G, NEW B, NEW R
  PROVE  Blamed(Holding(M, P, C, G, B), R) = Holding(M, P, C, G, B \cup R)
<1> DEFINE x == Blamed(Holding(M, P, C, G, B), R)
<1>1. x \in [mem : {M}, ptr : {P}, refs : {[c \in Confs |-> IF c \in C THEN 1 ELSE 0]},
             reg : {G}, bad : {B \cup R}]
  BY DEF Holding, Blamed
<1> HIDE DEF x
<1>2. x = Holding(M, P, C, G, B \cup R)
  BY <1>1, HoldingIs
<1> QED BY <1>2 DEF x

LEMMA RegisterKindDone ==
  ASSUME NEW M, NEW P, NEW C, NEW G, NEW B, NEW kind, NEW n, NEW f, f[1] # AddOf(kind)
  PROVE  RegisterKind(Holding(M, P, C, G, B), kind, n, f)
           = Holding(M, P, C, G \cup FirstOf(kind, n), B)
<1> DEFINE x == Holding(M, P, C, G, B)
<1> HIDE DEF x
<1>1. RegisterKind(x, kind, n, f) = Registered(x, FirstOf(kind, n))
  BY DEF RegisterKind, Registered
<1> QED BY <1>1, RegHolding DEF x

\* Some of the conf devices D of a kind are put and some of them, H, stay
\* registered.
Undone(x, M, P, C, G, K) ==
  \E D \in SUBSET K, H \in SUBSET K, B \in SUBSET {"index"} :
      D # {} /\ x = Holding(M, P, C \ D, G \cup H, B)

LEMMA RegisterKindFails ==
  ASSUME NEW M, NEW P, NEW C \in SUBSET Confs, NEW G, NEW kind, NEW n \in Nat, NEW f,
         f[1] = AddOf(kind), f[2] \in 0 .. n - 1,
         FirstOf(kind, n) \subseteq C, FirstOf(kind, n) \cap G = {}, Idxd \notin FirstOf(kind, n)
  PROVE  Undone(RegisterKind(Holding(M, P, C, G, {}), kind, n, f), M, P, C, G, FirstOf(kind, n))
<1> DEFINE i == f[2]
           K == FirstOf(kind, n)
           I == FirstOf(kind, i)
           J == FirstOf(kind, i - 1)
           D == K \ I
           x == Holding(M, P, C, G, {})
           added == Registered(x, I)
           put == PutDevice(added, D)
           C1 == C \ D
           G1 == G \cup I
<1>1. added = Holding(M, P, C, G1, {})
  <2> HIDE DEF I
  <2> QED BY RegHolding
<1>2. I \subseteq K /\ D \subseteq K
  BY DEF FirstOf
<1>3. <<kind, i>> \in D
  BY DEF FirstOf
<1>4. D \in SUBSET C /\ D \cap G1 = {} /\ Idxd \notin D
  BY <1>2
<1>5. RegisterKind(x, kind, n, f) = IF i = 0 THEN Blamed(put, {"index"})
                                    ELSE DeviceUnregister(put, J)
  BY DEF RegisterKind, Blamed, Registered
<1>6. i # 0 => J \subseteq I
  BY DEF FirstOf
<1> HIDE DEF D, G1, I, J, added, x
<1>7. put = Holding(M, P, C1, G1, {})
  BY <1>1, <1>4, PutHolding
<1> HIDE DEF put, i
<1>8. CASE i = 0
  <2>1. RegisterKind(x, kind, n, f) = Holding(M, P, C1, G1, {} \cup {"index"})
    BY <1>5, <1>7, <1>8, BadHolding
  <2>2. {} \cup {"index"} \in SUBSET {"index"} /\ I \in SUBSET K /\ D \in SUBSET K /\ D # {}
    BY <1>2, <1>3
  <2> HIDE DEF K
  <2> QED BY <2>1, <2>2 DEF Undone, x, K, G1
<1>9. CASE i # 0
  <2> DEFINE D2 == D \cup J
             H == I \ J
  <2>1. C1 \in SUBSET Confs /\ J \in SUBSET C1 /\ J \subseteq G1 /\ Idxd \notin J
    BY <1>2, <1>6, <1>9 DEF G1, D
  <2>2. C1 \ J = C \ D2 /\ G1 \ J = G \cup H
    BY <1>2, <1>6, <1>9 DEF G1
  <2>3. D2 \in SUBSET K /\ H \in SUBSET K /\ D2 # {} /\ {} \in SUBSET {"index"}
    BY <1>2, <1>3, <1>6, <1>9
  <2> HIDE DEF C1, K, D2, H
  <2>4. DeviceUnregister(Holding(M, P, C1, G1, {}), J) = Holding(M, P, C1 \ J, G1 \ J, {})
    BY <2>1, UnregisterHolding
  <2>5. RegisterKind(x, kind, n, f) = Holding(M, P, C \ D2, G \cup H, {})
    BY <1>5, <1>7, <1>9, <2>2, <2>4
  <2> QED BY <2>3, <2>5 DEF Undone, x, K
<1> QED BY <1>8, <1>9

LEMMA RegisterDevicesDone ==
  ASSUME NEW M, NEW P, NEW f, f[1] \notin RegisterFailures
  PROVE  RegisterDevices(Fresh(M, P, Confs), f) = Holding(M, P, Confs, Confs, {})
<1> DEFINE x == Fresh(M, P, Confs)
           a == Registered(x, {Idxd})
           b == RegisterKind(a, "wq", NumWqs, f)
           c == RegisterKind(b, "engine", NumEngines, f)
           d == RegisterKind(c, "group", NumGroups, f)
           G1 == {} \cup {Idxd}
           G2 == G1 \cup FirstOf("wq", NumWqs)
           G3 == G2 \cup FirstOf("engine", NumEngines)
           G4 == G3 \cup FirstOf("group", NumGroups)
<1>1. f[1] # AddOf("wq") /\ f[1] # AddOf("engine") /\ f[1] # AddOf("group")
  BY DEF AddOf, RegisterFailures
<1>2. G4 = Confs
  BY ConfKinds, ConfsApart
<1>3. RegisterDevices(x, f) = d
  BY DEF RegisterDevices, RegisterFailures, Registered
<1> HIDE DEF G1
<1>4. a = Holding(M, P, Confs, G1, {})
  BY RegHolding DEF Fresh, G1
<1> HIDE DEF a, G2
<1>5. b = Holding(M, P, Confs, G2, {})
  BY <1>1, <1>4, RegisterKindDone DEF G2
<1> HIDE DEF b, G3
<1>6. c = Holding(M, P, Confs, G3, {})
  BY <1>1, <1>5, RegisterKindDone DEF G3
<1> HIDE DEF c, G4
<1>7. d = Holding(M, P, Confs, G4, {})
  BY <1>1, <1>6, RegisterKindDone DEF G4
<1> QED BY <1>2, <1>3, <1>7

\* After a failed registration some conf device has lost its reference, and the
\* clean-up will put it again.
Lacking(x, M, P) ==
  \E C \in SUBSET Confs, G \in SUBSET Confs, B \in SUBSET {"index"} :
      /\ x = Holding(M, P, C, G, B)
      /\ Idxd \in C /\ Idxd \notin G /\ ~ Confs \subseteq C

\* The unwinding after the failure of one kind: the kinds before it are
\* unregistered, then the device.
LEMMA DelIdxdLacking ==
  ASSUME NEW M, NEW P, NEW C \in SUBSET Confs, NEW G \in SUBSET Confs,
         NEW B \in SUBSET {"index"}, Idxd \in C, Idxd \in G, ~ Confs \subseteq C
  PROVE  Lacking(DeviceDel(Holding(M, P, C, G, B), {Idxd}), M, P)
<1>1. DeviceDel(Holding(M, P, C, G, B), {Idxd}) = Holding(M, P, C, G \ {Idxd}, B)
  BY DelHolding
<1>2. G \ {Idxd} \in SUBSET Confs /\ Idxd \notin G \ {Idxd}
  OBVIOUS
<1> QED BY <1>1, <1>2 DEF Lacking

LEMMA RegisterWqsFails ==
  ASSUME NEW M, NEW P, NEW f \in Failures, f[1] = "add_wq"
  PROVE  Lacking(RegisterDevices(Fresh(M, P, Confs), f), M, P)
<1> DEFINE x == Fresh(M, P, Confs)
           a == Registered(x, {Idxd})
           b == RegisterKind(a, "wq", NumWqs, f)
           G1 == {} \cup {Idxd}
           K == FirstOf("wq", NumWqs)
<1>1. f[1] = AddOf("wq") /\ f[2] \in 0 .. NumWqs - 1 /\ NumWqs \in Nat
  BY FailureKinds, LifecycleParameters DEF AddOf
<1>2. K \in SUBSET Confs /\ K \cap G1 = {} /\ Idxd \notin K /\ G1 = {Idxd} /\ Idxd \in Confs
  BY ConfKinds, ConfsApart
<1>3. RegisterDevices(x, f) = DeviceDel(b, {Idxd})
  BY DEF RegisterDevices, Registered
<1> HIDE DEF G1
<1>4. a = Holding(M, P, Confs, G1, {})
  BY RegHolding DEF Fresh, G1
<1> HIDE DEF a
<1>5. Undone(b, M, P, Confs, G1, K)
  BY <1>1, <1>2, <1>4, RegisterKindFails
<1> HIDE DEF b, K
<1>6. PICK D \in SUBSET K, H \in SUBSET K, B \in SUBSET {"index"} :
             D # {} /\ b = Holding(M, P, Confs \ D, G1 \cup H, B)
  BY <1>5 DEF Undone
<1>7. /\ Confs \ D \in SUBSET Confs /\ G1 \cup H \in SUBSET Confs
      /\ Idxd \in Confs \ D /\ Idxd \in G1 \cup H /\ ~ Confs \subseteq Confs \ D
  BY <1>2, <1>6
<1> QED BY <1>3, <1>6, <1>7, DelIdxdLacking

LEMMA RegisterEnginesFails ==
  ASSUME NEW M, NEW P, NEW f \in Failures, f[1] = "add_engine"
  PROVE  Lacking(RegisterDevices(Fresh(M, P, Confs), f), M, P)
<1> DEFINE x == Fresh(M, P, Confs)
           a == Registered(x, {Idxd})
           b == RegisterKind(a, "wq", NumWqs, f)
           c == RegisterKind(b, "engine", NumEngines, f)
           d == DeviceUnregister(c, Wqs)
           G1 == {} \cup {Idxd}
           G2 == G1 \cup FirstOf("wq", NumWqs)
           K == FirstOf("engine", NumEngines)
<1>1. f[1] = AddOf("engine") /\ f[2] \in 0 .. NumEngines - 1 /\ NumEngines \in Nat
      /\ f[1] # AddOf("wq")
  BY FailureKinds, LifecycleParameters DEF AddOf
<1>2. /\ K \in SUBSET Confs /\ K \cap G2 = {} /\ Idxd \notin K /\ G2 = Wqs \cup {Idxd}
      /\ Idxd \in Confs /\ Idxd \notin Wqs /\ K \cap Wqs = {} /\ Wqs \subseteq Confs
  BY ConfKinds, ConfsApart
<1>3. RegisterDevices(x, f) = DeviceDel(d, {Idxd})
  BY DEF RegisterDevices, Registered
<1> HIDE DEF G1
<1>4. a = Holding(M, P, Confs, G1, {})
  BY RegHolding DEF Fresh, G1
<1> HIDE DEF a, G2
<1>5. b = Holding(M, P, Confs, G2, {})
  BY <1>1, <1>4, RegisterKindDone DEF G2
<1> HIDE DEF b
<1>6. Undone(c, M, P, Confs, G2, K)
  BY <1>1, <1>2, <1>5, RegisterKindFails
<1> HIDE DEF c, K
<1>7. PICK D \in SUBSET K, H \in SUBSET K, B \in SUBSET {"index"} :
             D # {} /\ c = Holding(M, P, Confs \ D, G2 \cup H, B)
  BY <1>6 DEF Undone
<1> DEFINE C1 == Confs \ D
           H1 == G2 \cup H
<1>8. /\ C1 \in SUBSET Confs /\ Wqs \in SUBSET C1 /\ Wqs \subseteq H1 /\ Idxd \notin Wqs
      /\ H1 \ Wqs \in SUBSET Confs /\ C1 \ Wqs \in SUBSET Confs
      /\ Idxd \in C1 \ Wqs /\ Idxd \in H1 \ Wqs /\ ~ Confs \subseteq C1 \ Wqs
  BY <1>2, <1>7
<1> HIDE DEF C1, H1
<1>9. d = Holding(M, P, C1 \ Wqs, H1 \ Wqs, B)
  BY <1>7, <1>8, UnregisterHolding DEF C1, H1
<1> HIDE DEF d
<1> QED BY <1>3, <1>8, <1>9, DelIdxdLacking

LEMMA RegisterGroupsFails ==
  ASSUME NEW M, NEW P, NEW f \in Failures, f[1] = "add_group"
  PROVE  Lacking(RegisterDevices(Fresh(M, P, Confs), f), M, P)
<1> DEFINE x == Fresh(M, P, Confs)
           a == Registered(x, {Idxd})
           b == RegisterKind(a, "wq", NumWqs, f)
           c == RegisterKind(b, "engine", NumEngines, f)
           d == RegisterKind(c, "group", NumGroups, f)
           e == DeviceUnregister(d, Engines)
           u == DeviceUnregister(e, Wqs)
           G1 == {} \cup {Idxd}
           G2 == G1 \cup FirstOf("wq", NumWqs)
           G3 == G2 \cup FirstOf("engine", NumEngines)
           K == FirstOf("group", NumGroups)
<1>1. f[1] = AddOf("group") /\ f[2] \in 0 .. NumGroups - 1 /\ NumGroups \in Nat
      /\ f[1] # AddOf("wq") /\ f[1] # AddOf("engine")
  BY FailureKinds, LifecycleParameters DEF AddOf
<1>2. /\ K \in SUBSET Confs /\ K \cap G3 = {} /\ Idxd \notin K
      /\ G3 = Wqs \cup Engines \cup {Idxd}
      /\ Idxd \in Confs /\ Idxd \notin Wqs \cup Engines /\ K \cap (Wqs \cup Engines) = {}
      /\ Wqs \cup Engines \subseteq Confs /\ Wqs \cap Engines = {}
  BY ConfKinds, ConfsApart
<1>3. RegisterDevices(x, f) = DeviceDel(u, {Idxd})
  BY DEF RegisterDevices, Registered
<1> HIDE DEF G1
<1>4. a = Holding(M, P, Confs, G1, {})
  BY RegHolding DEF Fresh, G1
<1> HIDE DEF a, G2
<1>5. b = Holding(M, P, Confs, G2, {})
  BY <1>1, <1>4, RegisterKindDone DEF G2
<1> HIDE DEF b, G3
<1>10. c = Holding(M, P, Confs, G3, {})
  BY <1>1, <1>5, RegisterKindDone DEF G3
<1> HIDE DEF c
<1>6. Undone(d, M, P, Confs, G3, K)
  BY <1>1, <1>2, <1>10, RegisterKindFails
<1> HIDE DEF d, K
<1>7. PICK D \in SUBSET K, H \in SUBSET K, B \in SUBSET {"index"} :
             D # {} /\ d = Holding(M, P, Confs \ D, G3 \cup H, B)
  BY <1>6 DEF Undone
<1> DEFINE C1 == Confs \ D
           H1 == G3 \cup H
           C2 == C1 \ Engines
           H2 == H1 \ Engines
<1>8. /\ C1 \in SUBSET Confs /\ Engines \in SUBSET C1 /\ Engines \subseteq H1
      /\ Idxd \notin Engines /\ Idxd \notin Wqs
      /\ C2 \in SUBSET Confs /\ Wqs \in SUBSET C2 /\ Wqs \subseteq H2
      /\ H2 \ Wqs \in SUBSET Confs /\ C2 \ Wqs \in SUBSET Confs
      /\ Idxd \in C2 \ Wqs /\ Idxd \in H2 \ Wqs /\ ~ Confs \subseteq C2 \ Wqs
  BY <1>2, <1>7
<1> HIDE DEF C1, H1
<1>9. e = Holding(M, P, C2, H2, B)
  BY <1>7, <1>8, UnregisterHolding DEF C1, H1
<1> HIDE DEF e, C2, H2
<1>11. u = Holding(M, P, C2 \ Wqs, H2 \ Wqs, B)
  BY <1>8, <1>9, UnregisterHolding
<1> HIDE DEF u
<1> QED BY <1>3, <1>8, <1>11, DelIdxdLacking

-----------------------------------------------------------------------------
(* When the books are lost.                                                 *)

\* Something has been released twice; the device still has its reference.
Broken(x) == x \in HeldRecord /\ x.bad # {} /\ x.refs[Idxd] \in 0 .. 1

LEMMA ReleaseTyped ==
  ASSUME NEW x \in HeldRecord, NEW R \in SUBSET Resources
  PROVE  /\ Release(x, R) \in HeldRecord
         /\ Release(x, R).refs = x.refs /\ x.bad \subseteq Release(x, R).bad
         /\ Release(x, R).reg = x.reg
  BY DEF Release, HeldRecord, Mistakes

LEMMA ReleaseBroken ==
  ASSUME NEW x, NEW R \in SUBSET Resources, Broken(x)
  PROVE  Broken(Release(x, R)) /\ Release(x, R).refs = x.refs
<1>1. /\ Release(x, R) \in HeldRecord
      /\ Release(x, R).refs = x.refs /\ x.bad \subseteq Release(x, R).bad
  BY ReleaseTyped DEF Broken
<1> QED BY <1>1 DEF Broken

LEMMA KindNamed ==
  ASSUME NEW c \in Confs
  PROVE  c[1] \in Mistakes
  BY ConfKinds DEF Confs, Mistakes

LEMMA PutTyped ==
  ASSUME NEW x \in HeldRecord, NEW D \in SUBSET Confs, \A c \in D : x.refs[c] \in 0 .. 1
  PROVE  /\ Put(x, D) \in HeldRecord
         /\ x.bad \subseteq Put(x, D).bad /\ Put(x, D).mem = x.mem /\ Put(x, D).ptr = x.ptr
         /\ \A c \in Confs : Put(x, D).refs[c] = IF c \in D THEN x.refs[c] - 1 ELSE x.refs[c]
         /\ (\E c \in D : x.refs[c] = 0) => Put(x, D).bad # {}
<1> DEFINE r == [c \in Confs |-> IF c \in D THEN x.refs[c] - 1 ELSE x.refs[c]]
           late == {c[1] : c \in {d \in D : x.refs[d] <= 0}}
           early == {c[1] : c \in {d \in D : x.refs[d] = 1} \cap x.reg}
           y == Put(x, D)
<1>1. x.refs \in [Confs -> -1 .. 1]
  BY DEF HeldRecord
<1>2. \A c \in D : x.refs[c] - 1 \in -1 .. 1
  OBVIOUS
<1>3. r \in [Confs -> -1 .. 1]
  BY <1>1, <1>2
<1>4. late \subseteq Mistakes /\ early \subseteq Mistakes
  BY KindNamed
<1>5. (\E c \in D : x.refs[c] = 0) => late # {}
  OBVIOUS
<1>6. y = [x EXCEPT !.refs = r, !.bad = x.bad \cup late \cup early]
  BY DEF Put
<1> HIDE DEF r, late, early, y
<1>7. /\ y \in HeldRecord /\ y.refs = r /\ y.mem = x.mem /\ y.ptr = x.ptr
      /\ y.bad = x.bad \cup late \cup early
  BY <1>3, <1>4, <1>6 DEF HeldRecord
<1>8. \A c \in Confs : y.refs[c] = IF c \in D THEN x.refs[c] - 1 ELSE x.refs[c]
  BY <1>7 DEF r
<1> QED BY <1>5, <1>7, <1>8 DEF y

\* Putting conf devices one of which is gone.
LEMMA PutBroken ==
  ASSUME NEW x, x \in HeldRecord, NEW D \in SUBSET (Confs \ {Idxd}),
         \A c \in Confs : x.refs[c] \in 0 .. 1, \E c \in D : x.refs[c] = 0
  PROVE  Broken(PutDevice(x, D)) /\ PutDevice(x, D).refs[Idxd] = x.refs[Idxd]
<1>1. PutDevice(x, D) = Put(x, D)
  BY PutDeviceDef
<1>2. Idxd \in Confs /\ D \in SUBSET Confs
  BY DEF Confs
<1>3. Put(x, D) \in HeldRecord /\ Put(x, D).bad # {} /\ Put(x, D).refs[Idxd] = x.refs[Idxd]
  BY <1>2, PutTyped
<1> QED BY <1>1, <1>2, <1>3 DEF Broken

LEMMA PutIdxdBroken ==
  ASSUME NEW x, Broken(x), x.refs[Idxd] = 1
  PROVE  Broken(PutDevice(x, {Idxd}))
<1> DEFINE y == Put(x, {Idxd})
<1>1. PutDevice(x, {Idxd}) = Release(y, y.ptr \cap Arrays)
  BY PutDeviceDef
<1>2. {Idxd} \in SUBSET Confs
  BY DEF Confs
<1>3. y \in HeldRecord /\ x.bad \subseteq y.bad /\ y.refs[Idxd] = 0
  BY <1>2, PutTyped DEF Broken
<1>4. Broken(y)
  BY <1>3 DEF Broken
<1>5. y.ptr \cap Arrays \in SUBSET Resources
  BY DEF Resources
<1> HIDE DEF y
<1> QED BY <1>1, <1>4, <1>5, ReleaseBroken

\* idxd_cleanup and the rest of the unwinding after a failed registration put
\* a conf device that is already gone.
LEMMA CleanupLacking ==
  ASSUME NEW M \in SUBSET Resources, NEW x, Core \subseteq M, Lacking(x, M, M)
  PROVE  Broken(Uniomap(Cleanup(x)))
<1>1. PICK C \in SUBSET Confs, G \in SUBSET Confs, B \in SUBSET {"index"} :
             /\ x = Holding(M, M, C, G, B)
             /\ Idxd \in C /\ Idxd \notin G /\ ~ Confs \subseteq C
  BY DEF Lacking
<1> DEFINE R == x.mem \cap {"pmu"}
           D == Groups \cup Engines \cup Wqs
           M1 == M \ R
           M2 == M1 \ {"misc_irq", "vectors"}
           a == Release(x, R)
           b == Release(a, {"misc_irq", "vectors"})
           c == PutDevice(b, D)
           d == Release(c, {"workqueue"})
           e == Release(d, d.mem \cap {"pasid", "sva"})
           g == Release(e, {"iomap"})
           h == PutDevice(g, {Idxd})
<1>2. Uniomap(Cleanup(x)) = Release(h, {"pci"})
  BY DEF Uniomap, Cleanup, CleanupInternals, CleanupInterrupts, DisablePasid
<1>3. x.mem = M
  BY <1>1 DEF Holding
<1>4. R \subseteq M /\ {"misc_irq", "vectors"} \subseteq M1 /\ M2 \in SUBSET Resources
      /\ B \in SUBSET Mistakes
  BY <1>3 DEF Core, Mistakes
<1>5. /\ {"misc_irq", "vectors"} \in SUBSET Resources /\ {"workqueue"} \in SUBSET Resources
      /\ d.mem \cap {"pasid", "sva"} \in SUBSET Resources
      /\ {"iomap"} \in SUBSET Resources /\ {"pci"} \in SUBSET Resources
  BY DEF Resources
<1>6. D \in SUBSET (Confs \ {Idxd}) /\ Confs = D \cup {Idxd} /\ Idxd \in Confs
  BY ConfsApart
<1> HIDE DEF R, D
<1>7. a = Holding(M1, M, C, G, B)
  BY <1>1, <1>4, ReleaseHolding
<1> HIDE DEF a, M1
<1>8. b = Holding(M2, M, C, G, B)
  BY <1>4, <1>7, ReleaseHolding
<1> HIDE DEF M2
<1>9. b \in HeldRecord /\ \A cc \in Confs : b.refs[cc] \in 0 .. 1
  BY <1>4, <1>8, HoldingTyped
<1>10. b.refs[Idxd] = 1 /\ \E cc \in D : b.refs[cc] = 0
  BY <1>1, <1>6, <1>8 DEF Holding
<1> HIDE DEF b
<1>11. Broken(c) /\ c.refs[Idxd] = 1
  BY <1>6, <1>9, <1>10, PutBroken
<1> HIDE DEF c
<1>12. Broken(d) /\ d.refs[Idxd] = 1
  BY <1>5, <1>11, ReleaseBroken
<1> HIDE DEF d
<1>13. Broken(e) /\ e.refs[Idxd] = 1
  BY <1>5, <1>12, ReleaseBroken
<1> HIDE DEF e
<1>14. Broken(g) /\ g.refs[Idxd] = 1
  BY <1>5, <1>13, ReleaseBroken
<1> HIDE DEF g
<1>15. Broken(h)
  BY <1>14, PutIdxdBroken
<1> HIDE DEF h
<1> QED BY <1>2, <1>5, <1>15, ReleaseBroken

-----------------------------------------------------------------------------
(* idxd_pci_probe.                                                          *)

LEMMA FreshAcquire ==
  ASSUME NEW M, NEW P, NEW C, NEW R
  PROVE  Acquire(Fresh(M, P, C), R) = Fresh(M \cup R, P \cup R, C)
  BY AcquireHolding DEF Fresh

LEMMA FreshRelease ==
  ASSUME NEW M, NEW P, NEW C, NEW R, R \subseteq M
  PROVE  Release(Fresh(M, P, C), R) = Fresh(M \ R, P, C)
  BY ReleaseHolding DEF Fresh

\* The last reference to a device with no conf devices.
LEMMA FreshFree ==
  ASSUME NEW M, NEW P, P \cap Arrays \subseteq M
  PROVE  PutDevice(Fresh(M, P, {Idxd}), {Idxd}) = Fresh(M \ (P \cap Arrays), P, {})
<1>1. {Idxd} \in SUBSET Confs /\ Idxd \in {Idxd} /\ Idxd \notin {} /\ {Idxd} \ {Idxd} = {}
  BY ConfsApart
<1> QED BY <1>1, PutIdxdHolding DEF Fresh

\* idxd_alloc.
LEMMA AllocDone ==
  ASSUME NEW M \in SUBSET {"idxd"}, NEW f, f[1] \notin {"ida", "opcap"}
  PROVE  LET x == Acquire(Fresh(M, {}, {}), {"pci"})
             A == {"pci", "idxd", "ida", "opcap"}
         IN  /\ f[1] = "name" => Alloc(x, f) = PutDevice(Fresh(A, A, {Idxd}), {Idxd})
             /\ f[1] # "name" => Alloc(x, f) = Fresh(A, A, {Idxd})
<1> DEFINE x == Acquire(Fresh(M, {}, {}), {"pci"})
           A == {"pci", "idxd", "ida", "opcap"}
           R == {"idxd", "ida", "opcap"}
           y == Acquire(x, R)
           z == Initialize(y, {Idxd})
           L == M \cup {"pci"}
           Q == {} \cup {"pci"}
<1>1. /\ f[1] = "name" => Alloc(x, f) = PutDevice(z, {Idxd})
      /\ f[1] # "name" => Alloc(x, f) = z
  BY DEF Alloc
<1>2. L \cup R = A /\ Q \cup R = A /\ {} \cup {Idxd} = {Idxd}
  OBVIOUS
<1>3. x = Fresh(L, Q, {})
  BY FreshAcquire
<1> HIDE DEF x, L, Q, R, A
<1>4. y = Fresh(A, A, {})
  BY <1>2, <1>3, FreshAcquire
<1> HIDE DEF y
<1>5. z = Fresh(A, A, {} \cup {Idxd})
  BY <1>4, InitializeHolding DEF Fresh
<1>6. z = Fresh(A, A, {Idxd})
  BY <1>2, <1>5
<1> HIDE DEF z
<1> QED BY <1>1, <1>6 DEF x, A

LEMMA AllocFails ==
  ASSUME NEW M \in SUBSET {"idxd"}, NEW f, f[1] \in {"ida", "opcap"}
  PROVE  LET x == Alloc(Acquire(Fresh(M, {}, {}), {"pci"}), f)
         IN  \E P : Release(x, {"pci"}) = Fresh({"idxd"}, P, {})
<1> DEFINE L == M \cup {"pci"}
           Q == {} \cup {"pci"}
           x == Alloc(Acquire(Fresh(M, {}, {}), {"pci"}), f)
           K == L \cup {"idxd"}
<1>1. x = Acquire(Acquire(Fresh(M, {}, {}), {"pci"}), {"idxd"})
  BY DEF Alloc
<1>2. {"pci"} \subseteq K /\ K \ {"pci"} = {"idxd"}
  OBVIOUS
<1> HIDE DEF x, L, Q
<1>3. Acquire(Fresh(M, {}, {}), {"pci"}) = Fresh(L, Q, {})
  BY FreshAcquire DEF L, Q
<1>4. x = Fresh(K, Q \cup {"idxd"}, {})
  BY <1>1, <1>3, FreshAcquire
<1> HIDE DEF K
<1>5. Release(x, {"pci"}) = Fresh({"idxd"}, Q \cup {"idxd"}, {})
  BY <1>2, <1>4, FreshRelease
<1> HIDE DEF x
<1> QED BY <1>5 DEF x

\* Freeing the device when nothing has been set up yet.
LEMMA FreeEarly ==
  LET A == {"pci", "idxd", "ida", "opcap"}
  IN  Release(PutDevice(Fresh(A, A, {Idxd}), {Idxd}), {"pci"}) = Fresh({}, A, {})
<1> DEFINE A == {"pci", "idxd", "ida", "opcap"}
           K == A \ (A \cap Arrays)
<1>1. A \cap Arrays \subseteq A /\ K = {"pci"} /\ {"pci"} \subseteq K /\ K \ {"pci"} = {}
  BY DEF Arrays
<1> HIDE DEF A
<1>2. PutDevice(Fresh(A, A, {Idxd}), {Idxd}) = Fresh(K, A, {})
  BY <1>1, FreshFree
<1> HIDE DEF K
<1>3. Release(Fresh(K, A, {}), {"pci"}) = Fresh(K \ {"pci"}, A, {})
  BY <1>1, FreshRelease
<1> QED BY <1>1, <1>2, <1>3 DEF A

\* idxd_pci_probe up to the call of idxd_probe.
LEMMA BeforeProbe ==
  ASSUME NEW M \in SUBSET {"idxd"}, NEW f, f[1] \notin AllocFailures
  PROVE  Acquire(Alloc(Acquire(Fresh(M, {}, {}), {"pci"}), f), {"iomap"})
           = Fresh(Base, Base, {Idxd})
<1> DEFINE A == {"pci", "idxd", "ida", "opcap"}
<1>1. A \cup {"iomap"} = Base
  BY DEF Base
<1>2. Alloc(Acquire(Fresh(M, {}, {}), {"pci"}), f) = Fresh(A, A, {Idxd})
  BY AllocDone DEF AllocFailures
<1> HIDE DEF A
<1> QED BY <1>1, <1>2, FreshAcquire

\* The states idxd_pci_probe goes through.
Allocated(x, f) == Alloc(Acquire(x, {"pci"}), f)
Mapped(x, f) == Acquire(Allocated(x, f), {"iomap"})
Probed(x, f, options) == Probe(Mapped(x, f), f, options)
Listed(x, f, options) == RegisterDevices(Probed(x, f, options), f)

\* The outcomes of idxd_pci_probe, by the call that fails.
Outcomes(x, f, options) ==
  /\ f[1] = "pci" => PciProbe(x, f, options) = x
  /\ f[1] = "kzalloc" =>
      PciProbe(x, f, options) = Release(Acquire(x, {"pci"}), {"pci"})
  /\ f[1] \in {"ida", "opcap", "name"} =>
      PciProbe(x, f, options) = Release(Allocated(x, f), {"pci"})
  /\ f[1] = "iomap" =>
      PciProbe(x, f, options) = Release(PutDevice(Allocated(x, f), {Idxd}), {"pci"})
  /\ f[1] = "mask" => PciProbe(x, f, options) = Uniomap(Mapped(x, f))
  /\ f[1] \in {"reset", "load_config"} \cup InternalFailures \cup InterruptFailures =>
      PciProbe(x, f, options) = Uniomap(Probed(x, f, options))
  /\ f[1] \in RegisterFailures =>
      PciProbe(x, f, options) = Uniomap(Cleanup(Listed(x, f, options)))
  /\ f[1] = "none" =>
      PciProbe(x, f, options) = Acquire(Listed(x, f, options), options \cap {"debugfs"})

LEMMA PciProbeCases ==
  ASSUME NEW x, NEW f, NEW options
  PROVE  Outcomes(x, f, options)
<1> USE DEF PciProbe, AllocFailures, InternalFailures, InterruptFailures, RegisterFailures,
            Uniomap, Allocated, Mapped, Probed, Listed, Outcomes
<1>1. CASE f[1] = "pci"
  BY <1>1
<1>2. CASE f[1] = "kzalloc"
  BY <1>2
<1>3. CASE f[1] \in {"ida", "opcap", "name"}
  BY <1>3
<1>4. CASE f[1] = "iomap"
  BY <1>4
<1>5. CASE f[1] = "mask"
  BY <1>5
<1>6. CASE f[1] \in {"reset", "load_config"} \cup InternalFailures \cup InterruptFailures
  BY <1>6
<1>7. CASE f[1] \in RegisterFailures
  BY <1>7
<1>8. CASE f[1] = "none"
  BY <1>8
<1> HIDE DEF PciProbe, Uniomap, Allocated, Mapped, Probed, Listed, Outcomes
<1> QED BY <1>1, <1>2, <1>3, <1>4, <1>5, <1>6, <1>7, <1>8 DEF Outcomes

Tracked(f) == f[1] \notin {"none", "enable_map", "add_wq", "add_engine", "add_group"}

\* A failed probe unwinds, except for the structure idxd_alloc loses.
LEMMA PciProbeUnwinds ==
  ASSUME NEW M \in SUBSET {"idxd"}, NEW f \in Failures, Tracked(f), NEW options
  PROVE  \E L \in SUBSET Resources : \E P :
             /\ PciProbe(Fresh(M, {}, {}), f, options) = Fresh(L, P, {})
             /\ L \subseteq M \cup (IF f[1] \in {"ida", "opcap"} THEN {"idxd"} ELSE {})
<1> DEFINE x == Fresh(M, {}, {})
           a == Allocated(x, f)
           b == Mapped(x, f)
           c == Probed(x, f, options)
           d == Listed(x, f, options)
           y == PciProbe(x, f, options)
           A == {"pci", "idxd", "ida", "opcap"}
<1>7. Outcomes(x, f, options)
  BY PciProbeCases
<1>1. M \in SUBSET Resources /\ {} \in SUBSET Resources /\ {"idxd"} \in SUBSET Resources
  BY DEF Resources, Arrays
<1>2. CASE f[1] = "pci"
  BY <1>1, <1>2, <1>7 DEF Outcomes
<1>3. CASE f[1] = "kzalloc"
  <2> DEFINE L == M \cup {"pci"}
  <2>1. L \ {"pci"} = M /\ {"pci"} \subseteq L
    OBVIOUS
  <2>2. y = Release(Acquire(x, {"pci"}), {"pci"})
    BY <1>3, <1>7 DEF Outcomes
  <2> HIDE DEF y
  <2>3. Acquire(x, {"pci"}) = Fresh(L, {} \cup {"pci"}, {})
    BY FreshAcquire
  <2> HIDE DEF L
  <2>4. y = Fresh(L \ {"pci"}, {} \cup {"pci"}, {})
    BY <2>1, <2>2, <2>3, FreshRelease
  <2> QED BY <1>1, <2>1, <2>4 DEF y
<1>4. CASE f[1] \in {"ida", "opcap"}
  <2>1. y = Release(a, {"pci"})
    BY <1>4, <1>7 DEF Outcomes
  <2>2. \E P : Release(a, {"pci"}) = Fresh({"idxd"}, P, {})
    BY <1>4, AllocFails DEF Allocated
  <2> HIDE DEF y, a
  <2> QED BY <1>1, <1>4, <2>1, <2>2 DEF y
<1>5. CASE f[1] \in {"name", "iomap"}
  <2>1. y = IF f[1] = "name" THEN Release(a, {"pci"}) ELSE Release(PutDevice(a, {Idxd}), {"pci"})
    BY <1>5, <1>7 DEF Outcomes
  <2>2. /\ f[1] = "name" => a = PutDevice(Fresh(A, A, {Idxd}), {Idxd})
        /\ f[1] # "name" => a = Fresh(A, A, {Idxd})
    BY <1>5, AllocDone DEF Allocated
  <2> HIDE DEF y, a
  <2>3. y = Release(PutDevice(Fresh(A, A, {Idxd}), {Idxd}), {"pci"})
    BY <1>5, <2>1, <2>2
  <2>4. y = Fresh({}, A, {})
    BY <2>3, FreeEarly
  <2> HIDE DEF A
  <2> QED BY <1>1, <1>5, <2>4 DEF y
<1>6. CASE f[1] \notin {"pci", "kzalloc", "ida", "opcap", "name", "iomap"}
  <2>1. f[1] \notin AllocFailures
    BY <1>6 DEF AllocFailures
  <2>2. b = Fresh(Base, Base, {Idxd})
    BY <2>1, BeforeProbe DEF Mapped, Allocated
  <2>3. \A z : Basic(z) /\ y = Uniomap(z) =>
                  \E L \in SUBSET Resources : \E P :
                     /\ PciProbe(x, f, options) = Fresh(L, P, {})
                     /\ L \subseteq M \cup (IF f[1] \in {"ida", "opcap"} THEN {"idxd"} ELSE {})
    <3> TAKE z
    <3> HAVE Basic(z) /\ y = Uniomap(z)
    <3>1. PICK P : Uniomap(z) = Fresh({}, P, {})
      BY UniomapBasic
    <3> HIDE DEF x
    <3>2. y = Fresh({}, P, {})
      BY <3>1
    <3> QED BY <1>1, <3>2
  <2>4. CASE f[1] = "mask"
    <3>1. y = Uniomap(b)
      BY <2>4, <1>7 DEF Outcomes
    <3>2. Base \subseteq Arrays \cup {"pci", "iomap"}
      BY DEF Base, Arrays
    <3> HIDE DEF b
    <3>3. Basic(b)
      BY <2>2, <3>2 DEF Basic
    <3> HIDE DEF y, x
    <3> QED BY <2>3, <3>1, <3>3 DEF y, x
  <2>5. CASE f[1] \in {"reset", "load_config"} \cup InternalFailures \cup InterruptFailures
    <3>1. y = Uniomap(c)
      BY <2>5, <1>7 DEF Outcomes
    <3> HIDE DEF b
    <3>2. Basic(c)
      BY <2>2, <2>5, ProbeFails DEF Tracked, Probed, b
    <3> HIDE DEF c, y, x
    <3> QED BY <2>3, <3>1, <3>2 DEF y, x
  <2>6. CASE f[1] = "add_idxd"
    <3> DEFINE K == Core \cup (options \cap {"sva", "pasid", "pmu"})
    <3>1. y = Uniomap(Cleanup(d))
      BY <2>6, <1>7 DEF Outcomes, RegisterFailures
    <3>2. d = c
      BY <2>6 DEF RegisterDevices, Listed
    <3>3. Core \subseteq K /\ K \subseteq Core \cup {"sva", "pasid", "pmu"}
      OBVIOUS
    <3>4. f[1] \notin InternalFailures \cup InterruptFailures \cup {"load_config", "reset"}
      BY <2>6 DEF InternalFailures, InterruptFailures
    <3> HIDE DEF b, d
    <3>5. c = Fresh(K, K, Confs)
      BY <2>2, <3>4, ProbeDone DEF Probed, b
    <3> HIDE DEF c, K
    <3>6. Basic(Cleanup(d))
      BY <3>2, <3>3, <3>5, CleanupFresh
    <3> HIDE DEF y, x
    <3> QED BY <2>3, <3>1, <3>6 DEF y, x
  <2> QED BY <1>6, <2>1, <2>4, <2>5, <2>6, FailureKinds DEF Tracked, RegisterFailures
<1> QED BY <1>2, <1>3, <1>4, <1>5, <1>6

LEMMA ProbedDone ==
  ASSUME NEW M \in SUBSET {"idxd"}, NEW f \in Failures, NEW options,
         f[1] \in RegisterFailures \cup {"none"}
  PROVE  LET K == Core \cup (options \cap {"sva", "pasid", "pmu"})
         IN  Probed(Fresh(M, {}, {}), f, options) = Fresh(K, K, Confs)
<1> DEFINE x == Fresh(M, {}, {})
           K == Core \cup (options \cap {"sva", "pasid", "pmu"})
<1>1. f[1] \notin AllocFailures
      /\ f[1] \notin InternalFailures \cup InterruptFailures \cup {"load_config", "reset"}
  BY DEF RegisterFailures, AllocFailures, InternalFailures, InterruptFailures
<1>2. Mapped(x, f) = Fresh(Base, Base, {Idxd})
  BY <1>1, BeforeProbe DEF Mapped, Allocated
<1> QED BY <1>1, <1>2, ProbeDone DEF Probed

\* A failed probe that loses track has released something twice.
LEMMA PciProbeLoses ==
  ASSUME NEW M \in SUBSET {"idxd"}, NEW f \in Failures, NEW options,
         ~ Tracked(f), f[1] # "none"
  PROVE  LET x == PciProbe(Fresh(M, {}, {}), f, options)
         IN  /\ x \in HeldRecord /\ x.bad # {}
             /\ f[1] = "enable_map" => \A c \in Confs : x.refs[c] \in 0 .. 1
<1> DEFINE x == Fresh(M, {}, {})
           K == Core \cup (options \cap {"sva", "pasid", "pmu"})
<1>7. Outcomes(x, f, options)
  BY PciProbeCases
<1>1. CASE f[1] = "enable_map"
  <2>1. PciProbe(x, f, options) = Uniomap(Probed(x, f, options))
    BY <1>1, <1>7 DEF Outcomes, InternalFailures
  <2>2. f[1] \notin AllocFailures
    BY <1>1 DEF AllocFailures
  <2>3. Mapped(x, f) = Fresh(Base, Base, {Idxd})
    BY <2>2, BeforeProbe DEF Mapped, Allocated
  <2> HIDE DEF x
  <2>4. PciProbe(x, f, options) = Uniomap(Probe(Fresh(Base, Base, {Idxd}), f, options))
    BY <2>1, <2>3 DEF Probed
  <2> QED BY <1>1, <2>4, ProbeLoses DEF x
<1>2. CASE f[1] \in {"add_wq", "add_engine", "add_group"}
  <2>1. PciProbe(x, f, options) = Uniomap(Cleanup(Listed(x, f, options)))
    BY <1>2, <1>7 DEF Outcomes, RegisterFailures
  <2>2. Probed(x, f, options) = Fresh(K, K, Confs)
    BY <1>2, ProbedDone DEF RegisterFailures
  <2>3. Core \subseteq K /\ K \in SUBSET Resources
    BY DEF Core, Resources, Arrays
  <2> HIDE DEF x, K
  <2>4. Lacking(RegisterDevices(Fresh(K, K, Confs), f), K, K)
    BY <1>2, RegisterWqsFails, RegisterEnginesFails, RegisterGroupsFails
  <2>5. Lacking(Listed(x, f, options), K, K)
    BY <2>2, <2>4 DEF Listed
  <2>6. Broken(Uniomap(Cleanup(Listed(x, f, options))))
    BY <2>3, <2>5, CleanupLacking
  <2> QED BY <1>2, <2>1, <2>6 DEF Broken, x
<1> QED BY <1>1, <1>2 DEF Tracked

LEMMA PciProbeDone ==
  ASSUME NEW M \in SUBSET {"idxd"}, NEW f \in Failures, f[1] = "none", NEW options
  PROVE  LET L == Core \cup (options \cap {"sva", "pasid", "pmu", "debugfs"})
         IN  PciProbe(Fresh(M, {}, {}), f, options) = Holding(L, L, Confs, Confs, {})
<1> DEFINE x == Fresh(M, {}, {})
           K == Core \cup (options \cap {"sva", "pasid", "pmu"})
           L == K \cup (options \cap {"debugfs"})
<1>1. Outcomes(x, f, options)
  BY PciProbeCases
<1>2. PciProbe(x, f, options) = Acquire(Listed(x, f, options), options \cap {"debugfs"})
  BY <1>1 DEF Outcomes
<1>3. Probed(x, f, options) = Fresh(K, K, Confs)
  BY ProbedDone
<1>4. L = Core \cup (options \cap {"sva", "pasid", "pmu", "debugfs"})
  OBVIOUS
<1>5. f[1] \notin RegisterFailures
  BY DEF RegisterFailures
<1> HIDE DEF x, K
<1>6. RegisterDevices(Fresh(K, K, Confs), f) = Holding(K, K, Confs, Confs, {})
  BY <1>5, RegisterDevicesDone
<1>7. Listed(x, f, options) = Holding(K, K, Confs, Confs, {})
  BY <1>3, <1>6 DEF Listed
<1>8. Acquire(Listed(x, f, options), options \cap {"debugfs"}) = Holding(L, L, Confs, Confs, {})
  BY <1>7, AcquireHolding
<1> QED BY <1>2, <1>4, <1>8 DEF x

\* Forgetting the pointers of a device that is gone.
LEMMA ForgetHolding ==
  ASSUME NEW M, NEW P, NEW C, NEW G, NEW B
  PROVE  [Holding(M, P, C, G, B) EXCEPT !.ptr = {}] = Holding(M, {}, C, G, B)
<1> DEFINE x == [Holding(M, P, C, G, B) EXCEPT !.ptr = {}]
<1>1. x \in [mem : {M}, ptr : {{}}, refs : {[c \in Confs |-> IF c \in C THEN 1 ELSE 0]},
             reg : {G}, bad : {B}]
  BY DEF Holding
<1> HIDE DEF x
<1>2. x = Holding(M, {}, C, G, B)
  BY <1>1, HoldingIs
<1> QED BY <1>2 DEF x

-----------------------------------------------------------------------------
(* Removal.                                                                 *)

\* What a device that is present holds.
Complete(M, P, bound) ==
  /\ M \in SUBSET Resources /\ P \in SUBSET Resources
  /\ Core \subseteq M /\ Arrays \subseteq P
  /\ M \ DriverHeld \subseteq Core \cup Optional
  /\ M \cap DriverHeld = (IF bound THEN DriverHeld ELSE {})

LostPortal(z, W) == IF \E w \in W : "portal" \notin z[w].res THEN {"portal"} ELSE {}

LEMMA UnmapHolding ==
  ASSUME NEW M, NEW P, NEW C, NEW G, NEW B, NEW z, NEW W
  PROVE  UnmapPortals(Holding(M, P, C, G, B), z, W)
           = Holding(M, P, C, G, B \cup LostPortal(z, W))
<1>1. \A x : UnmapPortals(x, z, W) = Blamed(x, LostPortal(z, W))
  BY DEF UnmapPortals, Blamed, LostPortal
<1> QED BY <1>1, BadHolding

LEMMA DrvRemoveHolding ==
  ASSUME NEW M, NEW P, NEW C, NEW G, NEW B, DriverHeld \subseteq M
  PROVE  DrvRemove(Holding(M, P, C, G, B)) = Holding(M \ DriverHeld, P, C, G, B)
<1>1. {"dma", "evl_log"} = DriverHeld
  BY DEF DriverHeld
<1> QED BY <1>1, ReleaseHolding DEF DrvRemove

\* What idxd_remove holds for the rest of the device, given back.
LEMMA RemoveRest ==
  ASSUME NEW M, NEW P, NEW B, Core \subseteq M, M \subseteq Core \cup Optional, Arrays \subseteq P
  PROVE  LET c == DeviceDel(Holding(M, P, {Idxd}, {Idxd}, B), {Idxd})
             d == DisablePasid(Release(c, c.mem \cap {"debugfs", "pmu"}))
             e == PutDevice(Release(d, {"misc_irq", "vectors", "iomap", "pci", "workqueue"}),
                            {Idxd})
         IN  [e EXCEPT !.ptr = {}] = Holding({}, {}, {}, {}, B)
<1> DEFINE c == DeviceDel(Holding(M, P, {Idxd}, {Idxd}, B), {Idxd})
           R1 == M \cap {"debugfs", "pmu"}
           c2 == Release(c, c.mem \cap {"debugfs", "pmu"})
           M2 == M \ R1
           R2 == M2 \cap {"pasid", "sva"}
           d == DisablePasid(c2)
           M3 == M2 \ R2
           R3 == {"misc_irq", "vectors", "iomap", "pci", "workqueue"}
           d2 == Release(d, R3)
           M4 == M3 \ R3
           e == PutDevice(d2, {Idxd})
           M5 == M4 \ (P \cap Arrays)
           G1 == {Idxd} \ {Idxd}
           C1 == {Idxd} \ {Idxd}
<1>1. /\ R1 \subseteq M /\ R2 \subseteq M2 /\ R3 \subseteq M3 /\ P \cap Arrays \subseteq M4
      /\ M5 = {}
  BY DEF Core, Optional, Arrays
<1>2. G1 = {} /\ C1 = {} /\ Idxd \in {Idxd} /\ {Idxd} \subseteq {Idxd} /\ {Idxd} \in SUBSET Confs
  BY ConfsApart
<1>3. c = Holding(M, P, {Idxd}, G1, B)
  BY <1>2, DelHolding
<1>4. c.mem = M
  BY <1>3 DEF Holding
<1>5. c2 = Release(c, R1)
  BY <1>4
<1> HIDE DEF c, c2, R1, G1
<1>6. c2 = Holding(M2, P, {Idxd}, G1, B)
  BY <1>1, <1>3, <1>5, ReleaseHolding
<1> HIDE DEF M2
<1>7. c2.mem = M2
  BY <1>6 DEF Holding
<1>8. d = Release(c2, R2)
  BY <1>7 DEF DisablePasid
<1> HIDE DEF d, R2
<1>9. d = Holding(M3, P, {Idxd}, G1, B)
  BY <1>1, <1>6, <1>8, ReleaseHolding
<1> HIDE DEF M3, R3, d2
<1>10. d2 = Holding(M4, P, {Idxd}, G1, B)
  BY <1>1, <1>9, ReleaseHolding DEF d2
<1> HIDE DEF M4, C1
<1>11. PutDevice(Holding(M4, P, {Idxd}, G1, B), {Idxd}) = Holding(M5, P, C1, G1, B)
  BY <1>1, <1>2, PutIdxdHolding DEF C1
<1> HIDE DEF M5, e
<1>12. e = Holding({}, P, {}, {}, B)
  BY <1>1, <1>2, <1>10, <1>11 DEF e
<1>13. [e EXCEPT !.ptr = {}] = Holding({}, {}, {}, {}, B)
  BY <1>12, ForgetHolding
<1> QED BY <1>13 DEF c, c2, d, d2, e, R3

\* idxd_remove leaves nothing; with the device driver bound it works on freed
\* queues.
LEMMA RemoveHolding ==
  ASSUME NEW M, NEW P, NEW B, NEW z, NEW bound \in BOOLEAN, Complete(M, P, bound)
  PROVE  Remove(Holding(M, P, Confs, Confs, B), z, bound)
           = Holding({}, {}, {}, {}, B \cup LostPortal(z, Bound(z))
                                       \cup (IF bound THEN {"freed_wq"} ELSE {}))
<1> DEFINE x == Holding(M, P, Confs, Confs, B)
           D == Wqs \cup Engines \cup Groups
           B1 == B \cup LostPortal(z, Bound(z))
           a == DeviceUnregister(UnmapPortals(x, z, Bound(z)), D)
           b == IF bound THEN Blamed(DrvRemove(a), {"freed_wq"}) ELSE a
           M1 == M \ DriverHeld
           B2 == B1 \cup (IF bound THEN {"freed_wq"} ELSE {})
           C1 == Confs \ D
<1>1. C1 = {Idxd} /\ D \in SUBSET Confs /\ D \subseteq Confs /\ Idxd \notin D
      /\ Confs \in SUBSET Confs
  BY ConfsApart
<1>2. UnmapPortals(x, z, Bound(z)) = Holding(M, P, Confs, Confs, B1)
  BY UnmapHolding
<1> HIDE DEF x, B1, D
<1>3. a = Holding(M, P, {Idxd}, {Idxd}, B1)
  BY <1>1, <1>2, UnregisterHolding
<1> HIDE DEF a
<1>4. b = Holding(M1, P, {Idxd}, {Idxd}, B2)
  <2>1. CASE bound
    <3>1. DriverHeld \subseteq M
      BY <2>1 DEF Complete
    <3>2. DrvRemove(a) = Holding(M1, P, {Idxd}, {Idxd}, B1)
      BY <1>3, <3>1, DrvRemoveHolding
    <3> HIDE DEF M1
    <3>3. Blamed(DrvRemove(a), {"freed_wq"})
            = Holding(M1, P, {Idxd}, {Idxd}, B1 \cup {"freed_wq"})
      BY <3>2, BadHolding
    <3> QED BY <2>1, <3>3
  <2>2. CASE ~bound
    <3>1. M1 = M
      BY <2>2 DEF Complete
    <3>2. B2 = B1
      BY <2>2
    <3> HIDE DEF M1, B2
    <3> QED BY <1>3, <2>2, <3>1, <3>2
  <2> QED BY <2>1, <2>2
<1>5. Core \subseteq M1 /\ M1 \subseteq Core \cup Optional /\ Arrays \subseteq P
  BY DEF Complete, Core, DriverHeld, Arrays
<1>6. Remove(x, z, bound) =
        LET c == DeviceDel(b, {Idxd})
            d == DisablePasid(Release(c, c.mem \cap {"debugfs", "pmu"}))
            e == PutDevice(Release(d, {"misc_irq", "vectors", "iomap", "pci", "workqueue"}),
                           {Idxd})
        IN  [e EXCEPT !.ptr = {}]
  BY DEF Remove, Blamed, a, D
<1> HIDE DEF b, M1, B2
<1>7. Remove(x, z, bound) = Holding({}, {}, {}, {}, B2)
  BY <1>4, <1>5, <1>6, RemoveRest, SMTT(30)
<1> QED BY <1>7 DEF x, B1, B2

-----------------------------------------------------------------------------
(* The books, as one predicate.                                             *)

Here(x, bound) ==
  x = Holding(x.mem, x.ptr, Confs, Confs, x.bad) /\ Complete(x.mem, x.ptr, bound)

Gone(x, flt) ==
  /\ x = Holding(x.mem, {}, {}, {}, x.bad)
  /\ x.mem \subseteq (IF "alloc" \in flt THEN {"idxd"} ELSE {})

Books(x, here, bound, flt) ==
  /\ x \in HeldRecord
  /\ "register" \notin flt => \A c \in Confs : x.refs[c] \in 0 .. 1
  /\ ~here => x.ptr = {}
  /\ flt \cap Lost # {} => ~here /\ x.bad # {}
  /\ flt \cap Lost = {} => /\ ~here => Gone(x, flt)
                           /\ here => Here(x, bound)
                           /\ "halt" \notin flt => x.bad = {}

LEMMA BooksAre ==
  (s \in HeldRecord /\ ("register" \notin faults => \A c \in Confs : s.refs[c] \in 0 .. 1)
     /\ (~present => s.ptr = {}) /\ LostInv /\ HeldInv)
  <=> Books(s, present, devBound, faults)
<1>1. s \in HeldRecord => s.mem \in SUBSET Resources /\ s.ptr \in SUBSET Resources
  BY DEF HeldRecord
<1> DEFINE S == s = Holding(s.mem, s.ptr, Confs, Confs, s.bad)
           A == s = Holding(s.mem, {}, {}, {}, s.bad)
<1> HIDE DEF S, A
<1>2. s \in HeldRecord =>
        (Here(s, devBound) <=> /\ S
                               /\ Core \subseteq s.mem /\ Arrays \subseteq s.ptr
                               /\ s.mem \ DriverHeld \subseteq Core \cup Optional
                               /\ s.mem \cap DriverHeld = (IF devBound THEN DriverHeld ELSE {}))
  BY <1>1 DEF Here, Complete, S
<1>3. Gone(s, faults) <=> A /\ s.mem \subseteq (IF "alloc" \in faults THEN {"idxd"} ELSE {})
  BY DEF Gone, A
<1>4. HeldInv <=> (faults \cap Lost = {} =>
        /\ ~present => A /\ s.mem \subseteq (IF "alloc" \in faults THEN {"idxd"} ELSE {})
        /\ present => /\ S
                      /\ Core \subseteq s.mem /\ Arrays \subseteq s.ptr
                      /\ s.mem \ DriverHeld \subseteq Core \cup Optional
                      /\ s.mem \cap DriverHeld = (IF devBound THEN DriverHeld ELSE {})
        /\ "halt" \notin faults => s.bad = {})
  BY DEF HeldInv, S, A
<1> QED BY <1>2, <1>3, <1>4 DEF LostInv, Books

LEMMA HereBooks ==
  ASSUME NEW M, NEW P, NEW B \in SUBSET Mistakes, NEW bound, NEW flt,
         Complete(M, P, bound), flt \cap Lost = {}, "halt" \notin flt => B = {}
  PROVE  Books(Holding(M, P, Confs, Confs, B), TRUE, bound, flt)
<1> DEFINE x == Holding(M, P, Confs, Confs, B)
<1>1. x.mem = M /\ x.ptr = P /\ x.bad = B
  BY DEF Holding
<1>2. x \in HeldRecord /\ \A c \in Confs : x.refs[c] \in 0 .. 1
  BY HoldingTyped DEF Complete
<1>3. Here(x, bound)
  BY <1>1 DEF Here
<1> HIDE DEF x
<1>4. Books(x, TRUE, bound, flt)
  BY <1>1, <1>2, <1>3 DEF Books
<1> QED BY <1>4 DEF x

LEMMA GoneBooks ==
  ASSUME NEW M \in SUBSET Resources, NEW B \in SUBSET Mistakes, NEW bound, NEW flt,
         flt \cap Lost = {} => M \subseteq (IF "alloc" \in flt THEN {"idxd"} ELSE {}),
         flt \cap Lost # {} => B # {},
         flt \cap Lost = {} /\ "halt" \notin flt => B = {}
  PROVE  Books(Holding(M, {}, {}, {}, B), FALSE, bound, flt)
<1> DEFINE x == Holding(M, {}, {}, {}, B)
<1>1. x.mem = M /\ x.ptr = {} /\ x.bad = B
  BY DEF Holding
<1>2. x \in HeldRecord /\ \A c \in Confs : x.refs[c] \in 0 .. 1
  BY HoldingTyped
<1>3. flt \cap Lost = {} => Gone(x, flt)
  BY <1>1 DEF Gone
<1> HIDE DEF x
<1>4. Books(x, FALSE, bound, flt)
  BY <1>1, <1>2, <1>3 DEF Books
<1> QED BY <1>4 DEF x

\* What a device that is present holds, taken apart.
LEMMA TakeHere ==
  ASSUME NEW x, NEW bound, NEW flt, Books(x, TRUE, bound, flt)
  PROVE  \E M, P : \E B \in SUBSET Mistakes :
             /\ x = Holding(M, P, Confs, Confs, B) /\ Complete(M, P, bound)
             /\ flt \cap Lost = {} /\ ("halt" \notin flt => B = {})
<1>1. x.bad \in SUBSET Mistakes
  BY DEF Books, HeldRecord
<1>2. flt \cap Lost = {} /\ Here(x, bound) /\ ("halt" \notin flt => x.bad = {})
  BY DEF Books
<1> QED BY <1>1, <1>2 DEF Here

-----------------------------------------------------------------------------
(* Every step keeps the books.                                              *)

LEMMA ProbeBooks ==
  ASSUME Books(s, present, devBound, faults), ~present => ~devBound,
         NEW f \in Failures, NEW options \in SUBSET {"sva", "pasid", "pmu", "debugfs"},
         IdxdPciProbe(f, options)
  PROVE  Books(s', present', devBound', faults')
<1>1. /\ ~present /\ s.bad = {} /\ devBound' = devBound /\ ~devBound
      /\ present' = (f[1] = "none") /\ faults' = faults \cup LosesTrack(f)
      /\ s' = [PciProbe(s, f, options) EXCEPT !.ptr = IF f[1] = "none" THEN @ ELSE {}]
  BY DEF IdxdPciProbe
<1>2. faults \cap Lost = {} /\ Gone(s, faults)
  BY <1>1 DEF Books
<1> DEFINE M == s.mem
<1>3. s = Fresh(M, {}, {}) /\ M \subseteq (IF "alloc" \in faults THEN {"idxd"} ELSE {})
      /\ M \in SUBSET {"idxd"}
  BY <1>1, <1>2 DEF Gone, Fresh
<1> HIDE DEF M
<1> DEFINE y == PciProbe(s, f, options)
<1>4. CASE f[1] = "none"
  <2> DEFINE L == Core \cup (options \cap {"sva", "pasid", "pmu", "debugfs"})
  <2>1. y = Holding(L, L, Confs, Confs, {})
    BY <1>3, <1>4, PciProbeDone
  <2>2. LosesTrack(f) = {}
    BY <1>4 DEF LosesTrack, RegisterFailures
  <2>3. Complete(L, L, FALSE)
    BY DEF Complete, Core, Optional, Arrays, Resources, DriverHeld
  <2> HIDE DEF L
  <2>4. y \in HeldRecord
    <3>1. L \in SUBSET Resources /\ Confs \in SUBSET Confs /\ {} \in SUBSET Mistakes
      BY <2>3 DEF Complete
    <3> HIDE DEF y
    <3> QED BY <2>1, <3>1, HoldingTyped
  <2>5. s' = y
    <3>1. s' = [y EXCEPT !.ptr = y.ptr]
      BY <1>1, <1>4
    <3> HIDE DEF y
    <3> QED BY <2>4, <3>1 DEF HeldRecord
  <2>6. faults' = faults /\ present' = TRUE /\ devBound' = FALSE
    <3>1. devBound' = FALSE
      BY <1>1, <2>3
    <3> QED BY <1>1, <1>4, <2>2, <3>1
  <2>7. {} \in SUBSET Mistakes
    OBVIOUS
  <2> HIDE DEF y
  <2>8. Books(Holding(L, L, Confs, Confs, {}), TRUE, FALSE, faults)
    BY <1>2, <2>3, <2>7, HereBooks
  <2> QED BY <2>1, <2>5, <2>6, <2>8
<1>5. CASE Tracked(f)
  <2>0. PICK L \in SUBSET Resources : \E P :
               /\ y = Fresh(L, P, {})
               /\ L \subseteq M \cup (IF f[1] \in {"ida", "opcap"} THEN {"idxd"} ELSE {})
    BY <1>3, <1>5, PciProbeUnwinds
  <2>1. PICK P :
               /\ y = Fresh(L, P, {})
               /\ L \subseteq M \cup (IF f[1] \in {"ida", "opcap"} THEN {"idxd"} ELSE {})
    BY <2>0
  <2>2. LosesTrack(f) = IF f[1] \in {"ida", "opcap"} THEN {"alloc"} ELSE {}
    BY <1>5 DEF LosesTrack, Tracked, RegisterFailures
  <2>3. faults' \cap Lost = {} /\ L \subseteq (IF "alloc" \in faults' THEN {"idxd"} ELSE {})
    BY <1>1, <1>2, <1>3, <2>1, <2>2 DEF Lost
  <2>4. present' = FALSE
    BY <1>1, <1>5 DEF Tracked
  <2> HIDE DEF y
  <2>5. s' = [y EXCEPT !.ptr = {}]
    BY <1>1, <1>5 DEF Tracked, y
  <2>6. s' = Holding(L, {}, {}, {}, {})
    BY <2>1, <2>5, ForgetHolding DEF Fresh
  <2>7. {} \in SUBSET Mistakes
    OBVIOUS
  <2>8. Books(Holding(L, {}, {}, {}, {}), FALSE, devBound', faults')
    BY <2>3, <2>7, GoneBooks
  <2> QED BY <2>4, <2>6, <2>8
<1>6. CASE f[1] # "none" /\ ~ Tracked(f)
  <2>1. /\ y \in HeldRecord /\ y.bad # {}
        /\ f[1] = "enable_map" => \A c \in Confs : y.refs[c] \in 0 .. 1
    BY <1>3, <1>6, PciProbeLoses
  <2>2. LosesTrack(f) = IF f[1] = "enable_map" THEN {"enable_map"} ELSE {"register"}
    BY <1>6 DEF LosesTrack, Tracked, RegisterFailures
  <2>3. faults' \cap Lost # {} /\ ("register" \notin faults' => f[1] = "enable_map")
    BY <1>1, <2>2 DEF Lost
  <2> HIDE DEF y
  <2>4. s' = [y EXCEPT !.ptr = {}]
    BY <1>1, <1>6 DEF y
  <2>5. s' \in HeldRecord /\ s'.bad = y.bad /\ s'.refs = y.refs /\ s'.ptr = {}
    BY <2>1, <2>4 DEF HeldRecord
  <2>6. present' = FALSE
    BY <1>1, <1>6
  <2> QED BY <2>1, <2>3, <2>5, <2>6 DEF Books
<1> QED BY <1>4, <1>5, <1>6

LEMMA DrvProbeBooks ==
  ASSUME Books(s, present, devBound, faults), NEW f, DeviceDrvProbe(f)
  PROVE  Books(s', present', devBound', faults')
<1>1. /\ present = TRUE /\ present' = TRUE /\ faults' = faults /\ ~devBound
      /\ devBound' = (f = "none")
      /\ s' = IF f = "none" THEN Acquire(s, {"evl_log", "dma"}) ELSE s
  <2>1. present /\ present' = present
    BY DEF DeviceDrvProbe
  <2>2. present = TRUE
    BY <2>1 DEF Books
  <2> QED BY <2>1, <2>2 DEF DeviceDrvProbe
<1> PICK M, P : \E B \in SUBSET Mistakes :
             /\ s = Holding(M, P, Confs, Confs, B) /\ Complete(M, P, devBound)
             /\ faults \cap Lost = {} /\ ("halt" \notin faults => B = {})
  BY <1>1, TakeHere
<1> PICK B \in SUBSET Mistakes :
             /\ s = Holding(M, P, Confs, Confs, B) /\ Complete(M, P, devBound)
             /\ faults \cap Lost = {} /\ ("halt" \notin faults => B = {})
  OBVIOUS
<1>2. CASE f = "none"
  <2> DEFINE L == M \cup {"evl_log", "dma"}
             Q == P \cup {"evl_log", "dma"}
  <2>1. Complete(L, Q, TRUE)
    BY DEF Complete, DriverHeld, Resources
  <2>2. s' = Holding(L, Q, Confs, Confs, B)
    BY <1>1, <1>2, AcquireHolding
  <2>3. devBound' = TRUE
    BY <1>1, <1>2
  <2> HIDE DEF L, Q
  <2>4. Books(Holding(L, Q, Confs, Confs, B), TRUE, TRUE, faults)
    BY <2>1, HereBooks
  <2> QED BY <1>1, <2>2, <2>3, <2>4
<1>3. CASE f # "none"
  <2>1. Complete(M, P, FALSE)
    BY <1>1 DEF Complete
  <2>2. devBound' = FALSE /\ s' = s
    BY <1>1, <1>3
  <2>3. Books(Holding(M, P, Confs, Confs, B), TRUE, FALSE, faults)
    BY <2>1, HereBooks
  <2> QED BY <1>1, <2>2, <2>3
<1> QED BY <1>2, <1>3

LEMMA DrvRemoveBooks ==
  ASSUME Books(s, present, devBound, faults), present = TRUE, DeviceDrvRemove
  PROVE  Books(s', present', devBound', faults')
<1>1. /\ present' = TRUE /\ faults' = faults /\ devBound
      /\ devBound' = FALSE /\ s' = DrvRemove(s)
  BY DEF DeviceDrvRemove
<1> PICK M, P : \E B \in SUBSET Mistakes :
             /\ s = Holding(M, P, Confs, Confs, B) /\ Complete(M, P, devBound)
             /\ faults \cap Lost = {} /\ ("halt" \notin faults => B = {})
  BY TakeHere
<1> PICK B \in SUBSET Mistakes :
             /\ s = Holding(M, P, Confs, Confs, B) /\ Complete(M, P, devBound)
             /\ faults \cap Lost = {} /\ ("halt" \notin faults => B = {})
  OBVIOUS
<1> DEFINE L == M \ DriverHeld
<1>2. DriverHeld \subseteq M /\ Complete(L, P, FALSE)
  BY <1>1 DEF Complete, Core, DriverHeld, Arrays
<1>3. s' = Holding(L, P, Confs, Confs, B)
  BY <1>1, <1>2, DrvRemoveHolding
<1> HIDE DEF L
<1>4. Books(Holding(L, P, Confs, Confs, B), TRUE, FALSE, faults)
  BY <1>2, HereBooks
<1> QED BY <1>1, <1>3, <1>4

\* Unbinding a queue; without a halt its portal is still mapped.
LEMMA UnbindBooks ==
  ASSUME Books(s, present, devBound, faults), present = TRUE, NEW w \in Wqs,
         "halt" \notin faults => "portal" \in q[w].res,
         s' = UnmapPortals(s, q, {w}), present' = present, devBound' = devBound,
         faults' = faults
  PROVE  Books(s', present', devBound', faults')
<1> PICK M, P : \E B \in SUBSET Mistakes :
             /\ s = Holding(M, P, Confs, Confs, B) /\ Complete(M, P, devBound)
             /\ faults \cap Lost = {} /\ ("halt" \notin faults => B = {})
  BY TakeHere
<1> PICK B \in SUBSET Mistakes :
             /\ s = Holding(M, P, Confs, Confs, B) /\ Complete(M, P, devBound)
             /\ faults \cap Lost = {} /\ ("halt" \notin faults => B = {})
  OBVIOUS
<1> DEFINE L == LostPortal(q, {w})
           B2 == B \cup L
<1>1. L \in SUBSET Mistakes /\ ("halt" \notin faults => L = {})
  BY DEF LostPortal, Mistakes
<1> HIDE DEF L
<1>2. s' = Holding(M, P, Confs, Confs, B2)
  BY UnmapHolding, SMTT(30) DEF L
<1>3. B2 \in SUBSET Mistakes /\ ("halt" \notin faults => B2 = {})
  BY <1>1
<1> HIDE DEF B2
<1>4. Books(Holding(M, P, Confs, Confs, B2), TRUE, devBound, faults)
  BY <1>3, HereBooks
<1> QED BY <1>2, <1>4

\* Without a halt every bound queue has its portal.
Portals == "halt" \notin faults => \A w \in Wqs : q[w].bound # "none" => "portal" \in q[w].res

LEMMA RemoveBooks ==
  ASSUME Books(s, present, devBound, faults), Portals, devBound \in BOOLEAN, IdxdRemove
  PROVE  Books(s', present', devBound', faults')
<1>1. /\ present /\ present' = FALSE /\ devBound' = FALSE
      /\ s' = Remove(s, q, devBound)
      /\ faults' = faults \cup (IF devBound THEN {"remove_bound"} ELSE {})
  BY DEF IdxdRemove, Absent
<1>2. Books(s, TRUE, devBound, faults)
  BY <1>1 DEF Books
<1> PICK M, P : \E B \in SUBSET Mistakes :
             /\ s = Holding(M, P, Confs, Confs, B) /\ Complete(M, P, devBound)
             /\ faults \cap Lost = {} /\ ("halt" \notin faults => B = {})
  BY <1>2, TakeHere
<1> PICK B \in SUBSET Mistakes :
             /\ s = Holding(M, P, Confs, Confs, B) /\ Complete(M, P, devBound)
             /\ faults \cap Lost = {} /\ ("halt" \notin faults => B = {})
  OBVIOUS
<1> DEFINE L == LostPortal(q, Bound(q))
           B2 == B \cup L \cup (IF devBound THEN {"freed_wq"} ELSE {})
<1>3. L \in SUBSET Mistakes /\ ("halt" \notin faults => L = {})
  BY DEF LostPortal, Mistakes, Bound, Portals
<1> HIDE DEF L
<1>4. s' = Holding({}, {}, {}, {}, B2)
  BY <1>1, RemoveHolding DEF L
<1>5. /\ B2 \in SUBSET Mistakes /\ {} \in SUBSET Resources
      /\ faults' \cap Lost # {} => B2 # {}
      /\ faults' \cap Lost = {} /\ "halt" \notin faults' => B2 = {}
      /\ faults' \cap Lost = {} => {} \subseteq (IF "alloc" \in faults' THEN {"idxd"} ELSE {})
  BY <1>1, <1>3 DEF Lost, Mistakes
<1> HIDE DEF B2
<1>6. Books(Holding({}, {}, {}, {}, B2), FALSE, devBound', faults')
  BY <1>5, GoneBooks
<1> QED BY <1>1, <1>4, <1>6

\* Once their conf devices are gone the queues have no driver.
LEMMA LeftoverFree == \A w \in Wqs : Leftover(q)[w].bound = "none"
  BY DEF Leftover, NoQueue

LEMMA ExitBooks ==
  ASSUME Books(s, present, devBound, faults), Portals,
         {present, devBound} \subseteq BOOLEAN, IdxdExitModule
  PROVE  Books(s', present', devBound', faults')
<1> DEFINE free == UnmapPortals(s, q, Bound(q))
           idle == IF devBound THEN DrvRemove(free) ELSE free
           none == Leftover(q)
<1>1. /\ present' = FALSE /\ devBound' = FALSE /\ faults' = faults
      /\ s' = IF present THEN Remove(idle, none, FALSE) ELSE s
  BY DEF IdxdExitModule, Absent
<1>2. CASE present
  <2>1. Books(s, TRUE, devBound, faults)
    BY <1>2 DEF Books
  <2> PICK M, P : \E B \in SUBSET Mistakes :
               /\ s = Holding(M, P, Confs, Confs, B) /\ Complete(M, P, devBound)
               /\ faults \cap Lost = {} /\ ("halt" \notin faults => B = {})
    BY <2>1, TakeHere
  <2> PICK B \in SUBSET Mistakes :
               /\ s = Holding(M, P, Confs, Confs, B) /\ Complete(M, P, devBound)
               /\ faults \cap Lost = {} /\ ("halt" \notin faults => B = {})
    OBVIOUS
  <2> DEFINE L == LostPortal(q, Bound(q))
             B1 == B \cup L
             B2 == B1 \cup LostPortal(none, Bound(none)) \cup (IF FALSE THEN {"freed_wq"} ELSE {})
             M1 == M \ DriverHeld
  <2>2. L \in SUBSET Mistakes /\ ("halt" \notin faults => L = {})
    BY DEF LostPortal, Mistakes, Bound, Portals
  <2>3. LostPortal(none, Bound(none)) = {}
    BY LeftoverFree DEF LostPortal, Bound
  <2> HIDE DEF L
  <2>4. free = Holding(M, P, Confs, Confs, B1)
    BY UnmapHolding DEF L
  <2>5. B1 \in SUBSET Mistakes /\ ("halt" \notin faults => B1 = {}) /\ B2 = B1
    BY <2>2, <2>3
  <2> HIDE DEF B1, B2, free
  <2>6. \E N : idle = Holding(N, P, Confs, Confs, B1) /\ Complete(N, P, FALSE)
    <3>1. CASE devBound
      <4>1. DriverHeld \subseteq M /\ Complete(M1, P, FALSE)
        BY <3>1 DEF Complete, Core, DriverHeld, Arrays
      <4>2. DrvRemove(free) = Holding(M1, P, Confs, Confs, B1)
        BY <2>4, <4>1, DrvRemoveHolding
      <4> HIDE DEF M1
      <4> QED BY <3>1, <4>1, <4>2
    <3>2. CASE ~devBound
      <4>1. Complete(M, P, FALSE)
        BY <3>2 DEF Complete
      <4> QED BY <3>2, <2>4, <4>1
    <3> QED BY <3>1, <3>2
  <2> HIDE DEF idle, none
  <2> PICK N : idle = Holding(N, P, Confs, Confs, B1) /\ Complete(N, P, FALSE)
    BY <2>6
  <2> DEFINE no == FALSE
  <2>10. no \in BOOLEAN /\ no = FALSE
    OBVIOUS
  <2> HIDE DEF no
  <2>11. Remove(Holding(N, P, Confs, Confs, B1), none, no)
           = Holding({}, {}, {}, {}, B1 \cup LostPortal(none, Bound(none))
                                        \cup (IF no THEN {"freed_wq"} ELSE {}))
    <3>1. Complete(N, P, no)
      BY <2>10 DEF Complete
    <3> QED BY <2>10, <3>1, RemoveHolding
  <2>12. B1 \cup LostPortal(none, Bound(none)) \cup (IF no THEN {"freed_wq"} ELSE {}) = B2
    BY <2>10 DEF B2
  <2>7. s' = Holding({}, {}, {}, {}, B2)
    BY <1>1, <1>2, <2>10, <2>11, <2>12
  <2>8. /\ B2 \in SUBSET Mistakes /\ {} \in SUBSET Resources
        /\ faults \cap Lost # {} => B2 # {}
        /\ faults \cap Lost = {} /\ "halt" \notin faults => B2 = {}
        /\ faults \cap Lost = {} => {} \subseteq (IF "alloc" \in faults THEN {"idxd"} ELSE {})
    BY <2>5
  <2>9. Books(Holding({}, {}, {}, {}, B2), FALSE, devBound', faults)
    BY <2>8, GoneBooks
  <2> QED BY <1>1, <2>7, <2>9
<1>3. CASE ~present
  <2>1. s' = s
    BY <1>1, <1>3
  <2>2. Books(s, FALSE, FALSE, faults)
    BY <1>3 DEF Books
  <2> QED BY <1>1, <2>1, <2>2
<1> QED BY <1>2, <1>3

-----------------------------------------------------------------------------
(* The queues.                                                              *)

\* QueuesBalanced and QueueInv on one queue.
QueueOk(x, halted, up) ==
  /\ x.bound = "none" => x.res \subseteq {"descs"} \cup (IF halted THEN {"irq"} ELSE {})
  /\ x.bound = "kernel" => {"irq", "descs", "ref", "front"} \subseteq x.res
  /\ x.bound = "user" => {"work", "ref", "front"} \subseteq x.res
  /\ x.bound # "none" /\ ~halted => "portal" \in x.res
  /\ ~halted => /\ x.bound # "none" => x.on /\ x.type = x.bound /\ up
                /\ x.bound = "user" => "irq" \notin x.res

Halted == "halt" \in faults

LEMMA QueuesAre ==
  QueuesBalanced /\ QueueInv <=> \A w \in Wqs : QueueOk(q[w], Halted, devUp)
  BY DEF QueuesBalanced, UnbindReleases, BoundComplete, QueueInv, QueueOk, Halted

LEMMA ClearedFields ==
  ASSUME NEW x \in QueueRecord
  PROVE  /\ Cleared(x) \in QueueRecord
         /\ Cleared(x).bound = x.bound /\ Cleared(x).res = x.res
  BY DEF Cleared, QueueRecord

\* drv_disable_wq
LEMMA DisableFields ==
  ASSUME NEW x \in QueueRecord
  PROVE  LET y == DrvDisableWq(x)
         IN  /\ y \in QueueRecord /\ y.bound = x.bound
             /\ y.res \subseteq x.res \ {"portal", "ref"}
             /\ x.type = "kernel" => y.res \subseteq x.res \ {"portal", "ref", "irq"}
<1> DEFINE type == IF x.on THEN "none" ELSE x.type
           R == {"portal", "ref"} \cup (IF x.type = "kernel" THEN {"irq"} ELSE {})
                  \cup (IF type = "kernel" THEN {"descs"} ELSE {})
           y == DrvDisableWq(x)
<1>1. y = [x EXCEPT !.type = "none", !.on = FALSE, !.res = x.res \ R]
  BY DEF DrvDisableWq
<1>2. /\ x.res \ R \subseteq x.res \ {"portal", "ref"}
      /\ x.type = "kernel" => x.res \ R \subseteq x.res \ {"portal", "ref", "irq"}
  OBVIOUS
<1>3. x.res \ R \in SUBSET {"portal", "irq", "descs", "ref", "front", "work"}
  BY DEF QueueRecord
<1> HIDE DEF y, R
<1>4. y \in QueueRecord /\ y.bound = x.bound /\ y.res = x.res \ R
  BY <1>1, <1>3 DEF QueueRecord
<1> QED BY <1>2, <1>4 DEF y

\* The remove functions of the queue drivers.
LEMMA RemoveFields ==
  ASSUME NEW x \in QueueRecord
  PROVE  LET y == WqDrvRemove(x)
         IN  /\ y \in QueueRecord /\ y.bound = "none"
             /\ y.res \subseteq x.res \ {"portal", "ref", "front", "work"}
             /\ x.type = "kernel" => "irq" \notin y.res
<1> DEFINE z == [x EXCEPT !.res = @ \ {"front", "work"}]
           d == DrvDisableWq(z)
           y == WqDrvRemove(x)
<1>1. z \in QueueRecord /\ z.res = x.res \ {"front", "work"} /\ z.type = x.type
  BY DEF QueueRecord
<1>2. y = [d EXCEPT !.bound = "none"]
  BY DEF WqDrvRemove
<1> HIDE DEF z
<1>3. /\ d \in QueueRecord /\ d.res \subseteq z.res \ {"portal", "ref"}
      /\ z.type = "kernel" => d.res \subseteq z.res \ {"portal", "ref", "irq"}
  BY <1>1, DisableFields
<1> HIDE DEF d, y
<1>4. y \in QueueRecord /\ y.bound = "none" /\ y.res = d.res
  BY <1>2, <1>3 DEF QueueRecord
<1> QED BY <1>1, <1>3, <1>4 DEF y

LEMMA RemoveOk ==
  ASSUME NEW x \in QueueRecord, NEW halted, NEW up, NEW up2, QueueOk(x, halted, up),
         x.bound # "none"
  PROVE  WqDrvRemove(x) \in QueueRecord /\ QueueOk(WqDrvRemove(x), halted, up2)
<1> DEFINE y == WqDrvRemove(x)
<1>1. /\ y \in QueueRecord /\ y.bound = "none"
      /\ y.res \subseteq x.res \ {"portal", "ref", "front", "work"}
      /\ x.type = "kernel" => "irq" \notin y.res
  BY RemoveFields
<1> HIDE DEF y
<1>2. x.res \subseteq {"portal", "irq", "descs", "ref", "front", "work"}
      /\ x.bound \in {"kernel", "user"}
  BY DEF QueueRecord
<1>3. y.res \subseteq {"descs", "irq"}
  BY <1>1, <1>2
<1>4. ~halted => "irq" \notin y.res
  BY <1>1, <1>2 DEF QueueOk
<1>5. QueueOk(y, halted, up2)
  BY <1>1, <1>3, <1>4 DEF QueueOk
<1> QED BY <1>1, <1>5 DEF y

\* A queue that is cleared under its driver, after a halt, or while unbound.
LEMMA ClearedOk ==
  ASSUME NEW x \in QueueRecord, NEW halted, NEW halted2, NEW up, NEW up2,
         QueueOk(x, halted, up), halted => halted2, x.bound = "none" \/ halted2
  PROVE  Cleared(x) \in QueueRecord /\ QueueOk(Cleared(x), halted2, up2)
<1> DEFINE y == Cleared(x)
<1>1. y \in QueueRecord /\ y.bound = x.bound /\ y.res = x.res
  BY ClearedFields
<1> HIDE DEF y
<1>2. QueueOk(y, halted2, up2)
  BY <1>1 DEF QueueOk
<1> QED BY <1>1, <1>2 DEF y

\* The probe functions of the queue drivers.
LEMMA WqProbeOk ==
  ASSUME NEW x \in QueueRecord, NEW halted, NEW up, QueueOk(x, halted, up), up,
         x.bound = "none", NEW type \in {"kernel", "user"}, NEW f,
         type = "kernel" /\ "irq" \in x.res => f \in {"enable", "portal", "irq"}
  PROVE  LET typed == [x EXCEPT !.type = type]
             u == DrvEnableWq(typed)
             full == [u EXCEPT !.bound = type,
                          !.res = @ \cup {"front"} \cup (IF type = "user" THEN {"work"} ELSE {})]
             y == CASE f = "none" -> full
                    [] f = "front" -> DrvDisableWq(u)
                    [] OTHER -> [x EXCEPT !.type = "none"]
         IN  y \in QueueRecord /\ QueueOk(y, halted, up)
<1> DEFINE typed == [x EXCEPT !.type = type]
           u == DrvEnableWq(typed)
           F == {"front"} \cup (IF type = "user" THEN {"work"} ELSE {})
           full == [u EXCEPT !.bound = type,
                        !.res = @ \cup {"front"} \cup (IF type = "user" THEN {"work"} ELSE {})]
           off == [x EXCEPT !.type = "none"]
           E == {"portal", "ref"} \cup (IF type = "kernel" THEN {"irq", "descs"} ELSE {})
           d == DrvDisableWq(u)
<1>1. typed \in QueueRecord /\ typed.type = type /\ typed.res = x.res /\ typed.bound = "none"
  BY DEF QueueRecord
<1>2. off \in QueueRecord /\ off.res = x.res /\ off.bound = "none"
  BY DEF QueueRecord
<1>3. u = [typed EXCEPT !.on = TRUE, !.res = @ \cup {"portal", "ref"}
                     \cup (IF typed.type = "kernel" THEN {"irq", "descs"} ELSE {})]
  BY DEF DrvEnableWq
<1> HIDE DEF typed, u
<1>4. u = [typed EXCEPT !.on = TRUE, !.res = typed.res \cup E]
  <2>1. typed.res \cup {"portal", "ref"} \cup (IF typed.type = "kernel" THEN {"irq", "descs"} ELSE {})
          = typed.res \cup E
    BY <1>1
  <2> HIDE DEF E
  <2> QED BY <1>3, <2>1
<1>5. E \subseteq {"portal", "irq", "descs", "ref", "front", "work"}
  OBVIOUS
<1>6. full = [u EXCEPT !.bound = type, !.res = u.res \cup F]
  OBVIOUS
<1>7. F \subseteq {"portal", "irq", "descs", "ref", "front", "work"}
  OBVIOUS
<1> HIDE DEF E, F, full, off, d
<1>8. u \in QueueRecord /\ u.type = type /\ u.res = x.res \cup E /\ u.bound = "none" /\ u.on
  BY <1>1, <1>4, <1>5 DEF QueueRecord
<1>9. /\ full \in QueueRecord /\ full.bound = type /\ full.res = (x.res \cup E) \cup F
      /\ full.type = type /\ full.on
  BY <1>6, <1>7, <1>8 DEF QueueRecord
<1>10. x.res \subseteq {"descs"} \cup (IF halted THEN {"irq"} ELSE {})
  BY DEF QueueOk
<1>11. QueueOk(off, halted, up)
  BY <1>2, <1>10 DEF QueueOk
<1>12. CASE f = "none"
  <2>1. type = "kernel" => {"portal", "irq", "descs", "ref", "front"} \subseteq full.res
    BY <1>9 DEF E, F
  <2>2. type = "user" => /\ {"portal", "work", "ref", "front"} \subseteq full.res
                         /\ ~halted => "irq" \notin full.res
    BY <1>9, <1>10 DEF E, F
  <2>3. QueueOk(full, halted, up)
    BY <1>9, <2>1, <2>2 DEF QueueOk
  <2> QED BY <1>9, <1>12, <2>3 DEF full, u, typed
<1>13. CASE f = "front"
  <2>1. /\ d \in QueueRecord /\ d.bound = "none" /\ d.res \subseteq u.res \ {"portal", "ref"}
        /\ type = "kernel" => d.res \subseteq u.res \ {"portal", "ref", "irq"}
    BY <1>8, DisableFields DEF d
  <2>2. d.res \subseteq {"descs"} \cup (IF halted THEN {"irq"} ELSE {})
    BY <1>8, <1>10, <2>1 DEF E
  <2>3. QueueOk(d, halted, up)
    BY <2>1, <2>2 DEF QueueOk
  <2> QED BY <1>13, <2>1, <2>3 DEF d, u, typed
<1>14. CASE f \notin {"none", "front"}
  BY <1>2, <1>11, <1>14 DEF off
<1> QED BY <1>12, <1>13, <1>14

-----------------------------------------------------------------------------
(* The inductive invariant, in the form in which the steps keep it.         *)

Typed ==
  /\ services \subseteq {LoadOrder[j] : j \in DOMAIN LoadOrder} \cup {"perfmon"}
  /\ "pci" \in services \/ services \subseteq {"perfmon"}
  /\ present \in BOOLEAN /\ devUp \in BOOLEAN /\ devBound \in BOOLEAN
  /\ faults \subseteq {"register", "alloc", "enable_map", "remove_bound", "halt"}

Queues == q \in [Wqs -> QueueRecord] /\ \A w \in Wqs : QueueOk(q[w], Halted, devUp)

Away ==
  /\ ~present => ~devUp /\ ~devBound /\ \A w \in Wqs : q[w].bound = "none"
  /\ devUp => devBound

Parts == Typed /\ Books(s, present, devBound, faults) /\ Queues /\ Away

LEMMA LifeParts == LifeInv <=> Parts
<1> DEFINE R == "register" \notin faults => \A c \in Confs : s.refs[c] \in 0 .. 1
           Q == \A w \in Wqs : QueueOk(q[w], Halted, devUp)
           T == services \subseteq {LoadOrder[j] : j \in DOMAIN LoadOrder} \cup {"perfmon"}
           S == "pci" \in services \/ services \subseteq {"perfmon"}
           N == \A w \in Wqs : q[w].bound = "none"
<1>1. QueuesBalanced /\ QueueInv <=> Q
  BY QueuesAre
<1>2. (s \in HeldRecord /\ R /\ (~present => s.ptr = {}) /\ LostInv /\ HeldInv)
        <=> Books(s, present, devBound, faults)
  BY BooksAre
<1>3. {present, devUp, devBound} \subseteq BOOLEAN
        <=> present \in BOOLEAN /\ devUp \in BOOLEAN /\ devBound \in BOOLEAN
  OBVIOUS
<1>4. TypeOK <=> /\ T /\ {present, devUp, devBound} \subseteq BOOLEAN /\ s \in HeldRecord /\ R
                 /\ q \in [Wqs -> QueueRecord]
                 /\ faults \subseteq {"register", "alloc", "enable_map", "remove_bound", "halt"}
  BY DEF TypeOK
<1>5. AbsentInv <=> /\ ~present => ~devUp /\ ~devBound /\ s.ptr = {} /\ N
                    /\ devUp => devBound
  BY DEF AbsentInv
<1>6. Typed <=> /\ T /\ S /\ present \in BOOLEAN /\ devUp \in BOOLEAN /\ devBound \in BOOLEAN
                /\ faults \subseteq {"register", "alloc", "enable_map", "remove_bound", "halt"}
  BY DEF Typed
<1>7. Queues <=> q \in [Wqs -> QueueRecord] /\ Q
  BY DEF Queues
<1>8. Away <=> /\ ~present => ~devUp /\ ~devBound /\ N
               /\ devUp => devBound
  BY DEF Away
<1>9. LifeInv <=> TypeOK /\ AbsentInv /\ LostInv /\ HeldInv /\ QueueInv /\ QueuesBalanced /\ S
  BY DEF LifeInv
<1> HIDE DEF R, Q, T, S, N
<1> QED BY <1>1, <1>2, <1>3, <1>4, <1>5, <1>6, <1>7, <1>8, <1>9 DEF Parts

LEMMA NoQueueOk ==
  ASSUME NEW halted, NEW up
  PROVE  NoQueue \in QueueRecord /\ QueueOk(NoQueue, halted, up)
  BY DEF NoQueue, QueueRecord, QueueOk

\* What a queue keeps when its conf device goes.
LEMMA LeftoverOk ==
  ASSUME NEW x \in QueueRecord, NEW halted, NEW up, QueueOk(x, halted, up), x.bound = "none"
  PROVE  LET y == [NoQueue EXCEPT !.res = x.res]
         IN  y \in QueueRecord /\ QueueOk(y, halted, FALSE) /\ y.bound = "none"
<1> DEFINE y == [NoQueue EXCEPT !.res = x.res]
<1>1. NoQueue \in QueueRecord /\ NoQueue.bound = "none"
  BY NoQueueOk DEF NoQueue
<1>2. y \in QueueRecord /\ y.bound = "none" /\ y.res = x.res
  BY <1>1 DEF QueueRecord
<1> HIDE DEF y
<1>3. QueueOk(y, halted, FALSE)
  BY <1>2 DEF QueueOk
<1> QED BY <1>2, <1>3 DEF y

LEMMA PartsInit == Init => Parts
<1> SUFFICES ASSUME Init PROVE Parts
  OBVIOUS
<1>1. s = Holding({}, {}, {}, {}, {})
  BY DEF Init, NoState, Holding
<1>2. present = FALSE /\ devBound = FALSE /\ devUp = FALSE /\ faults = {} /\ services = {}
      /\ q = [w \in Wqs |-> NoQueue]
  BY DEF Init
<1>3. {} \in SUBSET Resources /\ {} \in SUBSET Mistakes
  OBVIOUS
<1>4. Books(Holding({}, {}, {}, {}, {}), FALSE, FALSE, {})
  BY <1>3, GoneBooks
<1>5. Queues
  BY <1>2, NoQueueOk DEF Queues
<1>6. Typed
  BY <1>2 DEF Typed
<1>7. Away
  BY <1>2 DEF Away, NoQueue
<1> QED BY <1>1, <1>2, <1>4, <1>5, <1>6, <1>7 DEF Parts

LEMMA PartsPortals ==
  ASSUME Queues
  PROVE  Portals
  BY DEF Queues, Portals, QueueOk, Halted

LEMMA HaltBooks ==
  ASSUME NEW x, NEW here, NEW bound, NEW flt, Books(x, here, bound, flt)
  PROVE  Books(x, here, bound, flt \cup {"halt"})
<1>1. (flt \cup {"halt"}) \cap Lost = flt \cap Lost
      /\ ("register" \in flt \cup {"halt"} <=> "register" \in flt)
      /\ ("alloc" \in flt \cup {"halt"} <=> "alloc" \in flt)
  BY DEF Lost
<1> QED BY <1>1 DEF Books, Gone

LEMMA LoadOrderEnds == Len(LoadOrder) = 6 /\ LoadOrder[6] = "pci" /\ 6 \in DOMAIN LoadOrder
  BY DEF LoadOrder

-----------------------------------------------------------------------------
(* One lemma for each action.                                               *)

\* The labels give back what was registered before the call that fails.
LEMMA UnwindsAll ==
  ASSUME NEW k \in 1 .. Len(LoadOrder)
  PROVE  {LoadOrder[j] : j \in 1 .. k - 1} \ Unwound(k) = {}
<1>1. ASSUME NEW j \in 1 .. k - 1
      PROVE  LoadOrder[j] \in Unwound(k)
  <2>1. j + 1 \in 1 .. k /\ j \in 1 .. 5
    BY <1>1, LoadOrderEnds
  <2>2. LoadOrder[j] \in Label[j + 1]
    BY <2>1 DEF LoadOrder, Label
  <2> QED BY <2>1, <2>2 DEF Unwound
<1> QED BY <1>1

LEMMA StepInitModule ==
  ASSUME Parts, NEW k \in 1 .. Len(LoadOrder) + 1, IdxdInitModule(k)
  PROVE  Parts'
<1>1. UNCHANGED <<present, s, devUp, devBound, q, faults>>
  BY DEF IdxdInitModule
<1>2. services' = {"perfmon"} \/ services' = {"perfmon"} \cup {LoadOrder[j] : j \in DOMAIN LoadOrder}
  <2>1. k <= Len(LoadOrder) => {LoadOrder[j] : j \in 1 .. k - 1} \ Unwound(k) = {}
    BY UnwindsAll, LoadOrderEnds
  <2> QED BY <2>1, LoadOrderEnds DEF IdxdInitModule
<1>3. "pci" \in {LoadOrder[j] : j \in DOMAIN LoadOrder}
  BY LoadOrderEnds
<1>4. Typed'
  BY <1>1, <1>2, <1>3 DEF Parts, Typed
<1>5. Books(s, present, devBound, faults)'
  BY <1>1 DEF Parts
<1>6. Queues' /\ Away'
  BY <1>1 DEF Parts, Queues, Away, Halted
<1> QED BY <1>4, <1>5, <1>6 DEF Parts

LEMMA StepPciProbe ==
  ASSUME Parts, NEW f \in Failures, NEW options \in SUBSET {"sva", "pasid", "pmu", "debugfs"},
         IdxdPciProbe(f, options)
  PROVE  Parts'
<1>1. /\ ~present /\ UNCHANGED <<services, devUp, devBound>>
      /\ q' = IF f[1] = "none" THEN [w \in Wqs |-> NoQueue] ELSE q
      /\ present' \in BOOLEAN /\ faults' = faults \cup LosesTrack(f)
  BY DEF IdxdPciProbe
<1>2. ~devBound /\ ~devUp /\ \A w \in Wqs : q[w].bound = "none"
  BY <1>1 DEF Parts, Away
<1>3. Books(s', present', devBound', faults')
  BY <1>2, ProbeBooks DEF Parts
<1>4. LosesTrack(f) \subseteq {"register", "alloc", "enable_map"}
  BY DEF LosesTrack
<1>5. Typed'
  BY <1>1, <1>4 DEF Parts, Typed
<1>6. Halted' = Halted /\ devUp' = devUp
  BY <1>1, <1>4 DEF Halted
<1>7. ASSUME NEW w \in Wqs
      PROVE  q'[w] \in QueueRecord /\ QueueOk(q'[w], Halted, devUp) /\ q'[w].bound = "none"
  <2>1. q[w] \in QueueRecord /\ QueueOk(q[w], Halted, devUp)
    BY DEF Parts, Queues
  <2>2. NoQueue \in QueueRecord /\ QueueOk(NoQueue, Halted, devUp) /\ NoQueue.bound = "none"
    BY NoQueueOk DEF NoQueue
  <2> QED BY <1>1, <1>2, <2>1, <2>2
<1>8. q' \in [Wqs -> QueueRecord]
  BY <1>1, <1>7 DEF Parts, Queues
<1>9. Queues'
  BY <1>6, <1>7, <1>8 DEF Queues
<1>10. Away'
  BY <1>1, <1>2, <1>7 DEF Away
<1> QED BY <1>3, <1>5, <1>9, <1>10 DEF Parts

LEMMA StepDrvProbe ==
  ASSUME Parts, NEW f, DeviceDrvProbe(f)
  PROVE  Parts'
<1>1. /\ present /\ present' = present /\ ~devBound /\ ~devUp /\ UNCHANGED <<services, faults>>
      /\ devUp' = (f = "none") /\ devBound' = (f = "none")
      /\ q' = IF f = "dma" THEN [w \in Wqs |-> Cleared(q[w])] ELSE q
  BY DEF DeviceDrvProbe
<1>2. Books(s', present', devBound', faults')
  BY DrvProbeBooks DEF Parts
<1>3. Typed'
  BY <1>1 DEF Parts, Typed
<1>4. Away'
  BY <1>1 DEF Away
<1>5. ASSUME NEW w \in Wqs
      PROVE  q'[w] \in QueueRecord /\ QueueOk(q'[w], Halted, devUp')
  <2>1. q[w] \in QueueRecord /\ QueueOk(q[w], Halted, devUp)
    BY DEF Parts, Queues
  <2>2. ~Halted => q[w].bound = "none"
    BY <1>1, <2>1 DEF QueueOk
  <2>3. QueueOk(q[w], Halted, devUp')
    BY <1>1, <2>1, <2>2 DEF QueueOk
  <2>4. Cleared(q[w]) \in QueueRecord /\ QueueOk(Cleared(q[w]), Halted, devUp')
    BY <2>1, <2>2, ClearedOk
  <2> QED BY <1>1, <2>1, <2>3, <2>4
<1>6. q' \in [Wqs -> QueueRecord]
  BY <1>1, <1>5 DEF Parts, Queues
<1>7. Queues'
  BY <1>1, <1>5, <1>6 DEF Queues, Halted
<1> QED BY <1>2, <1>3, <1>4, <1>7 DEF Parts

LEMMA StepWqProbe ==
  ASSUME Parts, NEW w \in Wqs, NEW type \in {"kernel", "user"}, NEW f, WqDrvProbe(w, type, f)
  PROVE  Parts'
<1> DEFINE typed == [q[w] EXCEPT !.type = type]
           u == DrvEnableWq(typed)
           full == [u EXCEPT !.bound = type,
                        !.res = @ \cup {"front"} \cup (IF type = "user" THEN {"work"} ELSE {})]
           y == CASE f = "none" -> full
                  [] f = "front" -> DrvDisableWq(u)
                  [] OTHER -> [q[w] EXCEPT !.type = "none"]
<1>1. /\ devUp /\ q[w].bound = "none" /\ q' = [q EXCEPT ![w] = y]
      /\ type = "kernel" /\ "irq" \in q[w].res => f \in {"enable", "portal", "irq"}
      /\ UNCHANGED <<services, present, s, devUp, devBound, faults>>
  BY DEF WqDrvProbe
<1>2. q \in [Wqs -> QueueRecord] /\ \A v \in Wqs : QueueOk(q[v], Halted, devUp)
  BY SMTT(30) DEF Parts, Queues
<1>3. y \in QueueRecord /\ QueueOk(y, Halted, devUp)
  BY <1>1, <1>2, WqProbeOk
<1> HIDE DEF y
<1>4. q' \in [Wqs -> QueueRecord] /\ \A v \in Wqs : QueueOk(q'[v], Halted, devUp)
  BY <1>1, <1>2, <1>3
<1>5. Queues'
  BY <1>1, <1>4 DEF Queues, Halted
<1>6. Typed' /\ Books(s, present, devBound, faults)'
  BY <1>1 DEF Parts, Typed
<1>7. Away'
  BY <1>1 DEF Parts, Away
<1> QED BY <1>5, <1>6, <1>7 DEF Parts

LEMMA StepWqUnbind ==
  ASSUME Parts, NEW w \in Wqs, WqUnbind(w)
  PROVE  Parts'
<1>1. /\ q[w].bound # "none" /\ q' = [q EXCEPT ![w] = WqDrvRemove(q[w])]
      /\ s' = UnmapPortals(s, q, {w})
      /\ UNCHANGED <<services, present, devUp, devBound, faults>>
  BY DEF WqUnbind
<1>2. q \in [Wqs -> QueueRecord] /\ \A v \in Wqs : QueueOk(q[v], Halted, devUp)
  BY DEF Parts, Queues
<1>3. WqDrvRemove(q[w]) \in QueueRecord /\ QueueOk(WqDrvRemove(q[w]), Halted, devUp)
  BY <1>1, <1>2, RemoveOk
<1>4. q' \in [Wqs -> QueueRecord] /\ \A v \in Wqs : QueueOk(q'[v], Halted, devUp)
  BY <1>1, <1>2, <1>3
<1>5. Queues'
  BY <1>1, <1>4 DEF Queues, Halted
<1>6. present = TRUE
  <2>1. present
    BY <1>1 DEF Parts, Away
  <2> QED BY <2>1 DEF Parts, Typed
<1>7. "halt" \notin faults => "portal" \in q[w].res
  BY <1>1, PartsPortals DEF Parts, Portals
<1>8. Books(s', present', devBound', faults')
  BY <1>1, <1>6, <1>7, UnbindBooks DEF Parts
<1>9. Typed' /\ Away'
  BY <1>1, <1>6 DEF Parts, Typed, Away
<1> QED BY <1>5, <1>8, <1>9 DEF Parts

LEMMA StepDrvRemove ==
  ASSUME Parts, DeviceDrvRemove
  PROVE  Parts'
<1>1. /\ present /\ present' = present /\ devBound' = FALSE /\ devUp' = FALSE
      /\ q' = DrvRemoveQueues(q) /\ UNCHANGED <<services, faults>>
  BY DEF DeviceDrvRemove
<1>2. present = TRUE
  BY <1>1 DEF Parts, Typed
<1>3. Books(s', present', devBound', faults')
  BY <1>2, DrvRemoveBooks DEF Parts
<1>4. Typed' /\ Away'
  BY <1>1 DEF Parts, Typed, Away
<1>5. ASSUME NEW w \in Wqs
      PROVE  q'[w] \in QueueRecord /\ QueueOk(q'[w], Halted, devUp')
  <2>1. q[w] \in QueueRecord /\ QueueOk(q[w], Halted, devUp)
    BY DEF Parts, Queues
  <2>2. q'[w] = Cleared(IF q[w].on THEN WqDrvRemove(q[w]) ELSE q[w])
    BY <1>1 DEF DrvRemoveQueues
  <2>3. CASE q[w].on /\ q[w].bound # "none"
    <3>1. WqDrvRemove(q[w]) \in QueueRecord /\ QueueOk(WqDrvRemove(q[w]), Halted, devUp')
      BY <2>1, <2>3, RemoveOk
    <3>2. WqDrvRemove(q[w]).bound = "none"
      BY <2>1, RemoveFields
    <3> QED BY <2>2, <2>3, <3>1, <3>2, ClearedOk
  <2>4. CASE q[w].on /\ q[w].bound = "none"
    <3> DEFINE y == WqDrvRemove(q[w])
    <3>1. y \in QueueRecord /\ y.bound = "none" /\ y.res \subseteq q[w].res
      BY <2>1, RemoveFields
    <3> HIDE DEF y
    <3>2. QueueOk(y, Halted, devUp')
      BY <2>1, <2>4, <3>1 DEF QueueOk
    <3>3. q'[w] = Cleared(y)
      BY <2>2, <2>4 DEF y
    <3> QED BY <3>1, <3>2, <3>3, ClearedOk
  <2>5. CASE ~q[w].on
    <3>1. q[w].bound = "none" \/ Halted
      BY <2>1, <2>5 DEF QueueOk
    <3> QED BY <2>1, <2>2, <2>5, <3>1, ClearedOk
  <2> QED BY <2>3, <2>4, <2>5
<1>6. q' \in [Wqs -> QueueRecord]
  BY <1>1, <1>5 DEF DrvRemoveQueues
<1>7. Queues'
  BY <1>1, <1>5, <1>6 DEF Queues, Halted
<1> QED BY <1>3, <1>4, <1>7 DEF Parts

\* A halt, with the portals unmapped or not.
LEMMA HaltQueue ==
  ASSUME NEW x \in QueueRecord, NEW halted, NEW up, QueueOk(x, halted, up), NEW up2,
         NEW R \in SUBSET {"portal"}
  PROVE  LET y == [Cleared(x) EXCEPT !.res = @ \ R]
         IN  y \in QueueRecord /\ QueueOk(y, TRUE, up2)
<1> DEFINE z == Cleared(x)
           y == [z EXCEPT !.res = @ \ R]
<1>1. z \in QueueRecord /\ z.bound = x.bound /\ z.res = x.res
  BY ClearedFields
<1> HIDE DEF z
<1>2. y \in QueueRecord /\ y.bound = x.bound /\ y.res = x.res \ R
  BY <1>1 DEF QueueRecord
<1> HIDE DEF y
<1>3. QueueOk(y, TRUE, up2)
  BY <1>2 DEF QueueOk
<1> QED BY <1>2, <1>3 DEF y, z

LEMMA StepHalt ==
  ASSUME Parts, devUp, devUp' = FALSE, faults' = faults \cup {"halt"},
         UNCHANGED <<services, present, s, devBound>>,
         NEW R \in SUBSET {"portal"},
         q' = [w \in Wqs |-> [Cleared(q[w]) EXCEPT !.res = @ \ R]]
  PROVE  Parts'
<1>1. Books(s', present', devBound', faults')
  BY HaltBooks DEF Parts
<1>2. present
  BY DEF Parts, Away
<1>3. Typed' /\ Away'
  BY <1>2 DEF Parts, Typed, Away
<1>4. ASSUME NEW w \in Wqs
      PROVE  q'[w] \in QueueRecord /\ QueueOk(q'[w], TRUE, devUp')
  <2>1. q[w] \in QueueRecord /\ QueueOk(q[w], Halted, devUp)
    BY DEF Parts, Queues
  <2> DEFINE y == [Cleared(q[w]) EXCEPT !.res = @ \ R]
  <2>2. y \in QueueRecord /\ QueueOk(y, TRUE, devUp')
    BY <2>1, HaltQueue
  <2>3. q'[w] = y
    OBVIOUS
  <2> HIDE DEF y
  <2> QED BY <2>2, <2>3
<1>5. q' \in [Wqs -> QueueRecord]
  BY <1>4
<1>6. Halted' = TRUE
  BY DEF Halted
<1>7. Queues'
  BY <1>4, <1>5, <1>6 DEF Queues
<1> QED BY <1>1, <1>3, <1>7 DEF Parts

LEMMA StepMiscHalt ==
  ASSUME Parts, MiscHaltOther
  PROVE  Parts'
<1> DEFINE R == {"portal"}
<1>1. R \in SUBSET {"portal"}
  OBVIOUS
<1>2. /\ devUp /\ devUp' = FALSE /\ faults' = faults \cup {"halt"}
      /\ UNCHANGED <<services, present, s, devBound>>
      /\ q' = [w \in Wqs |-> [Cleared(q[w]) EXCEPT !.res = @ \ R]]
  BY DEF MiscHaltOther
<1> HIDE DEF R
<1> QED BY <1>1, <1>2, StepHalt

LEMMA StepReinit ==
  ASSUME Parts, DeviceReinit
  PROVE  Parts'
<1> DEFINE R == {}
<1>1. R \in SUBSET {"portal"}
  OBVIOUS
<1>2. /\ devUp /\ devUp' = FALSE /\ faults' = faults \cup {"halt"}
      /\ UNCHANGED <<services, present, s, devBound>>
      /\ q' = [w \in Wqs |-> Cleared(q[w])]
  BY DEF DeviceReinit
<1>3. \A w \in Wqs : Cleared(q[w]) = [Cleared(q[w]) EXCEPT !.res = @ \ R]
  <2> TAKE w \in Wqs
  <2> DEFINE x == Cleared(q[w])
  <2>1. q[w] \in QueueRecord
    BY DEF Parts, Queues
  <2>2. x \in QueueRecord
    BY <2>1, ClearedFields
  <2> HIDE DEF x
  <2>3. x = [x EXCEPT !.res = @ \ R]
    BY <2>2 DEF QueueRecord
  <2> QED BY <2>3 DEF x
<1>4. q' = [w \in Wqs |-> [Cleared(q[w]) EXCEPT !.res = @ \ R]]
  BY <1>2, <1>3
<1> HIDE DEF R
<1> QED BY <1>1, <1>2, <1>4, StepHalt

\* The device is gone, and the drivers of its queues with it; what they did not
\* give back stays with the queues.
LEMMA AbsentParts ==
  ASSUME Parts, Absent, Halted' = Halted
  PROVE  /\ Queues' /\ Away'
         /\ present' \in BOOLEAN /\ devUp' \in BOOLEAN /\ devBound' \in BOOLEAN
<1>1. present' = FALSE /\ devUp' = FALSE /\ devBound' = FALSE /\ q' = Leftover(q)
  BY DEF Absent
<1>2. ASSUME NEW w \in Wqs
      PROVE  q'[w] \in QueueRecord /\ QueueOk(q'[w], Halted, FALSE) /\ q'[w].bound = "none"
  <2> DEFINE R == IF q[w].bound = "none" THEN q[w].res ELSE WqDrvRemove(q[w]).res
  <2>1. q[w] \in QueueRecord /\ QueueOk(q[w], Halted, devUp)
    BY DEF Parts, Queues
  <2>2. CASE q[w].bound = "none"
    <3>1. R = q[w].res
      BY <2>2
    <3> QED BY <1>1, <2>1, <2>2, <3>1, LeftoverOk DEF Leftover
  <2>3. CASE q[w].bound # "none"
    <3> DEFINE y == WqDrvRemove(q[w])
    <3>1. /\ y \in QueueRecord /\ QueueOk(y, Halted, FALSE)
          /\ y.bound = "none"
      BY <2>1, <2>3, RemoveOk, RemoveFields
    <3>2. q'[w] = [NoQueue EXCEPT !.res = y.res]
      BY <1>1, <2>3 DEF Leftover
    <3> HIDE DEF y
    <3> QED BY <3>1, <3>2, LeftoverOk
  <2> QED BY <2>2, <2>3
<1>3. q' \in [Wqs -> QueueRecord]
  BY <1>1, <1>2 DEF Leftover
<1>4. Queues'
  BY <1>1, <1>2, <1>3 DEF Queues
<1> QED BY <1>1, <1>2, <1>4 DEF Away

LEMMA StepRemove ==
  ASSUME Parts, IdxdRemove
  PROVE  Parts'
<1>1. /\ Absent /\ UNCHANGED services
      /\ faults' = faults \cup (IF devBound THEN {"remove_bound"} ELSE {})
  BY DEF IdxdRemove
<1>2. Books(s', present', devBound', faults')
  BY PartsPortals, RemoveBooks DEF Parts, Typed
<1>3. Halted' = Halted
  BY <1>1 DEF Halted
<1>4. Typed'
  BY <1>1, <1>3, AbsentParts DEF Parts, Typed
<1> QED BY <1>1, <1>2, <1>3, <1>4, AbsentParts DEF Parts

\* The unload gives back every service the load can have registered.
LEMMA ExitsAll ==
  ASSUME NEW S, S \subseteq {LoadOrder[j] : j \in DOMAIN LoadOrder} \cup {"perfmon"}
  PROVE  S \ {ExitOrder[j] : j \in DOMAIN ExitOrder} = {}
<1>1. DOMAIN LoadOrder = 1 .. 6 /\ DOMAIN ExitOrder = 1 .. 7
  BY DEF LoadOrder, ExitOrder
<1>2. ASSUME NEW j \in 1 .. 6
      PROVE  LoadOrder[j] \in {ExitOrder[i] : i \in 1 .. 7}
  <2>1. /\ ExitOrder[1] = "user_drv" /\ ExitOrder[2] = "dmaengine_drv"
        /\ ExitOrder[3] = "idxd_drv" /\ ExitOrder[4] = "pci" /\ ExitOrder[5] = "cdev"
        /\ ExitOrder[7] = "debugfs"
    BY DEF ExitOrder
  <2>2. LoadOrder[j] \in {"idxd_drv", "dmaengine_drv", "user_drv", "cdev", "debugfs", "pci"}
    BY DEF LoadOrder
  <2> QED BY <2>1, <2>2
<1>3. "perfmon" \in {ExitOrder[i] : i \in 1 .. 7}
  <2>1. ExitOrder[6] = "perfmon"
    BY DEF ExitOrder
  <2> QED BY <2>1
<1> QED BY <1>1, <1>2, <1>3

LEMMA StepExitModule ==
  ASSUME Parts, IdxdExitModule
  PROVE  Parts'
<1>1. Absent /\ faults' = faults
      /\ services' = services \ {ExitOrder[j] : j \in DOMAIN ExitOrder}
  BY DEF IdxdExitModule
<1>2. Books(s', present', devBound', faults')
  BY PartsPortals, ExitBooks DEF Parts, Typed
<1>3. Halted' = Halted /\ services' = {}
  BY <1>1, ExitsAll DEF Halted, Parts, Typed
<1>4. Typed'
  BY <1>1, <1>3, AbsentParts DEF Parts, Typed
<1> QED BY <1>1, <1>2, <1>3, <1>4, AbsentParts DEF Parts

LEMMA PartsNext == Parts /\ [Next]_vars => Parts'
<1> SUFFICES ASSUME Parts, [Next]_vars PROVE Parts'
  OBVIOUS
<1>1. CASE \E k \in 1 .. Len(LoadOrder) + 1 : IdxdInitModule(k)
  BY <1>1, StepInitModule
<1>2. CASE \E f \in Failures, options \in SUBSET {"sva", "pasid", "pmu", "debugfs"} :
              IdxdPciProbe(f, options)
  BY <1>2, StepPciProbe
<1>3. CASE \E f \in {"none", "evl_log", "enable", "dma"} : DeviceDrvProbe(f)
  BY <1>3, StepDrvProbe
<1>4. CASE \E w \in Wqs, type \in {"kernel", "user"} :
              \E f \in WqFailures(type) : WqDrvProbe(w, type, f)
  BY <1>4, StepWqProbe
<1>5. CASE \E w \in Wqs : WqUnbind(w)
  BY <1>5, StepWqUnbind
<1>6. CASE DeviceDrvRemove
  BY <1>6, StepDrvRemove
<1>7. CASE MiscHaltOther
  BY <1>7, StepMiscHalt
<1>8. CASE DeviceReinit
  BY <1>8, StepReinit
<1>9. CASE IdxdRemove
  BY <1>9, StepRemove
<1>10. CASE IdxdExitModule
  BY <1>10, StepExitModule
<1>11. CASE UNCHANGED vars
  BY <1>11 DEF vars, Parts, Typed, Queues, Away, Halted
<1> QED BY <1>1, <1>2, <1>3, <1>4, <1>5, <1>6, <1>7, <1>8, <1>9, <1>10, <1>11 DEF Next

-----------------------------------------------------------------------------
(* The theorems.                                                            *)

\* Whichever call of a probe fails, and in whatever order device and queues are
\* bound, halted and removed, what the driver holds is known: the inductive
\* invariant of idxd_pci_probe, idxd_remove and the queue drivers.
THEOREM LifeInvHolds == Spec => []LifeInv
<1>1. Spec => []Parts
  BY PartsInit, PartsNext, PTL DEF Spec
<1> QED BY <1>1, LifeParts, PTL

\* A failed probe, a removal and an unload give back all that was acquired but
\* the descriptors of kernel queues and, after a halt, their interrupts, and
\* nothing is released twice, except after the failures that Balanced names
\* (idxd_pci_probe, idxd_cleanup, idxd_remove).
THEOREM BalancedHolds == Spec => []Balanced
<1>1. LifeInv => Balanced
  <2> SUFFICES ASSUME LifeInv PROVE Balanced
    OBVIOUS
  <2>1. TypeOK /\ ("pci" \in services \/ services \subseteq {"perfmon"})
    BY DEF LifeInv
  <2>2. Books(s, present, devBound, faults)
    BY LifeParts DEF Parts
  <2>3. ReleasedOnce
    <3> SUFFICES ASSUME faults \cap {"register", "enable_map", "remove_bound", "halt"} = {}
                 PROVE  s.bad = {}
      BY DEF ReleasedOnce
    <3>1. faults \cap Lost = {} /\ "halt" \notin faults
      BY DEF Lost
    <3> QED BY <2>2, <3>1 DEF Books
  <2>4. ASSUME ~present, faults \subseteq {"halt"}
        PROVE  s.mem = {} /\ s.reg = {} /\ \A c \in Confs : s.refs[c] = 0
    <3>1. faults \cap Lost = {} /\ "alloc" \notin faults
      BY <2>4 DEF Lost
    <3>2. Gone(s, faults)
      BY <2>2, <2>4, <3>1 DEF Books
    <3>3. s = Holding(s.mem, {}, {}, {}, s.bad) /\ s.mem = {}
      BY <3>1, <3>2 DEF Gone
    <3> DEFINE M == s.mem
               B == s.bad
    <3> HIDE DEF M, B
    <3>4. s = Holding(M, {}, {}, {}, B)
      BY <3>3 DEF M, B
    <3> QED BY <3>3, <3>4 DEF Holding
  <2>5. ASSUME ~present
        PROVE  \A w \in Wqs :
                 q[w].res \subseteq {"descs"} \cup (IF "halt" \in faults THEN {"irq"} ELSE {})
    <3>1. AbsentInv /\ UnbindReleases
      BY DEF LifeInv, QueuesBalanced
    <3> QED BY <2>5, <3>1 DEF AbsentInv, UnbindReleases
  <2>6. NothingLeftBehind
    BY <2>1, <2>4, <2>5 DEF NothingLeftBehind
  <2> QED BY <2>1, <2>3, <2>6 DEF Balanced
<1> QED BY <1>1, LifeInvHolds, PTL

\* A bound queue has all that its driver works with, only a halt takes its
\* portal away, and an unbound one holds nothing but the descriptors that are
\* never freed and, after a halt, its interrupt, whatever the order of probes,
\* removals and halts (drv_enable_wq, drv_disable_wq).
THEOREM QueuesBalancedHolds == Spec => []QueuesBalanced
<1>1. LifeInv => QueuesBalanced
  BY DEF LifeInv
<1> QED BY <1>1, LifeInvHolds, PTL
==============================================================================
