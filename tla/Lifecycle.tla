------------------------------ MODULE Lifecycle ------------------------------
(***************************************************************************)
(* What the idxd driver acquires and gives back: loading the module,       *)
(* probing and removing the PCI device (init.c, the registration code of   *)
(* sysfs.c), binding the device and its queues (device.c, dma.c, cdev.c)   *)
(* and a halt in between.  Every call that acquires something may fail,    *)
(* and the code then unwinds.                                              *)
(*                                                                         *)
(* The functions are sequential and run under the device lock of the       *)
(* driver core, so each is an operator on the record of what is held, with *)
(* the call that fails as a parameter, and a whole probe is one step.      *)
(***************************************************************************)
EXTENDS Integers, Sequences, FiniteSets

CONSTANTS NumWqs, NumEngines, NumGroups

ASSUME LifecycleParameters == {NumWqs, NumEngines, NumGroups} \subseteq Nat \ {0}

Wqs == {<<"wq", i>> : i \in 0 .. NumWqs - 1}
Engines == {<<"engine", i>> : i \in 0 .. NumEngines - 1}
Groups == {<<"group", i>> : i \in 0 .. NumGroups - 1}
Idxd == <<"idxd", 0>>
Confs == Wqs \cup Engines \cup Groups \cup {Idxd}

\* The first n conf devices of a kind.
FirstOf(kind, n) == {<<kind, i>> : i \in 0 .. n - 1}

\* What idxd_conf_device_release frees.
Arrays == {"wqs", "enable_map", "engines", "groups", "evl", "ida", "opcap", "idxd"}
Resources == Arrays \cup {"pci", "iomap", "sva", "pasid", "workqueue", "vectors",
                          "misc_irq", "pmu", "debugfs", "evl_log", "dma"}

\* The sub-drivers and services idxd_init_module registers, in order.
LoadOrder == <<"idxd_drv", "dmaengine_drv", "user_drv", "cdev", "debugfs", "pci">>

VARIABLES
    services,   \* what idxd_init_module has registered
    present,    \* has the probe of the PCI device succeeded?
    s,          \* what the driver holds for the device
    devUp,      \* idxd->state is IDXD_DEV_ENABLED
    devBound,   \* is the idxd driver bound?
    q,          \* the queues: driver, type, state and what they hold, or, with
                \* the device gone, what the last ones never gave back
    faults      \* the events after which the code is known to lose track

vars == <<services, present, s, devUp, devBound, q, faults>>

NoState == [mem |-> {}, ptr |-> {}, refs |-> [c \in Confs |-> 0], reg |-> {}, bad |-> {}]
NoQueue == [bound |-> "none", type |-> "none", on |-> FALSE, res |-> {}]

Init ==
    /\ services = {} /\ present = FALSE /\ s = NoState
    /\ devUp = FALSE /\ devBound = FALSE
    /\ q = [w \in Wqs |-> NoQueue] /\ faults = {}

-----------------------------------------------------------------------------
(* Acquiring and releasing.  bad collects what is released twice, freed    *)
(* while registered or used after it was freed.                            *)

Acquire(x, R) == [x EXCEPT !.mem = @ \cup R, !.ptr = @ \cup R]

\* kfree and its kin: the pointer stays.
Release(x, R) == [x EXCEPT !.mem = @ \ R, !.bad = @ \cup (R \ x.mem)]

\* device_initialize
Initialize(x, C) == [x EXCEPT !.refs = [c \in Confs |-> IF c \in C THEN 1 ELSE @[c]]]

\* put_device, for the conf devices C, and the release callbacks.
PutDevice(x, C) ==
    LET gone == {c \in C : x.refs[c] = 1}
        put == [x EXCEPT !.refs = [c \in Confs |-> IF c \in C THEN @[c] - 1 ELSE @[c]],
                         !.bad = @ \cup {c[1] : c \in {d \in C : x.refs[d] <= 0}}
                                   \cup {c[1] : c \in gone \cap x.reg}]
    IN  IF Idxd \in gone THEN Release(put, put.ptr \cap Arrays) ELSE put

DeviceDel(x, C) == [x EXCEPT !.reg = @ \ C, !.bad = @ \cup {c[1] : c \in C \ x.reg}]

DeviceUnregister(x, C) == PutDevice(DeviceDel(x, C), C)

-----------------------------------------------------------------------------
(* idxd_probe.  f is the call that fails.                                  *)

\* The array of a kind and its conf devices; the one that fails is put by
\* the loop or was not initialized.
Setup(x, f, array, kind, n) ==
    IF f = <<array, 0>> THEN x
    ELSE LET a == Acquire(x, {array})
             done == IF f[1] = kind THEN FirstOf(kind, f[2]) ELSE FirstOf(kind, n)
         IN  IF f[1] = kind THEN PutDevice(Initialize(a, done), done)
                            ELSE Initialize(a, done)

\* A missing enable map frees the array and leaves its pointer behind.
SetupWqs(x, f) ==
    IF f = <<"enable_map", 0>>
    THEN Release(Acquire(x, {"wqs"}), {"wqs"})
    ELSE Setup(IF f = <<"wqs", 0>> THEN x ELSE Acquire(x, {"enable_map"}),
               f, "wqs", "wq", NumWqs)

SetupEngines(x, f) == Setup(x, f, "engines", "engine", NumEngines)

SetupGroups(x, f) == Setup(x, f, "groups", "group", NumGroups)

InitEvl(x, f) == IF f = <<"evl", 0>> THEN x ELSE Acquire(x, {"evl"})

SetupInternals(x, f) ==
    LET a == SetupWqs(x, f) b == SetupEngines(a, f) c == SetupGroups(b, f)
        d == Acquire(c, {"workqueue"})
    IN  CASE f[1] \in {"wqs", "wq", "enable_map"} -> a
          [] f[1] \in {"engines", "engine"} -> PutDevice(b, Wqs)
          [] f[1] \in {"groups", "group"} -> PutDevice(c, Wqs \cup Engines)
          [] f[1] = "workqueue" -> PutDevice(c, Groups \cup Engines \cup Wqs)
          [] f[1] = "evl" -> PutDevice(Release(d, {"workqueue"}), Groups \cup Engines \cup Wqs)
          [] OTHER -> InitEvl(d, f)

CleanupInternals(x) ==
    Release(PutDevice(x, Groups \cup Engines \cup Wqs), {"workqueue"})

SetupInterrupts(x, f) ==
    IF f[1] \in {"vectors", "misc_irq"} THEN x ELSE Acquire(x, {"vectors", "misc_irq"})

CleanupInterrupts(x) == Release(x, {"misc_irq", "vectors"})

\* SVA, then the system PASID; either may be unavailable.
EnablePasid(x, options) == Acquire(x, options \cap {"sva", "pasid"})

DisablePasid(x) == Release(x, x.mem \cap {"pasid", "sva"})

InternalFailures == {"wqs", "enable_map", "wq", "engines", "engine", "groups", "group",
                     "workqueue", "evl"}
InterruptFailures == {"vectors", "misc_irq"}

\* Variant: err_config does not undo the PASIDs.
ProbeKeepsPasid(x, f, options) ==
    LET a == EnablePasid(x, options)
        b == SetupInternals(a, f)
        c == SetupInterrupts(b, f)
    IN  CASE f[1] = "reset" -> x
          [] f[1] \in InternalFailures -> DisablePasid(b)
          [] f[1] \in InterruptFailures \cup {"load_config"} -> CleanupInternals(b)
          [] OTHER -> Acquire(c, options \cap {"pmu"})

\* idxd_probe
Probe(x, f, options) ==
    LET a == EnablePasid(x, options)
        b == SetupInternals(a, f)
        c == SetupInterrupts(b, f)
    IN  CASE f[1] = "reset" -> x
          [] f[1] \in InternalFailures -> DisablePasid(b)
          [] f[1] \in InterruptFailures \cup {"load_config"} ->
                 DisablePasid(CleanupInternals(b))
          [] OTHER -> Acquire(c, options \cap {"pmu"})

\* idxd_cleanup
Cleanup(x) ==
    DisablePasid(CleanupInternals(CleanupInterrupts(Release(x, x.mem \cap {"pmu"}))))

-----------------------------------------------------------------------------
(* idxd_pci_probe and idxd_register_devices.                               *)

\* The device_add of a kind of conf device.
AddOf(kind) ==
    CASE kind = "wq" -> "add_wq" [] kind = "engine" -> "add_engine" [] kind = "group" -> "add_group"

\* idxd_register_wq_devices, _engine_devices, _group_devices: when device i
\* cannot be added, the rest is put, device i - 1 is skipped, and with i = 0
\* the loop runs below the array.
RegisterKind(x, kind, n, f) ==
    IF f[1] # AddOf(kind)
    THEN [x EXCEPT !.reg = @ \cup FirstOf(kind, n)]
    ELSE LET i == f[2]
             added == [x EXCEPT !.reg = @ \cup FirstOf(kind, i)]
             put == PutDevice(added, FirstOf(kind, n) \ FirstOf(kind, i))
         IN  IF i = 0 THEN [put EXCEPT !.bad = @ \cup {"index"}]
                      ELSE DeviceUnregister(put, FirstOf(kind, i - 1))

RegisterDevices(x, f) ==
    LET a == [x EXCEPT !.reg = @ \cup {Idxd}]
        b == RegisterKind(a, "wq", NumWqs, f)
        c == RegisterKind(b, "engine", NumEngines, f)
        d == RegisterKind(c, "group", NumGroups, f)
    IN  CASE f[1] = "add_idxd" -> x
          [] f[1] = "add_wq" -> DeviceDel(b, {Idxd})
          [] f[1] = "add_engine" -> DeviceDel(DeviceUnregister(c, Wqs), {Idxd})
          [] f[1] = "add_group" ->
                 DeviceDel(DeviceUnregister(DeviceUnregister(d, Engines), Wqs), {Idxd})
          [] OTHER -> d

\* idxd_alloc: a missing id or operation map loses the structure.
Alloc(x, f) ==
    CASE f[1] = "ida" -> Acquire(x, {"idxd"})
      [] f[1] = "opcap" -> Acquire(x, {"idxd"})
      [] f[1] = "name" ->
             PutDevice(Initialize(Acquire(x, {"idxd", "ida", "opcap"}), {Idxd}), {Idxd})
      [] OTHER -> Initialize(Acquire(x, {"idxd", "ida", "opcap"}), {Idxd})

AllocFailures == {"ida", "opcap", "name"}
RegisterFailures == {"add_idxd", "add_wq", "add_engine", "add_group"}

PciProbe(x, f, options) ==
    LET a == Alloc(Acquire(x, {"pci"}), f)
        b == Acquire(a, {"iomap"})
        c == Probe(b, f, options)
        d == RegisterDevices(c, f)
        unalloc(y) == Release(y, {"pci"})
        uniomap(y) == unalloc(PutDevice(Release(y, {"iomap"}), {Idxd}))
    IN  CASE f[1] = "pci" -> x
          [] f[1] = "kzalloc" -> unalloc(Acquire(x, {"pci"}))
          [] f[1] \in AllocFailures -> unalloc(a)
          [] f[1] = "iomap" -> unalloc(PutDevice(a, {Idxd}))
          [] f[1] = "mask" -> uniomap(b)
          [] f[1] \in {"reset", "load_config"} \cup InternalFailures \cup InterruptFailures ->
                 uniomap(c)
          [] f[1] \in RegisterFailures -> uniomap(Cleanup(d))
          [] OTHER -> Acquire(d, options \cap {"debugfs"})

Failures ==
    {<<r, 0>> : r \in {"none", "pci", "kzalloc", "iomap", "mask", "reset", "load_config",
                       "wqs", "enable_map", "engines", "groups", "workqueue", "evl",
                       "add_idxd"} \cup AllocFailures \cup InterruptFailures}
        \cup Wqs \cup Engines \cup Groups
        \cup {<<AddOf(c[1]), c[2]>> : c \in Confs \ {Idxd}}

\* The failures after which the accounting is lost.
LosesTrack(f) ==
    IF f[1] \in RegisterFailures \ {"add_idxd"} THEN {"register"}
    ELSE IF f[1] \in {"ida", "opcap"} THEN {"alloc"}
    ELSE IF f[1] = "enable_map" THEN {"enable_map"} ELSE {}

\* A probe that succeeds has made new queues.
IdxdPciProbe(f, options) ==
    /\ "pci" \in services /\ ~present /\ s.bad = {}
    /\ f \in Failures
    /\ "pasid" \in options => "sva" \in options
    /\ s' = [PciProbe(s, f, options) EXCEPT !.ptr = IF f[1] = "none" THEN @ ELSE {}]
    /\ present' = (f[1] = "none")
    /\ q' = IF f[1] = "none" THEN [w \in Wqs |-> NoQueue] ELSE q
    /\ faults' = faults \cup LosesTrack(f)
    /\ UNCHANGED <<services, devUp, devBound>>

-----------------------------------------------------------------------------
(* The device driver and the queue drivers.                                *)

\* idxd_device_clear_state and the resets that call it, on one queue.
Cleared(x) == [x EXCEPT !.type = "none", !.on = FALSE]

\* idxd_device_drv_probe: the event log, the enable command, the DMA device.
DeviceDrvProbe(f) ==
    /\ present /\ ~devBound /\ ~devUp
    /\ devUp' = (f = "none") /\ devBound' = (f = "none")
    /\ s' = IF f = "none" THEN Acquire(s, {"evl_log", "dma"}) ELSE s
    /\ q' = IF f = "dma" THEN [w \in Wqs |-> Cleared(q[w])] ELSE q
    /\ UNCHANGED <<services, present, faults>>

\* Variant: the interrupt is not given back.
DrvDisableWqKeepsIrq(x) ==
    LET type == IF x.on THEN "none" ELSE x.type IN
    [x EXCEPT !.type = "none", !.on = FALSE,
              !.res = @ \ ({"portal", "ref"}
                        \cup (IF type = "kernel" THEN {"descs"} ELSE {}))]

\* drv_disable_wq: idxd_wq_reset clears the type that idxd_wq_free_resources
\* looks at.
DrvDisableWq(x) ==
    LET type == IF x.on THEN "none" ELSE x.type IN
    [x EXCEPT !.type = "none", !.on = FALSE,
              !.res = @ \ ({"portal", "ref"}
                        \cup (IF x.type = "kernel" THEN {"irq"} ELSE {})
                        \cup (IF type = "kernel" THEN {"descs"} ELSE {}))]

\* What the remove functions of the queue drivers release around it.
WqDrvRemove(x) ==
    [DrvDisableWq([x EXCEPT !.res = @ \ {"front", "work"}]) EXCEPT !.bound = "none"]

\* drv_enable_wq, when all of it succeeds.
DrvEnableWq(x) ==
    [x EXCEPT !.on = TRUE,
              !.res = @ \cup {"portal", "ref"}
                        \cup (IF x.type = "kernel" THEN {"irq", "descs"} ELSE {})]

WqFailures(type) ==
    {"none", "enable", "portal", "ref", "front"}
        \cup (IF type = "kernel" THEN {"irq", "descs"} ELSE {"work"})

\* The probe functions of dma.c and cdev.c.  A vector that was never given
\* back cannot be requested again.
WqDrvProbe(w, type, f) ==
    LET typed == [q[w] EXCEPT !.type = type]
        up == DrvEnableWq(typed)
        full == [up EXCEPT !.bound = type,
                     !.res = @ \cup {"front"} \cup (IF type = "user" THEN {"work"} ELSE {})]
    IN
    /\ devUp /\ q[w].bound = "none"
    /\ type = "kernel" /\ "irq" \in q[w].res => f \in {"enable", "portal", "irq"}
    /\ q' = [q EXCEPT ![w] =
                 CASE f = "none" -> full
                   [] f = "front" -> DrvDisableWq(up)
                   [] OTHER -> [q[w] EXCEPT !.type = "none"]]
    /\ UNCHANGED <<services, present, s, devUp, devBound, faults>>

\* Unbinding a queue; its portal is unmapped even when a halt did that.
UnmapPortals(x, z, W) ==
    [x EXCEPT !.bad = @ \cup (IF \E w \in W : "portal" \notin z[w].res
                              THEN {"portal"} ELSE {})]

Bound(z) == {w \in Wqs : z[w].bound # "none"}

WqUnbind(w) ==
    /\ q[w].bound # "none"
    /\ q' = [q EXCEPT ![w] = WqDrvRemove(@)]
    /\ s' = UnmapPortals(s, q, {w})
    /\ UNCHANGED <<services, present, devUp, devBound, faults>>

\* idxd_device_drv_remove on the queues and on the rest: only enabled queues
\* lose their driver.
DrvRemoveQueues(z) ==
    [w \in Wqs |-> Cleared(IF z[w].on THEN WqDrvRemove(z[w]) ELSE z[w])]

DrvRemove(x) == Release(x, {"dma", "evl_log"})

DeviceDrvRemove ==
    /\ present /\ devBound
    /\ devBound' = FALSE /\ devUp' = FALSE
    /\ q' = DrvRemoveQueues(q)
    /\ s' = DrvRemove(s)
    /\ UNCHANGED <<services, present, faults>>

\* A halt that asks for a function-level reset: the portals are unmapped and
\* the state cleared; the drivers stay bound.
MiscHaltOther ==
    /\ devUp
    /\ devUp' = FALSE
    /\ q' = [w \in Wqs |-> [Cleared(q[w]) EXCEPT !.res = @ \ {"portal"}]]
    /\ faults' = faults \cup {"halt"}
    /\ UNCHANGED <<services, present, s, devBound>>

\* A halt and idxd_device_reinit: the reset leaves nothing to configure.
DeviceReinit ==
    /\ devUp
    /\ devUp' = FALSE
    /\ q' = [w \in Wqs |-> Cleared(q[w])]
    /\ faults' = faults \cup {"halt"}
    /\ UNCHANGED <<services, present, s, devBound>>

-----------------------------------------------------------------------------
(* Removal and the module.                                                 *)

\* idxd_remove: the children first, with their drivers; then the device,
\* whose driver walks the children; then the rest.
Remove(x, z, bound) ==
    LET a == DeviceUnregister(UnmapPortals(x, z, Bound(z)), Wqs \cup Engines \cup Groups)
        b == IF bound THEN [DrvRemove(a) EXCEPT !.bad = @ \cup {"freed_wq"}] ELSE a
        c == DeviceDel(b, {Idxd})
        d == DisablePasid(Release(c, c.mem \cap {"debugfs", "pmu"}))
        e == PutDevice(Release(d, {"misc_irq", "vectors", "iomap", "pci", "workqueue"}), {Idxd})
    IN  [e EXCEPT !.ptr = {}]

\* The conf devices of the queues are unregistered, which makes their drivers
\* leave; what a queue then holds nobody will give back.
Leftover(z) ==
    [w \in Wqs |->
        [NoQueue EXCEPT !.res = IF z[w].bound = "none" THEN z[w].res
                                                      ELSE WqDrvRemove(z[w]).res]]

Absent ==
    /\ present' = FALSE /\ devUp' = FALSE /\ devBound' = FALSE
    /\ q' = Leftover(q)

\* The PCI device is unbound or unplugged.
IdxdRemove ==
    /\ present /\ Absent
    /\ s' = Remove(s, q, devBound)
    /\ faults' = faults \cup (IF devBound THEN {"remove_bound"} ELSE {})
    /\ UNCHANGED services

\* What the label that a failure of call k jumps to gives back.
Label == <<{}, {"idxd_drv"}, {"dmaengine_drv"}, {"user_drv"}, {"cdev"}, {"debugfs"}>>

\* The labels fall through.
Unwound(k) == UNION {Label[j] : j \in 1 .. k}

\* idxd_init_module; call k fails, or none.  perfmon_init is not undone.
IdxdInitModule(k) ==
    /\ services \subseteq {"perfmon"}
    /\ services' = {"perfmon"} \cup
           (IF k > Len(LoadOrder) THEN {LoadOrder[j] : j \in DOMAIN LoadOrder}
            ELSE {LoadOrder[j] : j \in 1 .. k - 1} \ Unwound(k))
    /\ UNCHANGED <<present, s, devUp, devBound, q, faults>>

\* What idxd_exit_module gives back, in its order.
ExitOrder == <<"user_drv", "dmaengine_drv", "idxd_drv", "pci", "cdev", "perfmon", "debugfs">>

\* idxd_exit_module: the queue drivers leave the queues and the idxd driver
\* the device before the PCI driver removes it.
IdxdExitModule ==
    LET free == UnmapPortals(s, q, Bound(q))
        idle == IF devBound THEN DrvRemove(free) ELSE free
    IN
    /\ "pci" \in services
    /\ services' = services \ {ExitOrder[j] : j \in DOMAIN ExitOrder}
    /\ s' = IF present THEN Remove(idle, Leftover(q), FALSE) ELSE s
    /\ Absent
    /\ UNCHANGED faults

-----------------------------------------------------------------------------
Next ==
    \/ \E k \in 1 .. Len(LoadOrder) + 1 : IdxdInitModule(k)
    \/ \E f \in Failures, options \in SUBSET {"sva", "pasid", "pmu", "debugfs"} :
          IdxdPciProbe(f, options)
    \/ \E f \in {"none", "evl_log", "enable", "dma"} : DeviceDrvProbe(f)
    \/ \E w \in Wqs, type \in {"kernel", "user"} :
          \E f \in WqFailures(type) : WqDrvProbe(w, type, f)
    \/ \E w \in Wqs : WqUnbind(w)
    \/ DeviceDrvRemove \/ MiscHaltOther \/ DeviceReinit
    \/ IdxdRemove \/ IdxdExitModule

Spec == Init /\ [][Next]_vars

-----------------------------------------------------------------------------
(* Properties.                                                             *)

\* What can be in bad: what was released twice, the kinds of conf devices, and
\* the mistakes with a name of their own.
Mistakes == Resources \cup {"wq", "engine", "group", "idxd", "index", "portal", "freed_wq"}

HeldRecord ==
    [mem : SUBSET Resources, ptr : SUBSET Resources, refs : [Confs -> -1 .. 1],
     reg : SUBSET Confs, bad : SUBSET Mistakes]

QueueRecord ==
    [bound : {"none", "kernel", "user"}, type : {"none", "kernel", "user"}, on : BOOLEAN,
     res : SUBSET {"portal", "irq", "descs", "ref", "front", "work"}]

\* Every variable has a value of its type; a reference count leaves 0 .. 1
\* only when the device could not be registered.
TypeOK ==
    /\ services \subseteq {LoadOrder[j] : j \in DOMAIN LoadOrder} \cup {"perfmon"}
    /\ {present, devUp, devBound} \subseteq BOOLEAN
    /\ s \in HeldRecord
    /\ "register" \notin faults => \A c \in Confs : s.refs[c] \in 0 .. 1
    /\ q \in [Wqs -> QueueRecord]
    /\ faults \subseteq {"register", "alloc", "enable_map", "remove_bound", "halt"}

\* Nothing is released twice, freed while it is registered or used after it
\* was freed, whichever call of a probe fails and in whatever order device
\* and queues are bound, halted and removed.  Known exceptions: a device that
\* cannot be registered, a missing enable map, a removal with the device
\* driver bound, and a halt (the portals are unmapped again).
ReleasedOnce ==
    faults \cap {"register", "enable_map", "remove_bound", "halt"} = {} => s.bad = {}

\* While the device is absent the driver holds nothing for it: every failed
\* probe and every removal gives back all it acquired, also after a halt, and
\* a module that failed to load has registered nothing.  Known exceptions,
\* in which the code does keep something: the descriptors of a kernel queue
\* that was unbound or removed (device.c:1500) and, after a halt, the
\* interrupt of a queue (irq.c:502, device.c:1298); the structure lost by
\* idxd_alloc, a device that cannot be registered, a missing enable map and a
\* removal with the device driver bound; perfmon_init.
NothingLeftBehind ==
    /\ ~present => \A w \in Wqs :
           q[w].res \subseteq {"descs"} \cup (IF "halt" \in faults THEN {"irq"} ELSE {})
    /\ ~present /\ faults \subseteq {"halt"} =>
           s.mem = {} /\ s.reg = {} /\ \A c \in Confs : s.refs[c] = 0
    /\ "pci" \in services \/ services \subseteq {"perfmon"}

\* An unbound queue holds nothing, except the descriptors drv_disable_wq
\* fails to free and, after a halt, the interrupt.
UnbindReleases ==
    \A w \in Wqs : q[w].bound = "none" =>
        q[w].res \subseteq {"descs"} \cup (IF "halt" \in faults THEN {"irq"} ELSE {})

\* A bound queue has all that its driver works with; only a halt takes the
\* portal away under it.
BoundComplete ==
    \A w \in Wqs :
        /\ q[w].bound = "kernel" => {"irq", "descs", "ref", "front"} \subseteq q[w].res
        /\ q[w].bound = "user" => {"work", "ref", "front"} \subseteq q[w].res
        /\ q[w].bound # "none" /\ "halt" \notin faults => "portal" \in q[w].res

\* Probe, remove, load and unload balance: types, no double release, and
\* nothing left behind but what the exceptions name, whichever call fails
\* (idxd_pci_probe, idxd_remove).
Balanced == TypeOK /\ ReleasedOnce /\ NothingLeftBehind

\* Binding and unbinding of a queue balance: what a bound queue needs is there,
\* and an unbound one holds nothing but leaked descriptors and, after a halt,
\* its interrupt (drv_enable_wq, drv_disable_wq).
QueuesBalanced == UnbindReleases /\ BoundComplete

-----------------------------------------------------------------------------
(* The inductive invariant.                                                *)

\* A record of what is held in which the conf devices C have one reference
\* each and the others none.
Holding(M, P, C, G, B) ==
    [mem |-> M, ptr |-> P, refs |-> [c \in Confs |-> IF c \in C THEN 1 ELSE 0],
     reg |-> G, bad |-> B]

\* What a device that is present holds, may hold, and holds for its driver.
Core == Arrays \cup {"pci", "iomap", "workqueue", "vectors", "misc_irq"}
Optional == {"sva", "pasid", "pmu", "debugfs"}
DriverHeld == {"evl_log", "dma"}

\* Nothing works with a device that is absent.
AbsentInv ==
    /\ ~present => ~devUp /\ ~devBound /\ s.ptr = {} /\ \A w \in Wqs : q[w].bound = "none"
    /\ devUp => devBound

\* After these the driver has already released something twice, and no other
\* probe follows.
Lost == {"register", "enable_map", "remove_bound"}
LostInv == faults \cap Lost # {} => ~present /\ s.bad # {}

\* Otherwise it is known what is held.
HeldInv ==
    faults \cap Lost = {} =>
        /\ ~present => /\ s = Holding(s.mem, {}, {}, {}, s.bad)
                       /\ s.mem \subseteq (IF "alloc" \in faults THEN {"idxd"} ELSE {})
        /\ present => /\ s = Holding(s.mem, s.ptr, Confs, Confs, s.bad)
                      /\ Core \subseteq s.mem /\ Arrays \subseteq s.ptr
                      /\ s.mem \ DriverHeld \subseteq Core \cup Optional
                      /\ s.mem \cap DriverHeld = (IF devBound THEN DriverHeld ELSE {})
        /\ "halt" \notin faults => s.bad = {}

\* Without a halt a bound queue runs, with the type of its driver, and so does
\* the device; only the kernel's queues hold an interrupt.
QueueInv ==
    "halt" \notin faults => \A w \in Wqs :
        /\ q[w].bound # "none" => q[w].on /\ q[w].type = q[w].bound /\ devUp
        /\ q[w].bound = "user" => "irq" \notin q[w].res

LifeInv ==
    /\ TypeOK /\ AbsentInv /\ LostInv /\ HeldInv /\ QueueInv /\ QueuesBalanced
    /\ "pci" \in services \/ services \subseteq {"perfmon"}
=============================================================================
