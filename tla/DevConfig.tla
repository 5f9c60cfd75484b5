------------------------------ MODULE DevConfig ------------------------------
(***************************************************************************)
(* The configuration of one idxd device: the attributes of its queues,     *)
(* groups and engines (sysfs.c), the registers idxd_device_config writes   *)
(* from them (device.c), and the operations that consume or forget them:   *)
(* binding and unbinding the device and its queues, a halt, and            *)
(* idxd_device_reinit (irq.c).                                             *)
(*                                                                         *)
(* Every operation is one step: attributes are written by one              *)
(* administrator, and a store has no lock that another writer would see.   *)
(* Attributes that nothing else depends on (priority, transfer and batch   *)
(* size, address translation, operation mask) are one flag, "tuned".       *)
(***************************************************************************)
EXTENDS Integers, FiniteSets, FiniteSetsExt

CONSTANTS
    NumWqs, NumGroups, NumEngines,  \* max_wqs, max_groups, max_engines
    MaxWqSize,      \* idxd->max_wq_size
    DefaultDepth,   \* WQ_DEFAULT_QUEUE_DEPTH
    MaxRdbufs,      \* idxd->max_rdbufs
    RdbufsPerEngine,\* the 4 of group_read_buffers_allowed_store
    Priv,           \* idxd_device_pasid_priv_enabled
    Plans           \* what administrators write, per attribute

ASSUME ConfigParameters ==
    /\ {NumWqs, NumGroups, NumEngines} \subseteq Nat \ {0}
    /\ {MaxWqSize, DefaultDepth, MaxRdbufs, RdbufsPerEngine} \subseteq Nat
    /\ Priv \in BOOLEAN

Wqs == 1 .. NumWqs
Groups == 1 .. NumGroups
Engines == 1 .. NumEngines
None == 0                           \* the NULL group

\* What driver_name can be: empty, the name of a queue driver, or a longer
\* name that begins with one.
DriverNames == {"none", "dmaengine", "user", "username"}

\* The values of each attribute that its store function parses and accepts.
ASSUME PlansAssumption ==
    Plans \subseteq
        [size : [Wqs -> SUBSET Nat], group : [Wqs -> SUBSET (Groups \cup {None})],
         bof : [Wqs -> SUBSET BOOLEAN], prs : [Wqs -> SUBSET BOOLEAN],
         thr : [Wqs -> SUBSET Nat], tuned : SUBSET Wqs, ded : [Wqs -> SUBSET BOOLEAN],
         type : [Wqs -> SUBSET {"none", "kernel", "user"}],
         drv : [Wqs -> SUBSET (DriverNames \ {"none"})],
         reserved : [Groups -> SUBSET Nat], allowed : [Groups -> SUBSET Nat],
         engine : [Engines -> SUBSET (Groups \cup {None})]]

VARIABLES
    configurable,   \* IDXD_FLAG_CONFIGURABLE
    plan,           \* what the administrator of this behaviour writes
    devState,       \* idxd->state
    devBound,       \* is the idxd driver bound to the device?
    wq,             \* the attributes and the state of each queue
    bound,          \* the driver each queue is bound to
    enableMap,      \* idxd->wq_enable_map
    engGroup,       \* engine->group
    grp,            \* the attributes of each group
    nrRdbufs,       \* idxd->nr_rdbufs
    shadow, hw,     \* wq->wqcfg and the WQCFG registers
    hwEngines,      \* the engines each GRPENGCFG register names
    hwOn,           \* the queues the device has enabled
    reinit          \* is idxd_device_reinit queued?

cfgVars == <<wq, engGroup, grp, nrRdbufs>>
regVars == <<shadow, hw, hwEngines, hwOn>>
lifeVars == <<devState, devBound, bound, enableMap, reinit>>
vars == <<configurable, plan, cfgVars, regVars, lifeVars>>

EmptyWq == [state |-> "disabled", type |-> "none", group |-> None, size |-> 0,
            thr |-> 0, ded |-> FALSE, bof |-> FALSE, prs |-> FALSE,
            named |-> FALSE, tuned |-> FALSE, drv |-> "none"]
EmptyReg == [size |-> 0, thr |-> 0, mode |-> FALSE, bof |-> FALSE,
             prs |-> FALSE, tuned |-> FALSE, pasid |-> FALSE]
EmptyGroup == [wqs |-> 0, engines |-> 0, reserved |-> 0, allowed |-> MaxRdbufs]

\* What firmware left in the registers of a device that is not configurable:
\* dedicated queues (the driver takes no others), the first one with all
\* entries and, like the first engine, in the first group.
FirmwareReg(w) ==
    [EmptyReg EXCEPT !.size = IF w = 1 THEN MaxWqSize ELSE 0, !.mode = TRUE]

\* idxd_wq_load_config and idxd_group_load_config.
LoadedWq(w) ==
    [EmptyWq EXCEPT !.size = FirmwareReg(w).size, !.ded = TRUE,
                    !.group = IF w = 1 THEN 1 ELSE None]

Init ==
    /\ configurable \in BOOLEAN /\ plan \in Plans
    /\ devState = "disabled" /\ devBound = FALSE /\ reinit = FALSE
    /\ wq = [w \in Wqs |-> IF configurable THEN EmptyWq ELSE LoadedWq(w)]
    /\ engGroup = [e \in Engines |-> IF ~configurable /\ e = 1 THEN 1 ELSE None]
    /\ bound = [w \in Wqs |-> "none"] /\ enableMap = {} /\ hwOn = {}
    /\ grp = [g \in Groups |-> EmptyGroup] /\ nrRdbufs = MaxRdbufs
    /\ hw = [w \in Wqs |-> IF configurable THEN EmptyReg ELSE FirmwareReg(w)]
    /\ shadow = hw
    /\ hwEngines = [g \in Groups |-> {e \in Engines : engGroup[e] = g}]

-----------------------------------------------------------------------------
(* Attribute stores.  A refused store changes nothing and is not a step.   *)

Frame == UNCHANGED <<configurable, plan, regVars, lifeVars>>

\* Variant: leaving a group does not count down.
Rejoin1(kind, old, new) ==
    [g \in Groups |-> [grp[g] EXCEPT ![kind] =
        @ + (IF g = new /\ g # old THEN 1 ELSE 0)]]

\* prevg->num--, group->num++.
Rejoin(kind, old, new) ==
    [g \in Groups |-> [grp[g] EXCEPT ![kind] =
        @ + (IF g = new THEN 1 ELSE 0) - (IF g = old THEN 1 ELSE 0)]]

EngineGroupIdStore(e, g) ==
    /\ configurable
    /\ grp' = Rejoin("engines", engGroup[e], g)
    /\ engGroup' = [engGroup EXCEPT ![e] = g]
    /\ UNCHANGED <<wq, nrRdbufs>> /\ Frame

\* The loops that add up an attribute, in the order of the array.
SumTo(f, n) ==
    LET sum[i \in 0 .. n] == IF i = 0 THEN 0 ELSE sum[i - 1] + f[i] IN sum[n]

Reserved(f) == SumTo([g \in Groups |-> f[g].reserved], NumGroups)

\* idxd_set_free_rdbufs is its last line.
GroupReadBuffersReservedStore(g, v) ==
    /\ configurable /\ devState # "enabled"
    /\ v <= MaxRdbufs /\ v <= nrRdbufs + grp[g].reserved
    /\ grp' = [grp EXCEPT ![g].reserved = v]
    /\ nrRdbufs' = MaxRdbufs - Reserved(grp')
    /\ UNCHANGED <<wq, engGroup>> /\ Frame

GroupReadBuffersAllowedStore(g, v) ==
    /\ configurable /\ devState # "enabled"
    /\ v >= RdbufsPerEngine * grp[g].engines /\ v <= grp[g].reserved + nrRdbufs
    /\ grp' = [grp EXCEPT ![g].allowed = v]
    /\ UNCHANGED <<wq, engGroup, nrRdbufs>> /\ Frame

SetWq(w, new) ==
    /\ wq[w].state = "disabled"
    /\ wq' = [wq EXCEPT ![w] = new]
    /\ UNCHANGED <<engGroup, grp, nrRdbufs>> /\ Frame

WqGroupIdStore(w, g) ==
    /\ configurable /\ wq[w].state = "disabled"
    /\ grp' = Rejoin("wqs", wq[w].group, g)
    /\ wq' = [wq EXCEPT ![w].group = g]
    /\ UNCHANGED <<engGroup, nrRdbufs>> /\ Frame

WqModeStore(w, ded) ==
    /\ configurable
    /\ SetWq(w, [wq[w] EXCEPT !.ded = ded, !.thr = IF ded THEN 0 ELSE @])

\* total_claimed_wq_size
TotalClaimed(q) == SumTo([w \in Wqs |-> q[w].size], NumWqs)

\* Guarded by the state of the device, not of the queue.
WqSizeStore(w, v) ==
    /\ configurable /\ devState # "enabled"
    /\ v + TotalClaimed(wq) - wq[w].size <= MaxWqSize
    /\ wq' = [wq EXCEPT ![w].size = v]
    /\ UNCHANGED <<engGroup, grp, nrRdbufs>> /\ Frame

WqBlockOnFaultStore(w, v) ==
    /\ configurable
    /\ v => ~wq[w].prs
    /\ SetWq(w, [wq[w] EXCEPT !.bof = v])

WqThresholdStore(w, v) ==
    /\ v <= wq[w].size /\ v > 0
    /\ configurable /\ ~wq[w].ded
    /\ SetWq(w, [wq[w] EXCEPT !.thr = v])

WqTypeStore(w, t) ==
    SetWq(w, [wq[w] EXCEPT !.type = t,
                           !.named = IF t = wq[w].type THEN @ ELSE FALSE])

WqNameStore(w) == SetWq(w, [wq[w] EXCEPT !.named = TRUE])

\* The device need not be configurable.
WqDriverNameStore(w, d) == SetWq(w, [wq[w] EXCEPT !.drv = d])

WqPriorityStore(w) == configurable /\ SetWq(w, [wq[w] EXCEPT !.tuned = TRUE])

WqMaxTransferSizeStore(w) == configurable /\ SetWq(w, [wq[w] EXCEPT !.tuned = TRUE])

WqMaxBatchSizeStore(w) == configurable /\ SetWq(w, [wq[w] EXCEPT !.tuned = TRUE])

WqAtsDisableStore(w) == configurable /\ SetWq(w, [wq[w] EXCEPT !.tuned = TRUE])

\* A mask the device supports; the device need not be configurable.
WqOpConfigStore(w) == SetWq(w, [wq[w] EXCEPT !.tuned = TRUE])

WqPrsDisableStore(w, v) ==
    /\ configurable
    /\ SetWq(w, [wq[w] EXCEPT !.prs = v, !.bof = @ /\ ~v])

-----------------------------------------------------------------------------
(* idxd_device_config, applied to the queues q: what it leaves in the      *)
(* queues, the shadow and the registers, and whether it succeeds.          *)

Grouped(q) == {w \in Wqs : q[w].group # None}

\* idxd_wqs_setup and idxd_engines_setup.  Shared queues need a type, for
\* wq_pasid_enabled looks at it.
SetupFails(q) ==
    \/ Grouped(q) = {}
    \/ \E w \in Grouped(q) : ~q[w].ded /\ q[w].type = "none"
    \/ \A e \in Engines : engGroup[e] = None

\* The queues idxd_wq_config_write refuses (IDXD_SCMD_WQ_NO_PRIV).
NoPriv(q, sh, h) ==
    {w \in Grouped(q) : /\ q[w].ded /\ q[w].type = "kernel" /\ ~Priv
                        /\ sh[w].pasid \/ h[w].pasid}

\* Variant: the write-back keeps the threshold of an earlier configuration.
MergedStale(a, sh, h) ==
    [size |-> a.size, thr |-> IF sh.thr > a.thr THEN sh.thr ELSE a.thr,
     tuned |-> a.tuned, prs |-> a.prs, mode |-> sh.mode \/ h.mode \/ a.ded,
     bof |-> sh.bof \/ h.bof \/ (a.bof /\ ~a.prs), pasid |-> sh.pasid \/ h.pasid]

\* wqcfg |= the register, then the attributes; mode and bof are only set.
Merged(a, sh, h) ==
    [size |-> a.size, thr |-> a.thr, tuned |-> a.tuned, prs |-> a.prs,
     mode |-> sh.mode \/ h.mode \/ a.ded,
     bof |-> sh.bof \/ h.bof \/ (a.bof /\ ~a.prs),
     pasid |-> sh.pasid \/ h.pasid]

\* The queues are written in order, up to the first that is refused.
ConfigWrite(q, sh, h) ==
    LET stop == Min(NoPriv(q, sh, h) \cup {NumWqs + 1})
        reached == {w \in Grouped(q) : w <= stop}
        sized == [w \in Wqs |->
            IF w \in reached /\ q[w].size = 0 /\ q[w].type # "none"
            THEN [q[w] EXCEPT !.size = DefaultDepth] ELSE q[w]]
        new == [w \in Wqs |-> IF w \in reached
                              THEN Merged(sized[w], sh[w], h[w]) ELSE sh[w]]
    IN  [ok |-> stop = NumWqs + 1, wq |-> sized, shadow |-> new,
         hw |-> [w \in Wqs |-> IF w \in reached /\ w # stop THEN new[w] ELSE h[w]]]

DeviceConfig(q, sh, h) ==
    IF SetupFails(q) THEN [ok |-> FALSE, wq |-> q, shadow |-> sh, hw |-> h]
                     ELSE ConfigWrite(q, sh, h)

\* Only a configurable device is configured when something is bound.
BindConfig(q, sh, h) ==
    IF configurable THEN DeviceConfig(q, sh, h)
                    ELSE [ok |-> TRUE, wq |-> q, shadow |-> sh, hw |-> h]

GroupRegisters(c) ==
    IF c.ok /\ configurable
    THEN [g \in Groups |-> {e \in Engines : engGroup[e] = g}] ELSE hwEngines

\* idxd_wq_disable_cleanup.  Nothing ever clears driver_name.
CleanWq(q) == [EmptyWq EXCEPT !.group = q.group, !.size = q.size, !.drv = q.drv]

\* idxd_device_clear_state: its clearing of queues, groups and engines.
ClearState ==
    IF configurable
    THEN /\ wq' = [w \in Wqs |-> [EmptyWq EXCEPT !.drv = wq[w].drv]]
         /\ shadow' = [w \in Wqs |-> EmptyReg]
         /\ grp' = [g \in Groups |-> EmptyGroup]
         /\ engGroup' = [e \in Engines |-> None]
    ELSE UNCHANGED <<wq, shadow, grp, engGroup>>

\* The reset command: the device forgets its registers and its queues.
ResetDevice ==
    /\ hwOn' = {}
    /\ hw' = IF configurable THEN [w \in Wqs |-> EmptyReg] ELSE hw
    /\ hwEngines' = IF configurable THEN [g \in Groups |-> {}] ELSE hwEngines

-----------------------------------------------------------------------------
(* The device driver.                                                      *)

\* idxd_device_drv_probe.  The event log, the enable command and the
\* registration of the DMA device may fail; the last is undone by
\* idxd_device_disable.
DeviceDrvProbe ==
    LET c == BindConfig(wq, shadow, hw) IN
    /\ devState = "disabled" /\ ~devBound
    /\ hwEngines' = GroupRegisters(c)
    /\ \/ /\ c.ok /\ devState' = "enabled" /\ devBound' = TRUE
          /\ wq' = c.wq /\ shadow' = c.shadow /\ hw' = c.hw
          /\ UNCHANGED <<engGroup, grp, hwOn>>
       \/ /\ wq' = c.wq /\ shadow' = c.shadow /\ hw' = c.hw
          /\ UNCHANGED <<engGroup, grp, hwOn, devState, devBound>>
       \/ /\ c.ok /\ hw' = c.hw /\ ClearState
          /\ UNCHANGED <<hwOn, devState, devBound>>
    /\ UNCHANGED <<configurable, plan, nrRdbufs, bound, enableMap, reinit>>

\* idxd_device_drv_remove releases the enabled queues, then disables and
\* resets the device.  Queues that are bound but not enabled stay bound.
DeviceDrvRemove ==
    /\ devBound
    /\ devBound' = FALSE
    /\ bound' = [w \in Wqs |-> IF wq[w].state = "enabled" THEN "none" ELSE bound[w]]
    /\ IF configurable
       THEN /\ ClearState /\ ResetDevice /\ devState' = "disabled"
       ELSE /\ wq' = [w \in Wqs |->
                  IF wq[w].state = "enabled" THEN CleanWq(wq[w]) ELSE wq[w]]
            /\ shadow' = [w \in Wqs |->
                  IF wq[w].state = "enabled" THEN EmptyReg ELSE shadow[w]]
            /\ hwOn' = {}
            /\ devState' = IF devState = "enabled" THEN "disabled" ELSE devState
            /\ UNCHANGED <<grp, engGroup, hw, hwEngines>>
    /\ UNCHANGED <<configurable, plan, nrRdbufs, enableMap, reinit>>

-----------------------------------------------------------------------------
(* The queue drivers, dmaengine (dma.c) and user (cdev.c).                 *)

TypeOf(drv) == IF drv = "dmaengine" THEN "kernel" ELSE "user"

\* idxd_wq_driver_name_match compares as many characters as the driver has.
DriverNameMatch(name, drv) == name = drv \/ (name = "username" /\ drv = "user")

\* The checks of drv_enable_wq.
Enableable(q, w) ==
    /\ q[w].state = "disabled" /\ q[w].group # None /\ q[w].named
    /\ q[w].ded \/ q[w].thr > 0

\* __idxd_wq_set_pasid_locked
WithPasid(q, w, r) ==
    IF configurable /\ (q[w].type = "kernel" \/ ~q[w].ded)
    THEN [r EXCEPT ![w].pasid = TRUE] ELSE r

\* The driver's probe: it refuses a queue whose driver_name is not its own,
\* which costs the queue its type in dma.c but not in cdev.c.  With the
\* queue's type set drv_enable_wq fails its checks, its configuration, the
\* enable command or a later step, or the DMA channel or the character
\* device fails, which resets the queue.
WqDrvProbe(w, drv) ==
    LET typed == [wq EXCEPT ![w].type = TypeOf(drv)]
        c == BindConfig(typed, WithPasid(typed, w, shadow), WithPasid(typed, w, hw))
        untyped(q) == [q EXCEPT ![w].type = "none"]
        match == DriverNameMatch(wq[w].drv, drv)
    IN
    /\ devState = "enabled" /\ bound[w] = "none"
    /\ \/ /\ ~match /\ wq' = IF drv = "user" THEN wq ELSE untyped(wq)
          /\ UNCHANGED <<regVars, bound, enableMap>>
       \/ /\ match /\ ~Enableable(typed, w) /\ wq' = untyped(wq)
          /\ UNCHANGED <<regVars, bound, enableMap>>
       \/ /\ match /\ Enableable(typed, w)
          /\ wq' = untyped(c.wq) /\ shadow' = c.shadow /\ hw' = c.hw
          /\ hwEngines' = GroupRegisters(c)
          /\ enableMap' \in {enableMap} \cup (IF c.ok THEN {enableMap \ {w}} ELSE {})
          /\ UNCHANGED <<bound, hwOn>>
       \/ /\ match /\ Enableable(typed, w) /\ c.ok
          /\ wq' = [c.wq EXCEPT ![w] = CleanWq(c.wq[w])]
          /\ shadow' = [c.shadow EXCEPT ![w] = EmptyReg]
          /\ hw' = [c.hw EXCEPT ![w] = IF configurable THEN EmptyReg ELSE @]
          /\ hwEngines' = GroupRegisters(c)
          /\ enableMap' = enableMap \cup {w}
          /\ UNCHANGED <<bound, hwOn>>
       \/ /\ match /\ Enableable(typed, w) /\ c.ok
          /\ wq' = [c.wq EXCEPT ![w].state = "enabled"]
          /\ shadow' = c.shadow /\ hw' = c.hw /\ hwEngines' = GroupRegisters(c)
          /\ hwOn' = hwOn \cup {w} /\ enableMap' = enableMap \cup {w}
          /\ bound' = [bound EXCEPT ![w] = drv]
    /\ UNCHANGED <<configurable, plan, engGroup, grp, nrRdbufs, devState, devBound, reinit>>

\* The driver's remove: drv_disable_wq resets an enabled queue.  Its bit in
\* wq_enable_map stays set.
WqDrvRemove(w) ==
    /\ bound[w] # "none"
    /\ bound' = [bound EXCEPT ![w] = "none"]
    /\ IF wq[w].state = "enabled"
       THEN /\ wq' = [wq EXCEPT ![w] = CleanWq(wq[w])]
            /\ shadow' = [shadow EXCEPT ![w] = EmptyReg]
            /\ hw' = [hw EXCEPT ![w] = IF configurable THEN EmptyReg ELSE @]
            /\ hwOn' = hwOn \ {w}
       ELSE /\ wq' = [wq EXCEPT ![w].type = "none"]
            /\ UNCHANGED <<shadow, hw, hwOn>>
    /\ UNCHANGED <<configurable, plan, engGroup, grp, nrRdbufs, devState, devBound,
                   enableMap, hwEngines, reinit>>

-----------------------------------------------------------------------------
(* Halts.                                                                  *)

\* The device halts and asks for a software reset.
MiscHaltSoftware ==
    /\ devState = "enabled" /\ ~reinit
    /\ devState' = "halted" /\ reinit' = TRUE
    /\ hwOn' = {}
    /\ UNCHANGED <<configurable, plan, cfgVars, shadow, hw, hwEngines, devBound, bound, enableMap>>

\* It halts and asks for a function-level or system reset.
MiscHaltOther ==
    /\ devState = "enabled"
    /\ hwOn' = {}
    /\ ClearState
    /\ devState' = "disabled"
    /\ UNCHANGED <<configurable, plan, nrRdbufs, hw, hwEngines, devBound, bound, enableMap,
                   reinit>>

\* idxd_device_reset, then idxd_device_config on what is left.  A configurable
\* device has nothing left: the configuration fails and it stays disabled.
\* Elsewhere the queues in wq_enable_map are enabled again, except those the
\* driver still takes for enabled.
DeviceReinit ==
    LET c == DeviceConfig(wq, shadow, hw)
        again == {w \in enableMap : wq[w].state = "disabled"}
    IN
    /\ reinit /\ reinit' = FALSE
    /\ IF configurable
       THEN /\ ClearState /\ ResetDevice /\ devState' = "disabled"
            /\ UNCHANGED enableMap
       ELSE /\ shadow' = c.shadow
            /\ UNCHANGED <<engGroup, grp, hw, hwEngines>>
            /\ \/ /\ devState' = "disabled" /\ hwOn' = {}
                  /\ UNCHANGED <<wq, enableMap>>
               \/ /\ c.ok /\ devState' = "enabled"
                  /\ \E on \in SUBSET again :
                        /\ wq' = [w \in Wqs |-> IF w \in on
                               THEN [wq[w] EXCEPT !.state = "enabled"] ELSE wq[w]]
                        /\ enableMap' = enableMap \ (again \ on)
                        /\ hwOn' = on
    /\ UNCHANGED <<configurable, plan, nrRdbufs, devBound, bound>>

-----------------------------------------------------------------------------
KernelEvent == MiscHaltSoftware \/ MiscHaltOther \/ DeviceReinit

-----------------------------------------------------------------------------
(* Properties.                                                             *)

WqRecord ==
    [state : {"disabled", "enabled"}, type : {"none", "kernel", "user"},
     group : Groups \cup {None}, size : Nat, thr : Nat, ded : BOOLEAN,
     bof : BOOLEAN, prs : BOOLEAN, named : BOOLEAN, tuned : BOOLEAN,
     drv : DriverNames]

GroupRecord == [wqs : Nat, engines : Nat, reserved : Nat, allowed : Nat]

RegRecord ==
    [size : Nat, thr : Nat, mode : BOOLEAN, bof : BOOLEAN, prs : BOOLEAN,
     tuned : BOOLEAN, pasid : BOOLEAN]

\* Every attribute and register has a value of its type.
TypeOK ==
    /\ configurable \in BOOLEAN /\ plan \in Plans
    /\ devState \in {"disabled", "enabled", "halted"}
    /\ devBound \in BOOLEAN /\ reinit \in BOOLEAN
    /\ wq \in [Wqs -> WqRecord]
    /\ bound \in [Wqs -> {"none", "dmaengine", "user"}]
    /\ enableMap \subseteq Wqs /\ hwOn \subseteq Wqs
    /\ engGroup \in [Engines -> Groups \cup {None}]
    /\ grp \in [Groups -> GroupRecord]
    /\ hw \in [Wqs -> RegRecord] /\ shadow \in [Wqs -> RegRecord]
    /\ hwEngines \in [Groups -> SUBSET Engines]

\* The read buffers the groups reserve never exceed what the device has, and
\* nr_rdbufs never promises more than is left, although nothing recomputes
\* it when a reset empties the groups.
RdbufsFit ==
    /\ Reserved(grp) <= MaxRdbufs
    /\ nrRdbufs \in 0 .. MaxRdbufs - Reserved(grp)

\* On a configurable device num_wqs and num_engines of every group agree with
\* the group pointers of the queues and engines, whatever stores, unbindings,
\* halts and resets cleared one side or the other.
CountsAgree ==
    configurable => \A g \in Groups :
        /\ grp[g].wqs = Cardinality({w \in Wqs : wq[w].group = g})
        /\ grp[g].engines = Cardinality({e \in Engines : engGroup[e] = g})

\* A queue the driver takes for enabled on a configurable device can run: it
\* is in a group, has a name, a driver and, when shared, a threshold that is
\* not 0, and while the device is up the device has it enabled too.  That the
\* threshold is at most the size is not claimed: wq_threshold_store checks
\* it, but wq_size_store may make the size smaller before the queue is bound.
EnabledRunnable ==
    \A w \in Wqs : configurable /\ wq[w].state = "enabled" =>
        /\ wq[w].group # None /\ wq[w].named /\ bound[w] # "none"
        /\ ~wq[w].ded => wq[w].thr > 0
        /\ devState # "disabled"
        /\ devState = "enabled" => w \in hwOn /\ w \in enableMap

\* While the device is up the registers of an enabled queue hold the size,
\* the threshold, the page request handling and the other attributes that
\* sysfs shows, including after earlier configurations of the same queue and
\* the configuration writes that bind the other queues.  A dedicated queue is
\* dedicated in the register and one with block on fault has it there.  The
\* converse does NOT hold: idxd_wq_config_write only ever sets the two bits
\* (device.c:928, 954), so a queue that an earlier write found dedicated may
\* be enabled as shared with a dedicated register, and one whose page
\* requests were disabled since may still block on fault, whatever the
\* comment of wq_prs_disable_store (sysfs.c:1135) says.
RegistersMatch ==
    \A w \in Wqs :
        configurable /\ devState = "enabled" /\ wq[w].state = "enabled" =>
            /\ hw[w].size = wq[w].size /\ hw[w].thr = wq[w].thr
            /\ hw[w].prs = wq[w].prs /\ hw[w].tuned = wq[w].tuned
            /\ wq[w].ded => hw[w].mode
            /\ wq[w].bof => hw[w].bof

\* The books of the groups: types, read buffers and members, across stores,
\* bindings, halts and resets (sysfs.c, idxd_device_clear_state).
Accounts == TypeOK /\ RdbufsFit /\ CountsAgree

\* An enabled queue of a configurable device is one the device can run, and
\* the device has what its attributes say, except that the mode and block on
\* fault bits may be set where the attributes are not (drv_enable_wq,
\* idxd_wq_config_write, idxd_device_clear_state).
RunsAsConfigured == EnabledRunnable /\ RegistersMatch

-----------------------------------------------------------------------------
(* What the properties need to be inductive.                               *)

\* Block on fault and the disabling of page requests exclude each other.
FaultHandling == \A w \in Wqs : wq[w].bof => ~wq[w].prs

\* The configuration write that enabled a queue gave it entries, and while
\* the device is up no store takes them away.
EnabledSized ==
    \A w \in Wqs :
        configurable /\ devState = "enabled" /\ wq[w].state = "enabled" =>
            wq[w].size # 0 \/ DefaultDepth = 0

DevInv ==
    /\ TypeOK /\ RdbufsFit /\ CountsAgree /\ EnabledRunnable /\ RegistersMatch
    /\ FaultHandling /\ EnabledSized
=============================================================================
