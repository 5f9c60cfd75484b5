-------------------------------- MODULE Accfg --------------------------------
(***************************************************************************)
(* An administrator configures the device of DevConfig through libaccfg.c  *)
(* (dto_and_libaccel).  A context reads the attributes once (add_wq); from *)
(* then on its setters write through to sysfs and keep what was written,   *)
(* and nothing that happens behind them reaches the context: not what the  *)
(* driver clears, not what is written to sysfs directly.  Two cached       *)
(* values decide something: the driver name of a queue or, when it is      *)
(* empty, its type selects the driver that accfg_wq_enable binds.          *)
(***************************************************************************)
EXTENDS DevConfig

VARIABLES
    cacheType,  \* wq->type of the context
    cacheDrv,   \* wq->driver_name of the context
    pending     \* an accfg_wq_control that has written to bind or unbind

libVars == <<cacheType, cacheDrv, pending>>
allVars == <<vars, libVars>>

\* The state a call expects, and its queue.
NoCall == [op |-> "none", wq |-> 0]
Call(op, w) == [op |-> op, wq |-> w]

\* add_wq: what the context remembers of the queues.
AddWqs == [type |-> [w \in Wqs |-> wq[w].type], drv |-> [w \in Wqs |-> wq[w].drv]]

AccfgInit ==
    /\ Init
    /\ cacheType = AddWqs.type /\ cacheDrv = AddWqs.drv
    /\ pending = NoCall

\* accfg_new and, on first use, add_wq.
AccfgNew ==
    /\ pending = NoCall
    /\ cacheType' = AddWqs.type /\ cacheDrv' = AddWqs.drv
    /\ UNCHANGED <<vars, pending>>

SetterFrame == pending = NoCall /\ UNCHANGED libVars

\* accfg_wq_set_field: the integer attributes.
AccfgWqSetField(w) ==
    /\ \/ \E v \in plan.size[w] : WqSizeStore(w, v)
       \/ \E g \in plan.group[w] : WqGroupIdStore(w, g)
       \/ \E v \in plan.bof[w] : WqBlockOnFaultStore(w, v)
       \/ \E v \in plan.prs[w] : WqPrsDisableStore(w, v)
       \/ \E v \in plan.thr[w] : WqThresholdStore(w, v)
       \/ w \in plan.tuned /\ \/ WqPriorityStore(w)
                                 \/ WqMaxBatchSizeStore(w)
                                 \/ WqAtsDisableStore(w)
    /\ SetterFrame

AccfgWqSetLongField(w) ==
    w \in plan.tuned /\ WqMaxTransferSizeStore(w) /\ SetterFrame

\* accfg_wq_set_str_field: mode and name, which decide nothing in the context.
AccfgWqSetStrField(w) ==
    /\ \/ \E d \in plan.ded[w] : WqModeStore(w, d)
       \/ WqNameStore(w)
    /\ SetterFrame

AccfgWqSetStrType(w) ==
    /\ pending = NoCall
    /\ \E t \in plan.type[w] :
          WqTypeStore(w, t) /\ cacheType' = [cacheType EXCEPT ![w] = t]
    /\ UNCHANGED <<cacheDrv, pending>>

\* accfg_wq_set_str_driver_name
AccfgWqSetStrDriverName(w) ==
    /\ pending = NoCall
    /\ \E d \in plan.drv[w] :
          WqDriverNameStore(w, d) /\ cacheDrv' = [cacheDrv EXCEPT ![w] = d]
    /\ UNCHANGED <<cacheType, pending>>

\* driver_name written without the library.
EchoDriverName(w) ==
    (\E d \in plan.drv[w] : WqDriverNameStore(w, d)) /\ SetterFrame

AccfgWqSetOpConfig(w) ==
    w \in plan.tuned /\ WqOpConfigStore(w) /\ SetterFrame

AccfgGroupSetField(g) ==
    /\ \/ \E v \in plan.reserved[g] : GroupReadBuffersReservedStore(g, v)
       \/ \E v \in plan.allowed[g] : GroupReadBuffersAllowedStore(g, v)
    /\ SetterFrame

AccfgEngineSetField(e) ==
    (\E g \in plan.engine[e] : EngineGroupIdStore(e, g)) /\ SetterFrame

\* accfg_device_control.  Applications that have a queue open are outside
\* this module: the count of clients it reads can be anything.  A refused
\* call (-EPERM) has written nothing and is not a step.
AccfgDeviceEnable == DeviceDrvProbe /\ SetterFrame

Allowed(clients, force) == clients > 0 => force

AccfgDeviceDisable ==
    \E clients \in 0 .. 1, force \in BOOLEAN :
        Allowed(clients, force) /\ DeviceDrvRemove /\ SetterFrame

\* Variant: only the type decides.
PortalTyped(w) ==
    CASE cacheType[w] = "kernel" -> "dmaengine"
      [] cacheType[w] = "user" -> "user" [] OTHER -> "none"

\* The name in the path of bind: the driver name, when there is one, or the
\* driver IDXD_WQ_DEVICE_PORTAL has for the type.
Portal(w) ==
    IF cacheDrv[w] # "none" THEN cacheDrv[w]
    ELSE CASE cacheType[w] = "kernel" -> "dmaengine"
           [] cacheType[w] = "user" -> "user" [] OTHER -> "none"

\* accfg_wq_control, up to its write to bind, which needs a driver of that
\* name (-ENOENT); a write that fails returns.
AccfgWqEnable(w) ==
    /\ pending = NoCall /\ Portal(w) \in {"dmaengine", "user"}
    /\ WqDrvProbe(w, Portal(w))
    /\ pending' = IF bound'[w] # "none" THEN Call("enabled", w) ELSE NoCall
    /\ UNCHANGED <<cacheType, cacheDrv>>

AccfgWqDisable(w) ==
    /\ pending = NoCall
    /\ \E clients \in 0 .. 1, force \in BOOLEAN : Allowed(clients, force)
    /\ WqDrvRemove(w)
    /\ pending' = Call("disabled", w)
    /\ UNCHANGED <<cacheType, cacheDrv>>

\* accfg_wq_state_expected: the state is read back and decides what the call
\* returns; by then a halt may have changed it.
AccfgWqVerify ==
    /\ pending # NoCall
    /\ pending' = NoCall
    /\ UNCHANGED <<vars, cacheType, cacheDrv>>

\* bind_store of compat.c: the type the driver has selects the driver.
CompatBindStore(w) ==
    /\ bound[w] = "none" /\ wq[w].type # "none"
    /\ WqDrvProbe(w, IF wq[w].type = "kernel" THEN "dmaengine" ELSE "user")
    /\ SetterFrame

AccfgNext ==
    \/ AccfgNew \/ AccfgDeviceEnable \/ AccfgDeviceDisable \/ AccfgWqVerify
    \/ \E w \in Wqs : \/ AccfgWqSetField(w) \/ AccfgWqSetLongField(w)
                      \/ AccfgWqSetStrField(w) \/ AccfgWqSetStrType(w)
                      \/ AccfgWqSetOpConfig(w)
                      \/ AccfgWqSetStrDriverName(w) \/ EchoDriverName(w)
                      \/ AccfgWqEnable(w) \/ AccfgWqDisable(w) \/ CompatBindStore(w)
    \/ \E g \in Groups : AccfgGroupSetField(g)
    \/ \E e \in Engines : AccfgEngineSetField(e)
    \/ KernelEvent /\ UNCHANGED libVars

-----------------------------------------------------------------------------
\* When accfg_wq_enable reads back "enabled" and returns success, the queue
\* is bound to the driver that the driver name of the context asks for or,
\* without one, to the driver of the type the context believes in; it has
\* that driver's type, and its driver_name in sysfs lets that driver have it
\* (libaccfg.c:2088-2099, idxd_wq_driver_name_match), although the context
\* never looks at either again.  With a driver name the type the context
\* believes in may be another one.
EnabledAsAsked ==
    \A w \in Wqs :
        pending = Call("enabled", w) /\ wq[w].state = pending.op =>
            /\ IF cacheDrv[w] # "none" THEN bound[w] = cacheDrv[w]
                                       ELSE wq[w].type = cacheType[w]
            /\ \/ bound[w] = "user" /\ wq[w].type = "user"
                                   /\ wq[w].drv \in {"user", "username"}
               \/ bound[w] = "dmaengine" /\ wq[w].type = "kernel"
                                        /\ wq[w].drv = "dmaengine"

AccfgSpec == AccfgInit /\ [][AccfgNext]_allVars

-----------------------------------------------------------------------------
(* The inductive invariant.                                                *)

CacheTypeOK ==
    /\ cacheType \in [Wqs -> {"none", "kernel", "user"}]
    /\ cacheDrv \in [Wqs -> DriverNames]
    /\ pending \in [op : {"none", "enabled", "disabled"}, wq : Wqs \cup {0}]

\* Between the write to bind and the look at the state the queue keeps its
\* driver.  It keeps its type while it is enabled; where nothing clears the
\* queues, even when it is not, because a reinitialization may enable it.
CallPending ==
    \A w \in Wqs : pending = Call("enabled", w) =>
        /\ bound[w] = Portal(w) /\ bound[w] # "none"
        /\ DriverNameMatch(wq[w].drv, bound[w])
        /\ wq[w].state = "enabled" \/ ~configurable => wq[w].type = TypeOf(bound[w])

ConfigInv == DevInv /\ CacheTypeOK /\ CallPending
=============================================================================
