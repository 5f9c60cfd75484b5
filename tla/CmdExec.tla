------------------------------ MODULE CmdExec -------------------------------
(***************************************************************************)
(* The command interface of an idxd device (device.c, irq.c): commands     *)
(* that sleep until the misc interrupt completes them (idxd_cmd_exec), the *)
(* one that is polled (idxd_device_release_int_handle), the command part   *)
(* of the misc interrupt thread and, as far as the driver relies on it,    *)
(* the device.  Any thread may execute any command at any time.            *)
(***************************************************************************)
EXTENDS Integers, FiniteSets

CONSTANTS
    NumWqs,
    Threads,        \* threads that execute commands
    NoThread,
    RequestHandles, \* does hw.cmd_cap have the interrupt-handle commands?
    MayFail,        \* may the device refuse a command?
    MayHalt         \* may the device halt?

ASSUME CmdParameters ==
    /\ NumWqs \in Nat
    /\ NoThread \notin Threads
    /\ {RequestHandles, MayFail, MayHalt} \subseteq BOOLEAN

Wqs == 1 .. NumWqs
Device == 0                        \* the operand of a device command

DevOps == {"enable_dev", "disable_dev", "reset_dev", "drain_pasid", "request",
           "release"}
WqOps == {"enable_wq", "disable_wq", "drain_wq", "reset_wq"}
Commands == (DevOps \X {Device}) \cup (WqOps \X Wqs)
Results == {"ok", "already", "err", "hw_err"}

VARIABLES
    cmdLock,     \* holder of idxd->cmd_lock during a polled command
    running,     \* IDXD_FLAG_CMD_RUNNING
    cmdDone,     \* whose on-stack completion idxd->cmd_done points to
    done,        \* threads whose completion has been completed
    cpc, cmd,    \* of each thread: step of the execution, the command
    status,      \* of each thread: what it read from CMDSTS
    regCmd,      \* the command the device is executing
    regSts,      \* CMDSTS: whose command it is about, and its result
    causes,      \* INTCAUSE
    latched,     \* causes the misc thread has read and not yet handled
    genState,    \* GENSTS
    hwWq         \* work queues the device has enabled

callVars == <<cpc, cmd, status>>
slotVars == <<cmdLock, running, cmdDone, done>>
regVars == <<regCmd, regSts>>
hwVars == <<genState, hwWq>>
cmdVars == <<callVars, slotVars, regVars, causes, latched, hwVars>>

NoCmd == [who |-> NoThread, cmd |-> <<"release", Device>>, intr |-> FALSE]
HwErr == [who |-> NoThread, res |-> "hw_err"]
CmdIdle == regCmd = NoCmd             \* IDXD_CMDSTS_ACTIVE is clear

\* The interrupts are set up after idxd_device_init_reset.
CmdInit ==
    /\ cmdLock = NoThread /\ running = FALSE /\ cmdDone = NoThread /\ done = {}
    /\ cpc = [t \in Threads |-> "ready"]
    /\ cmd = [t \in Threads |-> NoCmd.cmd]
    /\ status = [t \in Threads |-> HwErr]
    /\ regCmd = NoCmd /\ regSts = HwErr
    /\ causes = {} /\ latched = {}
    /\ genState = "disabled" /\ hwWq = {}

CmdGoto(t, l) == cpc' = [cpc EXCEPT ![t] = l]

-----------------------------------------------------------------------------
(* A caller hands over a command and later takes its status.               *)

Call(t, c) ==
    /\ cpc[t] = "ready"
    /\ cmd' = [cmd EXCEPT ![t] = c]
    /\ CmdGoto(t, IF c[1] = "release" THEN "polled" ELSE "check")
    /\ UNCHANGED <<status, slotVars, regVars, causes, latched, hwVars>>

Return(t) ==
    /\ cpc[t] = "ret"
    /\ CmdGoto(t, "ready")
    /\ cmd' = [cmd EXCEPT ![t] = NoCmd.cmd]
    /\ status' = [status EXCEPT ![t] = HwErr]
    /\ UNCHANGED <<slotVars, regVars, causes, latched, hwVars>>

\* iowrite32 to IDXD_CMD_OFFSET: an active device ignores it.
WriteCmd(t, intr) ==
    regCmd' = IF CmdIdle THEN [who |-> t, cmd |-> cmd[t], intr |-> intr]
                      ELSE regCmd

\* ioread32 of IDXD_CMDSTS_OFFSET; with the active bit set it is no success.
ReadStatus(t) ==
    status' = [status EXCEPT ![t] =
                 IF CmdIdle THEN regSts ELSE [who |-> regCmd.who, res |-> "err"]]

\* idxd_cmd_exec: a halted device is not asked.
CmdCheck(t) ==
    /\ cpc[t] = "check"
    /\ IF genState = "halt"
       THEN status' = [status EXCEPT ![t] = HwErr] /\ CmdGoto(t, "ret")
       ELSE UNCHANGED status /\ CmdGoto(t, "slot")
    /\ UNCHANGED <<cmd, slotVars, regVars, causes, latched, hwVars>>

\* Variant: the wait for IDXD_FLAG_CMD_RUNNING is missing.
CmdSendAnyway(t) ==
    /\ cpc[t] = "slot"
    /\ cmdLock = NoThread
    /\ running' = TRUE /\ cmdDone' = t
    /\ WriteCmd(t, TRUE)
    /\ CmdGoto(t, "sleep")
    /\ UNCHANGED <<cmd, status, cmdLock, done, regSts, causes, latched, hwVars>>

\* Variant: cmd_done is not set.
CmdSendUnset(t) ==
    /\ cpc[t] = "slot"
    /\ cmdLock = NoThread /\ ~running
    /\ running' = TRUE
    /\ WriteCmd(t, TRUE)
    /\ CmdGoto(t, "sleep")
    /\ UNCHANGED <<cmd, status, cmdLock, cmdDone, done, regSts, causes, latched,
                   hwVars>>

\* Under cmd_lock, once no other command is running.
CmdSend(t) ==
    /\ cpc[t] = "slot"
    /\ cmdLock = NoThread /\ ~running
    /\ running' = TRUE /\ cmdDone' = t
    /\ WriteCmd(t, TRUE)
    /\ CmdGoto(t, "sleep")
    /\ UNCHANGED <<cmd, status, cmdLock, done, regSts, causes, latched, hwVars>>

\* wait_for_completion(&done), then the status is read without the lock.
CmdWake(t) ==
    /\ cpc[t] = "sleep" /\ t \in done
    /\ done' = done \ {t}
    /\ ReadStatus(t)
    /\ CmdGoto(t, "clear")
    /\ UNCHANGED <<cmd, cmdLock, running, cmdDone, regVars, causes, latched,
                   hwVars>>

\* Variant: the running bit is not cleared.
CmdClearNot(t) ==
    /\ cpc[t] = "clear"
    /\ cmdLock = NoThread
    /\ CmdGoto(t, "ret")
    /\ UNCHANGED <<cmd, status, slotVars, regVars, causes, latched, hwVars>>

CmdClear(t) ==
    /\ cpc[t] = "clear"
    /\ cmdLock = NoThread
    /\ running' = FALSE
    /\ CmdGoto(t, "ret")
    /\ UNCHANGED <<cmd, status, cmdLock, cmdDone, done, regVars, causes,
                   latched, hwVars>>

\* idxd_device_release_int_handle: cmd_lock is held throughout, the running
\* bit is not looked at.
ReleaseSend(t) ==
    /\ cpc[t] = "polled"
    /\ cmdLock = NoThread
    /\ cmdLock' = t
    /\ WriteCmd(t, FALSE)
    /\ CmdGoto(t, "poll")
    /\ UNCHANGED <<cmd, status, running, cmdDone, done, regSts, causes, latched,
                   hwVars>>

\* Variant: the active bit is not polled.
ReleaseNoPoll(t) ==
    /\ cpc[t] = "poll"
    /\ ReadStatus(t)
    /\ cmdLock' = NoThread
    /\ CmdGoto(t, "ret")
    /\ UNCHANGED <<cmd, running, cmdDone, done, regVars, causes, latched, hwVars>>

ReleasePoll(t) ==
    /\ cpc[t] = "poll" /\ CmdIdle
    /\ ReadStatus(t)
    /\ cmdLock' = NoThread
    /\ CmdGoto(t, "ret")
    /\ UNCHANGED <<cmd, running, cmdDone, done, regVars, causes, latched, hwVars>>

CmdStep(t) ==
    \/ CmdCheck(t) \/ CmdSend(t) \/ CmdWake(t) \/ CmdClear(t)
    \/ ReleaseSend(t) \/ ReleasePoll(t)

-----------------------------------------------------------------------------
(* The misc interrupt thread.                                              *)

MiscRead ==
    /\ latched = {} /\ causes # {}
    /\ latched' = causes /\ causes' = {}
    /\ UNCHANGED <<callVars, slotVars, regVars, hwVars>>

MiscCmd ==
    /\ latched = {"cmd"}
    /\ done' = done \cup {cmdDone}
    /\ latched' = {}
    /\ UNCHANGED <<callVars, cmdLock, running, cmdDone, regVars, causes, hwVars>>

\* A halt is handled in place of everything else that has been read.
MiscHalt ==
    /\ "halt" \in latched
    /\ latched' = {}
    /\ UNCHANGED <<callVars, slotVars, regVars, causes, hwVars>>

-----------------------------------------------------------------------------
(* The device.                                                             *)

Result(c) ==
    LET op == c[1]  w == c[2]
    IN  CASE op = "enable_dev" -> IF genState = "disabled" THEN "ok" ELSE "already"
          [] op = "disable_dev" -> IF genState = "enabled" THEN "ok" ELSE "err"
          [] op = "enable_wq" -> IF genState # "enabled" THEN "err"
                                 ELSE IF w \in hwWq THEN "already" ELSE "ok"
          [] op \in WqOps \ {"enable_wq"} -> IF w \in hwWq THEN "ok" ELSE "err"
          [] OTHER -> "ok"

Apply(c) ==
    LET op == c[1]  w == c[2]
    IN  /\ genState' = CASE op = "enable_dev" -> "enabled"
                         [] op \in {"disable_dev", "reset_dev"} -> "disabled"
                         [] OTHER -> genState
        /\ hwWq' = CASE op = "enable_wq" -> hwWq \cup {w}
                     [] op \in {"disable_wq", "reset_wq"} -> hwWq \ {w}
                     [] op \in {"disable_dev", "reset_dev"} -> {}
                     [] OTHER -> hwWq

DevFinish ==
    /\ ~CmdIdle
    /\ \E r \in Results :
          /\ \/ genState # "halt" /\ r = Result(regCmd.cmd)
             \/ (MayFail \/ genState = "halt") /\ r = "err"
          /\ regSts' = [who |-> regCmd.who, res |-> r]
          /\ IF r = "ok" THEN Apply(regCmd.cmd) ELSE UNCHANGED hwVars
    /\ causes' = IF regCmd.intr THEN causes \cup {"cmd"} ELSE causes
    /\ regCmd' = NoCmd
    /\ UNCHANGED <<callVars, slotVars, latched>>

DevHalt ==
    /\ MayHalt /\ genState = "enabled"
    /\ genState' = "halt" /\ hwWq' = {}
    /\ causes' = causes \cup {"halt"}
    /\ UNCHANGED <<callVars, slotVars, regVars, latched>>

-----------------------------------------------------------------------------
\* hw.cmd_cap: only some devices have the interrupt-handle commands.
Allowed(c) == c[1] \in {"request", "release"} => RequestHandles

CmdNext ==
    \/ \E t \in Threads :
          \/ \E c \in Commands : Allowed(c) /\ Call(t, c)
          \/ Return(t) \/ CmdStep(t)
    \/ MiscRead \/ MiscCmd \/ MiscHalt \/ DevFinish \/ DevHalt

CmdSpec == CmdInit /\ [][CmdNext]_cmdVars

\* The threads and the misc interrupt run whenever they can, and the device
\* completes every command.  cmd_lock is a queued spin lock: a thread that waits
\* for it gets it although others keep taking it.
CmdFairness ==
    /\ \A t \in Threads : WF_cmdVars(CmdStep(t)) /\ SF_cmdVars(CmdClear(t))
    /\ WF_cmdVars(MiscRead) /\ WF_cmdVars(MiscCmd) /\ WF_cmdVars(DevFinish)

CmdFairSpec == CmdSpec /\ CmdFairness

CmdTypeOK ==
    /\ cmdLock \in Threads \cup {NoThread} /\ running \in BOOLEAN
    /\ cmdDone \in Threads \cup {NoThread} /\ done \in SUBSET Threads
    /\ cpc \in [Threads -> {"ready", "check", "slot", "sleep", "clear",
                            "polled", "poll", "ret"}]
    /\ cmd \in [Threads -> Commands \cup {NoCmd.cmd}]
    /\ status \in [Threads -> [who : Threads \cup {NoThread}, res : Results]]
    /\ regCmd \in [who : Threads, cmd : Commands, intr : BOOLEAN] \cup {NoCmd}
    /\ regSts \in [who : Threads \cup {NoThread}, res : Results]
    /\ causes \in SUBSET {"cmd", "halt"} /\ latched \in SUBSET {"cmd", "halt"}
    /\ genState \in {"disabled", "enabled", "halt"} /\ hwWq \in SUBSET Wqs

\* The interrupt of a command finds its caller asleep on the completion that
\* cmd_done points to, on that caller's stack, and only one such interrupt is
\* on its way (idxd_cmd_exec, idxd_misc_thread).
WakeFindsSleeper ==
    /\ "cmd" \in latched \cup causes
          => running /\ cpc[cmdDone] = "sleep" /\ cmdDone \notin done
    /\ ~("cmd" \in latched /\ "cmd" \in causes)

\* The command interface executes one sleeping command at a time, and what is
\* on its way to its caller (the command, its interrupt, its completion) is
\* there at most once (IDXD_FLAG_CMD_RUNNING, cmd_done).
InSlot == {t \in Threads : cpc[t] \in {"sleep", "clear"}}

SlotInv ==
    /\ running <=> InSlot # {}
    /\ InSlot \subseteq {cmdDone}
    /\ done \subseteq {t \in Threads : cpc[t] = "sleep"}
    /\ regCmd.intr => /\ regCmd.who = cmdDone /\ cpc[cmdDone] = "sleep"
                      /\ cmdDone \notin done /\ "cmd" \notin latched \cup causes
    /\ WakeFindsSleeper
    /\ \A t \in Threads : cmdLock = t <=> cpc[t] = "poll"
    /\ ~CmdIdle /\ ~regCmd.intr => cmdLock = regCmd.who

\* A command that sleeps is never written to a device that is still busy, which
\* would ignore it and never wake the caller: not even the polled command, which
\* does not look at IDXD_FLAG_CMD_RUNNING, can be in its way
\* (idxd_cmd_exec, idxd_device_release_int_handle).
CommandReceived == ~running /\ cmdLock = NoThread => CmdIdle

\* A command that sleeps ends, unless the device halts: the thread is woken and
\* gives IDXD_FLAG_CMD_RUNNING back, whatever is polled meanwhile
\* (idxd_cmd_exec, idxd_misc_thread).
SlotFreed == running ~> (~running \/ genState = "halt")
=============================================================================
