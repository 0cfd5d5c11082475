---------------------------- MODULE OperationMode ----------------------------
(***************************************************************************)
(* The operation mode of the gateway (gateway_modbus_sbc.py): the hot      *)
(* switch between the digital twin and the physical plant, the guard that  *)
(* refuses orders to a plant whose watchdog %MW256 stands still, and the   *)
(* telemetry publisher, another process, that follows the mode through a   *)
(* file.                                                                   *)
(*                                                                         *)
(* Commands are handled one at a time; the monitor of the watchdog is a    *)
(* second task, and a Modbus read is two steps: the PLC answers, then the  *)
(* task goes on.  A unit of time is longer than a round of the monitor and *)
(* the timeout of a read, and shorter than the freeze threshold.  The      *)
(* values of a watchdog are told apart by the instant they appeared at,    *)
(* and those of the two PLCs never coincide.                               *)
(***************************************************************************)
EXTENDS Integers

CONSTANTS
    Default,        \* OPERATION_MODE, from systemd
    Freeze,         \* WATCHDOG_FREEZE_THRESHOLD_SEC
    MaxTime         \* bound of the model: the last instant

Modes == {"simulation", "real"}

(* watchdog_strict of the two modes, by default.                           *)
Strict == {"real"}

ASSUME DefaultAssumption == Default \in Modes
ASSUME FreezeAssumption  == Freeze \in Nat \ {0} /\ MaxTime \in Nat

VARIABLES
    now,
    wd,             \* the instant the watchdog of each PLC last moved
    mode,           \* self.operation_mode
    target,         \* the PLC of self.modbus, "none" before start connected
    linked,         \* self.modbus.connected
    sample,         \* last_plc_watchdog
    changedAt,      \* last_plc_watchdog_change
    monitor,        \* the value the read of the monitor is to return
    sampled,        \* the monitor finished a round in this unit
    stage,          \* the command handler
    wanted,         \* the mode being switched to
    check,          \* the value the read of the guard is to return
    file,           \* operation_mode.json; "torn" when empty or cut short
    telemetry,      \* the mode the publisher reads and labels data for
    blindAt,        \* history: last instant without a view of the PLC
    unsaved,        \* history: writing the file failed at the last switch
    confirmed,      \* history: the operator confirmed the plant since start
    blocked         \* history: an order was refused on this connection
                    \* because the watchdog stood still

plcs    == <<now, wd>>
link    == <<mode, target, linked>>
view    == <<sample, changedAt, monitor, sampled>>
handler == <<stage, wanted, check>>
shared  == <<file, telemetry>>
ghosts  == <<blindAt, unsaved, confirmed, blocked>>
vars    == <<plcs, link, view, handler, shared, ghosts>>

Value  == Modes \X Nat
NoRead == <<"none", 0>>

TypeOK ==
    /\ now \in Nat
    /\ wd \in [Modes -> Nat]
    /\ mode \in Modes
    /\ target \in Modes \cup {"none"}
    /\ linked \in BOOLEAN
    /\ sample \in Value \cup {NoRead}
    /\ changedAt \in Nat
    /\ monitor \in Value \cup {NoRead}
    /\ sampled \in BOOLEAN
    /\ stage \in {"idle", "connect", "open", "save", "guard", "write", "refused"}
    /\ wanted \in Modes
    /\ check \in Value \cup {NoRead}
    /\ file \in Modes \cup {"torn"}
    /\ telemetry \in Modes
    /\ blindAt \in Nat
    /\ unsaved \in BOOLEAN
    /\ confirmed \in BOOLEAN
    /\ blocked \in BOOLEAN

(* The gateway starts, and finds the file an earlier run left.             *)
Init ==
    /\ now = 0 /\ wd = [p \in Modes |-> 0]
    /\ mode = Default /\ target = "none" /\ linked = FALSE
    /\ sample = NoRead /\ changedAt = 0 /\ monitor = NoRead /\ sampled = FALSE
    /\ stage = "connect" /\ wanted = Default /\ check = NoRead
    /\ file \in Modes \cup {"torn"} /\ telemetry \in Modes
    /\ blindAt = 0 /\ unsaved = FALSE /\ confirmed = FALSE /\ blocked = FALSE

----------------------------------------------------------------------------
(* The watchdog.                                                           *)

(* A read of %MW256 answered by the PLC at this instant.                   *)
Reading == <<target, wd[target]>>

(* Mutant: every read counts as a sign of life.                            *)
ObserveAnyway(v) ==
    /\ sample' = v
    /\ changedAt' = now

(* What monitor_plc_watchdog and _refresh_plc_watchdog_once do of a value. *)
Observe(v) ==
    /\ sample' = v
    /\ changedAt' = IF v # sample THEN now ELSE changedAt

(* The tasks of the gateway run while no other one computes.               *)
TaskRuns == stage \notin {"open", "save"}

MonitorReads ==
    /\ TaskRuns
    /\ linked
    /\ monitor = NoRead
    /\ monitor' = Reading
    /\ UNCHANGED <<plcs, link, sample, changedAt, sampled, handler, shared, ghosts>>

(* The client may have changed since the read was sent.                    *)
MonitorReturns ==
    /\ TaskRuns
    /\ monitor # NoRead
    /\ Observe(monitor)
    /\ monitor' = NoRead
    /\ sampled' = TRUE
    /\ UNCHANGED <<plcs, link, handler, shared, ghosts>>

(* A read ends in an error, or its client was closed.                      *)
MonitorFails ==
    /\ TaskRuns
    /\ monitor # NoRead
    /\ monitor' = NoRead
    /\ sampled' = TRUE
    /\ blindAt' = now
    /\ UNCHANGED <<plcs, link, sample, changedAt, handler, shared, unsaved, confirmed, blocked>>

----------------------------------------------------------------------------
(* Orders: _assert_commands_allowed, then the writes of the order.         *)

ReceiveOrder ==
    /\ stage = "idle"
    /\ linked
    /\ \/ mode \in Strict /\ stage' = "guard" /\ check' = Reading
       \/ mode \notin Strict /\ stage' = "write" /\ UNCHANGED check
    /\ UNCHANGED <<plcs, link, view, wanted, shared, ghosts>>

(* Mutant: the verdict does not wait for the value just read.              *)
FrozenBefore == now - changedAt > Freeze

Frozen == now - changedAt' > Freeze

GuardDecides ==
    /\ stage = "guard"
    /\ Observe(check)
    /\ stage' = IF Frozen THEN "refused" ELSE "write"
    /\ blocked' = (blocked \/ Frozen)
    /\ check' = NoRead
    /\ UNCHANGED <<plcs, link, monitor, sampled, wanted, shared, blindAt, unsaved, confirmed>>

(* watchdog_strict_blocked:cannot_read_mw256                               *)
GuardCannotRead ==
    /\ stage = "guard"
    /\ stage' = "idle"
    /\ check' = NoRead
    /\ UNCHANGED <<plcs, link, view, wanted, shared, ghosts>>

OrderDone ==
    /\ stage \in {"write", "refused"}
    /\ stage' = "idle"
    /\ UNCHANGED <<plcs, link, view, wanted, check, shared, ghosts>>

----------------------------------------------------------------------------
(* The switch: _handle_set_operation_mode, _connect_modbus_for_mode.       *)

(* Mutant: the confirmation is not asked for.                              *)
RequestUnconfirmed(m, phrase) ==
    /\ stage = "idle" /\ target # "none"
    /\ stage' = "connect"
    /\ wanted' = m
    /\ confirmed' = (confirmed \/ phrase)
    /\ UNCHANGED <<plcs, link, view, check, shared, blindAt, unsaved, blocked>>

(* Mutant: an alias of the mode is not normalised.                         *)
RequestRaw(m, phrase) ==
    /\ stage = "idle" /\ target # "none"
    /\ m = "real" => phrase
    /\ stage' = "connect"
    /\ wanted' = IF m = "real" THEN "live" ELSE m
    /\ confirmed' = (confirmed \/ (m = "real" /\ phrase))
    /\ UNCHANGED <<plcs, link, view, check, shared, blindAt, unsaved, blocked>>

(* `phrase`: the payload carries OPERATION_MODE_REAL_CONFIRMATION.         *)
RequestMode(m, phrase) ==
    /\ stage = "idle" /\ target # "none"
    /\ m = "real" => phrase
    /\ stage' = "connect"
    /\ wanted' = m
    /\ confirmed' = (confirmed \/ (m = "real" /\ phrase))
    /\ UNCHANGED <<plcs, link, view, check, shared, blindAt, unsaved, blocked>>

ConnectSucceeds ==
    /\ stage = "connect"
    /\ target' = wanted
    /\ mode' = wanted
    /\ linked' = TRUE
    /\ sample' = NoRead
    /\ changedAt' = now
    /\ stage' = "open"
    /\ blindAt' = now
    /\ blocked' = FALSE
    /\ UNCHANGED <<plcs, monitor, sampled, wanted, check, shared, unsaved, confirmed>>

(* Mutant: the mode changes although the connection failed.                *)
ConnectFailsLate ==
    /\ stage = "connect"
    /\ target # "none"
    /\ mode' = wanted
    /\ stage' = "idle"
    /\ UNCHANGED <<plcs, target, linked, view, wanted, check, shared, ghosts>>

(* The handler answers with an error and keeps the client it had.  At the  *)
(* start the process ends instead, and systemd starts it again.            *)
ConnectFails ==
    /\ stage = "connect"
    /\ target # "none"
    /\ stage' = "idle"
    /\ UNCHANGED <<plcs, link, view, wanted, check, shared, ghosts>>

(* save_operation_mode_state opens the file, which empties it, and then    *)
(* writes it.                                                              *)
OpenState ==
    /\ stage = "open"
    /\ file' = "torn"
    /\ stage' = "save"
    /\ UNCHANGED <<plcs, link, view, wanted, check, telemetry, ghosts>>

(* Mutant: the file keeps an old mode.                                     *)
KeepState ==
    /\ stage = "save"
    /\ file' = Default
    /\ stage' = "idle"
    /\ unsaved' = FALSE
    /\ UNCHANGED <<plcs, link, view, wanted, check, telemetry,
                   blindAt, confirmed, blocked>>

SaveState ==
    /\ stage = "save"
    /\ file' = mode
    /\ stage' = "idle"
    /\ unsaved' = FALSE
    /\ UNCHANGED <<plcs, link, view, wanted, check, telemetry,
                   blindAt, confirmed, blocked>>

(* A file that cannot be opened stays as it was, one that cannot be        *)
(* written stays empty.  Either way the error is logged, and the switch    *)
(* has succeeded.                                                          *)
SaveFails ==
    /\ stage \in {"open", "save"}
    /\ stage' = "idle"
    /\ unsaved' = TRUE
    /\ UNCHANGED <<plcs, link, view, wanted, check, shared,
                   blindAt, confirmed, blocked>>

(* The process dies, at any moment, and is started again.                  *)
Crash ==
    /\ mode' = Default /\ target' = "none" /\ linked' = FALSE
    /\ sample' = NoRead /\ changedAt' = now /\ monitor' = NoRead
    /\ stage' = "connect" /\ wanted' = Default /\ check' = NoRead
    /\ blindAt' = now /\ unsaved' = FALSE /\ confirmed' = FALSE /\ blocked' = FALSE
    /\ UNCHANGED <<plcs, sampled, shared>>

----------------------------------------------------------------------------
(* The publisher takes a file it cannot read for the default mode.         *)
TelemetryLoop ==
    /\ telemetry' = IF file = "torn" THEN Default ELSE file
    /\ UNCHANGED <<plcs, link, view, handler, file, ghosts>>

----------------------------------------------------------------------------
(* The surroundings.  The client library connects again by itself.         *)

LinkDrops ==
    /\ linked
    /\ linked' = FALSE
    /\ UNCHANGED <<plcs, mode, target, view, handler, shared, ghosts>>

LinkReturns ==
    /\ ~linked
    /\ target # "none"
    /\ linked' = TRUE
    /\ blindAt' = now
    /\ UNCHANGED <<plcs, mode, target, view, handler, shared, unsaved, confirmed, blocked>>

PlcTicks(p) ==
    /\ wd[p] < now
    /\ wd' = [wd EXCEPT ![p] = now]
    /\ UNCHANGED <<now, link, view, handler, shared, ghosts>>

Tick ==
    /\ now < MaxTime
    /\ linked => sampled
    /\ monitor = NoRead
    /\ stage \notin {"guard", "open", "save"}
    /\ now' = now + 1
    /\ sampled' = FALSE
    /\ UNCHANGED <<wd, link, sample, changedAt, monitor, handler, shared, ghosts>>

Next ==
    \/ MonitorReads \/ MonitorReturns \/ MonitorFails
    \/ ReceiveOrder \/ GuardDecides \/ GuardCannotRead \/ OrderDone
    \/ \E m \in Modes, phrase \in BOOLEAN : RequestMode(m, phrase)
    \/ ConnectSucceeds \/ ConnectFails
    \/ OpenState \/ SaveState \/ SaveFails \/ Crash
    \/ TelemetryLoop
    \/ LinkDrops \/ LinkReturns
    \/ \E p \in Modes : PlcTicks(p)
    \/ Tick

Spec == Init /\ [][Next]_vars

(* The publisher loops for ever.                                           *)
Fairness == WF_vars(TelemetryLoop)

FairSpec == Spec /\ Fairness

----------------------------------------------------------------------------
LastSign == IF blindAt > wd["real"] THEN blindAt ELSE wd["real"]

(* An order is let through to the plant only when its watchdog moved       *)
(* within the threshold (and the round of the monitor that saw it), or     *)
(* when the gateway had no view of it within that time: just connected, or *)
(* a read that failed.                                                     *)
FrozenPlantRefused ==
    [][stage = "guard" /\ stage' = "write" /\ target = "real"
         => now - LastSign <= Freeze + 1]_vars

(* An order is not refused for a watchdog that moved within the threshold. *)
LivePlantServed ==
    [][stage = "guard" /\ stage' = "refused"
         => now - check[2] > Freeze]_vars

(* The mode the gateway reports and the PLC it is connected to are the     *)
(* same, whatever switches failed; and between two switches the file it    *)
(* left for the publisher names another mode, or none, only when writing   *)
(* it failed at the last switch that succeeded.                            *)
OneMode ==
    target # "none" =>
        /\ target = mode
        /\ stage \notin {"open", "save"} /\ ~unsaved => file = mode

(* Only a confirmation given since the last start brings the plant under   *)
(* command: no file left by an earlier run does.                           *)
PlantOnlyIfConfirmed ==
    Default # "real" /\ target = "real" => confirmed

(* When the mode settles, and its file could be written, the telemetry     *)
(* ends up following it, whatever the publisher read of a file half        *)
(* written.                                                                *)
TelemetryFollows ==
    \A m \in Modes :
        <>[](stage = "idle" /\ target = m /\ ~unsaved) => <>[](telemetry = m)

(* PRD_SELECTEUR_MODE_OPERATIONNEL_SIMULATION_REEL, section 9: in real     *)
(* mode, orders are blocked when %MW256 is frozen.                         *)
FrozenPlantNeverCommanded ==
    [][stage = "guard" /\ stage' = "write" /\ target = "real"
         => now - wd["real"] <= Freeze + 1]_vars

(* The same, section 8: once blocked, the plant is armed again by the      *)
(* acknowledgement of the operator, or by a new switch.                    *)
BlockedUntilAcknowledged ==
    [][stage = "guard" /\ stage' = "write" => ~blocked]_vars
=============================================================================
