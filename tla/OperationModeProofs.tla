------------------------- MODULE OperationModeProofs -------------------------
(***************************************************************************)
(* Proofs about OperationMode, for every threshold, bound and default      *)
(* mode.  The guard compares instants at which the gateway saw a value;    *)
(* the properties speak of instants at which the watchdog moved.  The      *)
(* invariant that joins them, ViewInv, says how old what the gateway knows *)
(* can be.                                                                 *)
(***************************************************************************)
EXTENDS OperationMode, TLAPS

USE DefaultAssumption, FreezeAssumption

LEMMA TypeInit == Init => TypeOK
<1> SUFFICES ASSUME Init
             PROVE  TypeOK
  OBVIOUS
<1>1. wd \in [Modes -> Nat]
  BY DEF Init
<1>2. sample = NoRead /\ monitor = NoRead /\ check = NoRead
  BY DEF Init
<1>3. linked \in BOOLEAN /\ sampled \in BOOLEAN /\ confirmed \in BOOLEAN
      /\ unsaved \in BOOLEAN /\ blocked \in BOOLEAN
  BY Zenon DEF Init
<1>4. QED
  BY <1>1, <1>2, <1>3 DEF Init, TypeOK

LEMMA ReadingType == TypeOK /\ target # "none" => Reading \in Value
BY DEF TypeOK, Reading, Value, Modes

(* The connection exists only once the start is over.                      *)
LinkedInv == linked \/ stage \in {"idle", "open", "save", "guard", "write", "refused"}
               => target # "none"

LEMMA TypeNext == TypeOK /\ LinkedInv /\ [Next]_vars => TypeOK'
<1> SUFFICES ASSUME TypeOK, LinkedInv, [Next]_vars
             PROVE  TypeOK'
  OBVIOUS
<1> USE DEF plcs, link, view, handler, shared, ghosts, vars
<1>1. CASE MonitorReads
  <2>1. Reading \in Value
    BY <1>1, ReadingType DEF MonitorReads, LinkedInv
  <2>2. QED
    BY <1>1, <2>1 DEF MonitorReads, TypeOK
<1>2. CASE MonitorReturns
  BY <1>2 DEF MonitorReturns, Observe, TypeOK
<1>3. CASE MonitorFails
  BY <1>3 DEF MonitorFails, TypeOK
<1>4. CASE ReceiveOrder
  <2>1. Reading \in Value
    BY <1>4, ReadingType DEF ReceiveOrder, LinkedInv
  <2>2. QED
    BY <1>4, <2>1 DEF ReceiveOrder, TypeOK
<1>5. CASE GuardDecides
  <2>1. blocked' \in BOOLEAN
    BY <1>5 DEF GuardDecides, TypeOK
  <2>2. QED
    BY <1>5, <2>1 DEF GuardDecides, Observe, TypeOK
<1>6. CASE GuardCannotRead \/ OrderDone
  BY <1>6 DEF GuardCannotRead, OrderDone, TypeOK
<1>7. CASE \E m \in Modes, phrase \in BOOLEAN : RequestMode(m, phrase)
  <2> PICK m \in Modes, phrase \in BOOLEAN : RequestMode(m, phrase)
    BY <1>7
  <2>1. confirmed' \in BOOLEAN
    BY DEF RequestMode
  <2>2. wanted' \in Modes /\ stage' = "connect"
    BY DEF RequestMode
  <2>3. UNCHANGED <<plcs, link, view, check, shared, blindAt, unsaved, blocked>>
    BY DEF RequestMode
  <2>4. QED
    BY <2>1, <2>2, <2>3 DEF TypeOK
<1>8. CASE ConnectSucceeds
  BY <1>8 DEF ConnectSucceeds, TypeOK
<1>9. CASE ConnectFails \/ OpenState \/ SaveState \/ SaveFails
  BY <1>9 DEF ConnectFails, OpenState, SaveState, SaveFails, TypeOK
<1>10. CASE Crash
  BY <1>10 DEF Crash, TypeOK
<1>11. CASE TelemetryLoop
  BY <1>11 DEF TelemetryLoop, TypeOK
<1>12. CASE LinkDrops \/ LinkReturns
  <2>1. unsaved' \in BOOLEAN /\ confirmed' \in BOOLEAN /\ blocked' \in BOOLEAN
    BY <1>12, Zenon DEF LinkDrops, LinkReturns, TypeOK
  <2>2. QED
    BY <1>12, <2>1 DEF LinkDrops, LinkReturns, TypeOK
<1>13. CASE \E p \in Modes : PlcTicks(p)
  BY <1>13 DEF PlcTicks, TypeOK
<1>14. CASE Tick
  <2>1. now' \in Nat /\ sampled' = FALSE
    BY <1>14 DEF Tick, TypeOK
  <2>2. UNCHANGED <<wd, link, sample, changedAt, monitor, handler, shared, ghosts>>
    BY <1>14 DEF Tick
  <2>3. /\ linked' \in BOOLEAN /\ unsaved' \in BOOLEAN
        /\ confirmed' \in BOOLEAN /\ blocked' \in BOOLEAN
    BY <2>2, Zenon DEF TypeOK
  <2>4. QED
    BY <2>1, <2>2, <2>3 DEF TypeOK
<1>15. CASE UNCHANGED vars
  BY <1>15 DEF TypeOK
<1>16. QED
  BY <1>1, <1>2, <1>3, <1>4, <1>5, <1>6, <1>7, <1>8, <1>9, <1>10, <1>11,
     <1>12, <1>13, <1>14, <1>15 DEF Next

LEMMA LinkedNext == TypeOK /\ LinkedInv /\ [Next]_vars => LinkedInv'
BY DEF TypeOK, LinkedInv, Next, vars, plcs, link, view, handler, shared, ghosts,
       Modes, MonitorReads, MonitorReturns, MonitorFails, ReceiveOrder,
       GuardDecides, GuardCannotRead, OrderDone, RequestMode, ConnectSucceeds,
       ConnectFails, OpenState, SaveState, SaveFails, Crash, TelemetryLoop, LinkDrops, LinkReturns,
       PlcTicks, Tick

(* The variables keep their types.                                         *)
THEOREM TypeCorrect == Spec => []TypeOK
<1>1. Init => TypeOK /\ LinkedInv
  BY TypeInit DEF Init, LinkedInv
<1>2. TypeOK /\ LinkedInv /\ [Next]_vars => TypeOK' /\ LinkedInv'
  BY TypeNext, LinkedNext
<1>3. QED
  BY <1>1, <1>2, PTL DEF Spec

----------------------------------------------------------------------------
LEMMA OneModeNext == TypeOK /\ OneMode /\ [Next]_vars => OneMode'
BY DEF TypeOK, OneMode, Next, vars, plcs, link, view, handler, shared, ghosts,
       Modes, MonitorReads, MonitorReturns, MonitorFails, ReceiveOrder,
       GuardDecides, GuardCannotRead, OrderDone, RequestMode, ConnectSucceeds,
       ConnectFails, OpenState, SaveState, SaveFails, Crash, TelemetryLoop, LinkDrops, LinkReturns,
       PlcTicks, Tick

(* The mode reported and the PLC connected agree whatever failed, and the  *)
(* file names the same mode unless save_operation_mode_state failed to     *)
(* write it at the last switch.                                            *)
THEOREM ModesAgree == Spec => []OneMode
<1>1. Init => OneMode
  BY DEF Init, OneMode
<1>2. QED
  BY <1>1, OneModeNext, TypeCorrect, PTL DEF Spec

(* What a switch under way will do is confirmed as well.                   *)
Confirmed ==
    /\ PlantOnlyIfConfirmed
    /\ Default # "real" /\ stage = "connect" /\ wanted = "real" => confirmed

LEMMA ConfirmedNext == TypeOK /\ Confirmed /\ [Next]_vars => Confirmed'
BY DEF TypeOK, Confirmed, PlantOnlyIfConfirmed, Next, vars, plcs, link, view,
       handler, shared, ghosts, Modes, MonitorReads, MonitorReturns,
       MonitorFails, ReceiveOrder, GuardDecides, GuardCannotRead, OrderDone,
       RequestMode, ConnectSucceeds, ConnectFails, OpenState, SaveState,
       SaveFails, Crash,
       TelemetryLoop, LinkDrops, LinkReturns, PlcTicks, Tick

(* Without a confirmation given since the start, the plant is not reached. *)
THEOREM PlantIsConfirmed == Spec => []PlantOnlyIfConfirmed
<1>1. Init => Confirmed
  BY DEF Init, Confirmed, PlantOnlyIfConfirmed
<1>2. Confirmed => PlantOnlyIfConfirmed
  BY DEF Confirmed
<1>3. QED
  BY <1>1, <1>2, ConfirmedNext, TypeCorrect, PTL DEF Spec

----------------------------------------------------------------------------
(* Nothing the gateway knows of is in the future, and a value is never     *)
(* younger than the change that brought it.                                *)
TimesPast ==
    /\ \A p \in Modes : wd[p] <= now
    /\ monitor[2] <= now /\ check[2] <= now
    /\ sample[2] <= changedAt /\ changedAt <= now
    /\ blindAt <= now

(* Since t the watchdog moved or the gateway had no view of it.            *)
Recent(t) == t <= blindAt \/ t <= wd[target]

(* A read that is under way began in this unit of time; so what it is to   *)
(* return is the value of the PLC, or something happened in this unit.     *)
(* What the gateway knows is at most one unit behind.                      *)
ViewInv ==
    target # "none" =>
        /\ Recent(changedAt - 1)
        /\ (linked \/ stage = "guard" \/ monitor # NoRead) /\ sample # Reading
              => Recent(now - 1)
        /\ sampled /\ linked /\ sample # Reading => Recent(now)
        /\ monitor # NoRead /\ monitor # Reading => Recent(now)
        /\ stage = "guard" /\ check # Reading => Recent(now)

LEMMA TimesNext == TypeOK /\ LinkedInv /\ TimesPast /\ [Next]_vars => TimesPast'
<1> SUFFICES ASSUME TypeOK, LinkedInv, TimesPast, [Next]_vars
             PROVE  TimesPast'
  OBVIOUS
<1> USE DEF plcs, link, view, handler, shared, ghosts, vars
<1>2. CASE MonitorReads
  <2>1. monitor'[2] = wd[target] /\ target \in Modes
    BY <1>2 DEF MonitorReads, Reading, LinkedInv, TypeOK
  <2>2. QED
    BY <1>2, <2>1 DEF MonitorReads, TimesPast
<1>3. CASE MonitorReturns
  BY <1>3 DEF MonitorReturns, Observe, TimesPast, TypeOK, NoRead
<1>4. CASE MonitorFails
  BY <1>4 DEF MonitorFails, TimesPast, TypeOK, NoRead
<1>5. CASE ReceiveOrder
  <2>1. target \in Modes
    BY <1>5 DEF ReceiveOrder, LinkedInv, TypeOK
  <2>2. check'[2] = wd[target] \/ check' = check
    BY <1>5 DEF ReceiveOrder, Reading
  <2>3. check'[2] <= now
    BY <2>1, <2>2 DEF TimesPast
  <2>4. QED
    BY <1>5, <2>3 DEF ReceiveOrder, TimesPast
<1>6. CASE GuardDecides
  BY <1>6 DEF GuardDecides, Observe, TimesPast, TypeOK, NoRead
<1>7. CASE GuardCannotRead \/ OrderDone
  BY <1>7 DEF GuardCannotRead, OrderDone, TimesPast, TypeOK, NoRead
<1>8. CASE \E m \in Modes, phrase \in BOOLEAN : RequestMode(m, phrase)
  BY <1>8 DEF RequestMode, TimesPast
<1>9. CASE ConnectSucceeds
  BY <1>9 DEF ConnectSucceeds, TimesPast, TypeOK, NoRead
<1>10. CASE ConnectFails \/ OpenState \/ SaveState \/ SaveFails
  BY <1>10 DEF ConnectFails, OpenState, SaveState, SaveFails, TimesPast
<1>11. CASE Crash
  BY <1>11 DEF Crash, TimesPast, TypeOK, NoRead
<1>12. CASE TelemetryLoop
  BY <1>12 DEF TelemetryLoop, TimesPast
<1>13. CASE LinkDrops \/ LinkReturns
  BY <1>13 DEF LinkDrops, LinkReturns, TimesPast, TypeOK
<1>14. CASE \E p \in Modes : PlcTicks(p)
  BY <1>14 DEF PlcTicks, TimesPast, TypeOK
<1>15. CASE Tick
  <2>1. now' = now + 1
    BY <1>15 DEF Tick
  <2>2. /\ now \in Nat /\ wd \in [Modes -> Nat] /\ changedAt \in Nat /\ blindAt \in Nat
        /\ monitor[2] \in Nat /\ check[2] \in Nat
    BY DEF TypeOK, Value, NoRead
  <2>3. UNCHANGED <<wd, monitor, check, sample, changedAt, blindAt>>
    BY <1>15 DEF Tick
  <2>4. QED
    BY <2>1, <2>2, <2>3 DEF TimesPast
<1>16. CASE UNCHANGED vars
  BY <1>16 DEF TimesPast
<1>17. QED
  BY <1>2, <1>3, <1>4, <1>5, <1>6, <1>7, <1>8, <1>9, <1>10, <1>11,
     <1>12, <1>13, <1>14, <1>15, <1>16 DEF Next

(* An order is not refused for a watchdog that moved within the threshold. *)
THEOREM LivePlantIsServed == Spec => LivePlantServed
<1>1. Init => TypeOK /\ LinkedInv /\ TimesPast
  BY TypeInit DEF Init, LinkedInv, TimesPast, NoRead
<1>2. TypeOK /\ LinkedInv /\ TimesPast /\ [Next]_vars
        => TypeOK' /\ LinkedInv' /\ TimesPast'
  BY TypeNext, LinkedNext, TimesNext
<1>3. ASSUME TypeOK, TimesPast, [Next]_vars, stage = "guard", stage' = "refused"
      PROVE  now - check[2] > Freeze
  <2>1. GuardDecides
    BY <1>3 DEF Next, vars, handler, plcs, link, view, shared, ghosts, MonitorReads, MonitorReturns,
       MonitorFails, ReceiveOrder, GuardCannotRead, OrderDone, RequestMode,
       ConnectSucceeds, ConnectFails, OpenState, SaveState, SaveFails,
       Crash, TelemetryLoop,
       LinkDrops, LinkReturns, PlcTicks, Tick
  <2>2. now - changedAt' > Freeze
    BY <1>3, <2>1 DEF GuardDecides, Frozen
  <2>3. check[2] \in Nat /\ now \in Nat /\ changedAt \in Nat
    BY <1>3 DEF TypeOK, Value, NoRead
  <2>4. changedAt' = changedAt /\ check = sample
    BY <2>1, <2>2, <2>3 DEF GuardDecides, Observe
  <2>5. QED
    BY <1>3, <2>2, <2>3, <2>4 DEF TimesPast
<1>4. TypeOK /\ TimesPast /\ [Next]_vars
        => [stage = "guard" /\ stage' = "refused" => now - check[2] > Freeze]_vars
  BY <1>3
<1>5. QED
  BY <1>1, <1>2, <1>4, PTL DEF Spec, LivePlantServed

----------------------------------------------------------------------------
(* The part of the state that Recent and Reading look at.                  *)
Kept == UNCHANGED <<now, wd, target, blindAt>>

LEMMA ViewNext ==
    TypeOK /\ LinkedInv /\ TimesPast /\ ViewInv /\ [Next]_vars => ViewInv'
<1> SUFFICES ASSUME TypeOK, LinkedInv, TimesPast, ViewInv, [Next]_vars,
                    target' # "none"
             PROVE  ViewInv'
  BY DEF ViewInv
<1> USE DEF plcs, link, view, handler, shared, ghosts, vars
<1>1. /\ now \in Nat /\ blindAt \in Nat /\ changedAt \in Nat
      /\ \A p \in Modes : wd[p] \in Nat /\ wd[p] <= now
      /\ changedAt <= now /\ blindAt <= now
  BY DEF TypeOK, TimesPast
<1>2. CASE MonitorReads
  BY <1>2 DEF MonitorReads, ViewInv, Reading, Recent
<1>3. CASE MonitorReturns
  <2>1. target \in Modes /\ target' = target
    BY <1>3 DEF MonitorReturns, TypeOK
  <2>2. monitor # Reading => Recent(now)
    BY <1>3, <2>1 DEF MonitorReturns, ViewInv
  <2>3. monitor = Reading /\ monitor # sample => Recent(now - 1)
    BY <1>3, <2>1 DEF MonitorReturns, ViewInv
  <2>4. Recent(now) => Recent(now - 1)
    BY <1>1, <2>1 DEF Recent
  <2>5. Recent(changedAt' - 1)
    BY <1>3, <2>1, <2>2, <2>3, <2>4 DEF MonitorReturns, Observe, ViewInv
  <2>6. sample' # Reading => Recent(now)
    BY <1>3, <2>2 DEF MonitorReturns, Observe
  <2>7. Kept
    BY <1>3 DEF MonitorReturns, Kept
  <2>8. QED
    BY <1>3, <2>1, <2>4, <2>5, <2>6, <2>7
       DEF MonitorReturns, ViewInv, Reading, Recent, Kept
<1>4. CASE MonitorFails
  <2>1. blindAt' = now /\ UNCHANGED <<now, wd, target>>
    BY <1>4 DEF MonitorFails
  <2>2. Recent(now)' /\ Recent(now - 1)' /\ Recent(changedAt - 1)'
    BY <1>1, <1>4, <2>1 DEF MonitorFails, Recent
  <2>3. QED
    BY <2>2 DEF ViewInv
<1>5. CASE ReceiveOrder
  <2>1. stage' = "guard" => check' = Reading /\ linked
    BY <1>5 DEF ReceiveOrder
  <2>2. QED
    BY <1>5, <2>1 DEF ReceiveOrder, ViewInv, Reading, Recent
<1>6. CASE GuardDecides
  <2>1. target \in Modes /\ target' = target
    BY <1>6 DEF GuardDecides, TypeOK
  <2>2. check # Reading => Recent(now)
    BY <1>6, <2>1 DEF GuardDecides, ViewInv
  <2>3. check = Reading /\ check # sample => Recent(now - 1)
    BY <1>6, <2>1 DEF GuardDecides, ViewInv
  <2>4. Recent(now) => Recent(now - 1)
    BY <1>1, <2>1 DEF Recent
  <2>5. Recent(changedAt' - 1)
    BY <1>6, <2>1, <2>2, <2>3, <2>4 DEF GuardDecides, Observe, ViewInv
  <2>6. sample' # Reading => Recent(now)
    BY <1>6, <2>2 DEF GuardDecides, Observe
  <2>7. Kept /\ stage' # "guard" /\ monitor' = monitor
    BY <1>6 DEF GuardDecides, Kept
  <2>8. QED
    BY <2>1, <2>4, <2>5, <2>6, <2>7, <1>6 DEF GuardDecides, ViewInv, Reading, Recent, Kept
<1>7. CASE GuardCannotRead \/ OrderDone
  BY <1>7 DEF GuardCannotRead, OrderDone, ViewInv, Reading, Recent
<1>8. CASE \E m \in Modes, phrase \in BOOLEAN : RequestMode(m, phrase)
  BY <1>8 DEF RequestMode, ViewInv, Reading, Recent
<1>9. CASE ConnectSucceeds
  <2>1. blindAt' = now /\ changedAt' = now /\ now' = now
    BY <1>9 DEF ConnectSucceeds
  <2>2. Recent(now)' /\ Recent(now - 1)' /\ Recent(changedAt - 1)'
    BY <1>1, <2>1 DEF Recent
  <2>3. QED
    BY <2>2 DEF ViewInv
<1>10. CASE ConnectFails \/ OpenState \/ SaveState \/ SaveFails
  BY <1>10 DEF ConnectFails, OpenState, SaveState, SaveFails, ViewInv, Reading, Recent
<1>11. CASE Crash
  BY <1>11 DEF Crash
<1>12. CASE TelemetryLoop
  BY <1>12 DEF TelemetryLoop, ViewInv, Reading, Recent
<1>13. CASE LinkDrops
  BY <1>13 DEF LinkDrops, ViewInv, Reading, Recent
<1>14. CASE LinkReturns
  <2>1. blindAt' = now /\ UNCHANGED <<now, changedAt>>
    BY <1>14 DEF LinkReturns
  <2>2. Recent(now)' /\ Recent(now - 1)' /\ Recent(changedAt - 1)'
    BY <1>1, <2>1 DEF Recent
  <2>3. QED
    BY <2>2 DEF ViewInv
<1>15. ASSUME NEW p \in Modes, PlcTicks(p) PROVE ViewInv'
  <2>1. target \in Modes /\ UNCHANGED <<now, target, blindAt>>
    BY <1>15 DEF PlcTicks, TypeOK
  <2>2. CASE p = target
    <3>1. wd'[target] = now
      BY <1>15, <2>1, <2>2 DEF PlcTicks, TypeOK
    <3>2. Recent(now)' /\ Recent(now - 1)' /\ Recent(changedAt - 1)'
      BY <1>1, <1>15, <2>1, <3>1 DEF PlcTicks, Recent
    <3>3. QED
      BY <3>2 DEF ViewInv
  <2>3. CASE p # target
    <3>1. wd'[target] = wd[target]
      BY <1>15, <2>1, <2>3 DEF PlcTicks, TypeOK
    <3>2. QED
      BY <1>15, <2>1, <3>1 DEF PlcTicks, ViewInv, Reading, Recent
  <2>4. QED
    BY <2>2, <2>3
<1>16. CASE Tick
  <2>1. /\ now' = now + 1 /\ sampled' = FALSE
        /\ monitor = NoRead /\ stage # "guard" /\ (linked => sampled)
    BY <1>16 DEF Tick
  <2>2. UNCHANGED <<wd, target, blindAt, linked, sample, changedAt, monitor, stage, check>>
    BY <1>16 DEF Tick
  <2>3. linked /\ sample # Reading => Recent(now)
    BY <2>1, <2>2 DEF ViewInv
  <2>4. now' - 1 = now
    BY <1>1, <2>1
  <2>5. QED
    BY <2>1, <2>2, <2>3, <2>4 DEF ViewInv, Reading, Recent
<1>17. CASE UNCHANGED vars
  BY <1>17 DEF ViewInv, Reading, Recent
<1>18. QED
  BY <1>2, <1>3, <1>4, <1>5, <1>6, <1>7, <1>8, <1>9, <1>10, <1>11,
     <1>12, <1>13, <1>14, <1>15, <1>16, <1>17 DEF Next

(* Not frozen: the last change is within the threshold.                    *)
LEMMA WithinThreshold ==
    ASSUME NEW t \in Nat, NEW c \in Nat, NEW d \in Nat, ~(t - c > d)
    PROVE  t <= c + d
  OBVIOUS

(* The sign of life before a change is at most a unit older than it.       *)
LEMMA SignBeforeChange ==
    ASSUME NEW t \in Nat, NEW c \in Nat, NEW d \in Nat, NEW b \in Nat,
           t <= c + d, c - 1 <= b
    PROVE  t <= b + d + 1
  OBVIOUS

(* An order goes through to the plant only when its watchdog moved within  *)
(* the threshold, or the gateway had no view of it within that time.       *)
THEOREM FrozenPlantIsRefused == Spec => FrozenPlantRefused
<1>1. Init => TypeOK /\ LinkedInv /\ TimesPast /\ ViewInv
  BY TypeInit DEF Init, LinkedInv, TimesPast, NoRead, ViewInv
<1>2. TypeOK /\ LinkedInv /\ TimesPast /\ ViewInv /\ [Next]_vars
        => TypeOK' /\ LinkedInv' /\ TimesPast' /\ ViewInv'
  BY TypeNext, LinkedNext, TimesNext, ViewNext
<1>3. ASSUME TypeOK, LinkedInv, TimesPast, ViewInv, [Next]_vars,
             stage = "guard", stage' = "write", target = "real"
      PROVE  now - LastSign <= Freeze + 1
  <2>1. GuardDecides
    BY <1>3 DEF Next, vars, handler, plcs, link, view, shared, ghosts, MonitorReads, MonitorReturns,
       MonitorFails, ReceiveOrder, GuardCannotRead, OrderDone, RequestMode,
       ConnectSucceeds, ConnectFails, OpenState, SaveState, SaveFails,
       Crash, TelemetryLoop,
       LinkDrops, LinkReturns, PlcTicks, Tick
  <2>2. now <= changedAt' + Freeze
    <3>1. changedAt' \in Nat /\ now \in Nat /\ Freeze \in Nat
      BY <1>3, <2>1 DEF GuardDecides, Observe, TypeOK
    <3>2. ~(now - changedAt' > Freeze)
      BY <1>3, <2>1 DEF GuardDecides, Frozen
    <3>3. QED
      BY <3>1, <3>2, WithinThreshold
  <2>3. ViewInv' /\ UNCHANGED <<now, wd, target, blindAt>>
    BY <1>3, <2>1, ViewNext DEF GuardDecides, plcs, link, ghosts
  <2>4. changedAt' - 1 <= blindAt \/ changedAt' - 1 <= wd["real"]
    BY <1>3, <2>3 DEF ViewInv, Recent
  <2>5. now \in Nat /\ blindAt \in Nat /\ wd["real"] \in Nat
    BY <1>3 DEF TypeOK, Modes
  <2>6. changedAt' \in Nat
    BY <1>3, <2>1 DEF GuardDecides, Observe, TypeOK
  <2>7. now <= blindAt + Freeze + 1 \/ now <= wd["real"] + Freeze + 1
    BY <2>2, <2>4, <2>5, <2>6, SignBeforeChange
  <2>8. QED
    BY <2>5, <2>7 DEF LastSign
<1>4. TypeOK /\ LinkedInv /\ TimesPast /\ ViewInv /\ [Next]_vars
        => [stage = "guard" /\ stage' = "write" /\ target = "real"
              => now - LastSign <= Freeze + 1]_vars
  BY <1>3
<1>5. QED
  BY <1>1, <1>2, <1>4, PTL DEF Spec, FrozenPlantRefused
=============================================================================
