---------------------------- MODULE RuntimeBlock ----------------------------
(***************************************************************************)
(* The runtime block %MW9070 of the simulator.  The control thread assigns *)
(* the consigne of the cascade field by field (set_active_consigne) while  *)
(* the telemetry thread copies the fields one by one and writes them in    *)
(* one call (modbus_telemetry_loop).  There is no lock.                    *)
(*                                                                         *)
(* A field stands by the number of the order that set it, 0 for the values *)
(* the cascade starts with.  The limit is not in the block, the number of  *)
(* stages changes without an order: both are left out.                     *)
(***************************************************************************)
EXTENDS Naturals

CONSTANT MaxOrders          \* bound: orders executed

ASSUME MaxOrdersAssumption == MaxOrders \in Nat

VARIABLES
    applied,                        \* orders executed, the present one included
    strategy, target, orderId,      \* active_strategy, target_pressure,
                                    \* active_order_id
    control,                        \* the field the control thread assigns next
    copy,                           \* what the telemetry thread copied
    telemetry,                      \* the field it copies next
    shown                           \* the runtime block

controlVars   == <<applied, strategy, target, orderId, control>>
telemetryVars == <<copy, telemetry, shown>>
vars          == <<controlVars, telemetryVars>>

Orders == 0..MaxOrders
Blocks == [id : Orders, strategy : Orders, target : Orders]
Start  == [id |-> 0, strategy |-> 0, target |-> 0]

TypeOK ==
    /\ applied \in Orders /\ strategy \in Orders
    /\ target \in Orders /\ orderId \in Orders
    /\ control \in {"idle", "target", "id"}
    /\ copy \in Blocks /\ shown \in Blocks
    /\ telemetry \in {"id", "strategy", "target", "block"}

Init ==
    /\ applied = 0 /\ strategy = 0 /\ target = 0 /\ orderId = 0
    /\ control = "idle" /\ telemetry = "id"
    /\ copy = Start /\ shown = Start

----------------------------------------------------------------------------
(* set_active_consigne                                                     *)

AssignStrategy ==
    /\ control = "idle" /\ applied < MaxOrders
    /\ applied' = applied + 1
    /\ strategy' = applied + 1
    /\ control' = "target"
    /\ UNCHANGED <<target, orderId, telemetryVars>>

(* Mutant: the identifier is assigned before the pressure.                 *)
AssignIdFirst ==
    /\ control = "target"
    /\ orderId' = applied
    /\ control' = "id"
    /\ UNCHANGED <<applied, strategy, target, telemetryVars>>

AssignTarget ==
    /\ control = "target"
    /\ target' = applied
    /\ control' = "id"
    /\ UNCHANGED <<applied, strategy, orderId, telemetryVars>>

AssignId ==
    /\ control = "id"
    /\ orderId' = applied
    /\ control' = "idle"
    /\ UNCHANGED <<applied, strategy, target, telemetryVars>>

(* get_status_modbus, which takes the identifier first                     *)

CopyId ==
    /\ telemetry = "id"
    /\ copy' = [copy EXCEPT !.id = orderId]
    /\ telemetry' = "strategy"
    /\ UNCHANGED <<controlVars, shown>>

CopyStrategy ==
    /\ telemetry = "strategy"
    /\ copy' = [copy EXCEPT !.strategy = strategy]
    /\ telemetry' = "target"
    /\ UNCHANGED <<controlVars, shown>>

CopyTarget ==
    /\ telemetry = "target"
    /\ copy' = [copy EXCEPT !.target = target]
    /\ telemetry' = "block"
    /\ UNCHANGED <<controlVars, shown>>

(* Mutant: the block is written when the strategy changed only.            *)
WriteChangedBlock ==
    /\ telemetry = "block"
    /\ shown' = IF copy.strategy = shown.strategy THEN shown ELSE copy
    /\ telemetry' = "id"
    /\ UNCHANGED <<controlVars, copy>>

(* One call of setValues.                                                  *)
WriteBlock ==
    /\ telemetry = "block"
    /\ shown' = copy
    /\ telemetry' = "id"
    /\ UNCHANGED <<controlVars, copy>>

Control   == AssignStrategy \/ AssignTarget \/ AssignId
EndOrder  == AssignTarget \/ AssignId
Telemetry == CopyId \/ CopyStrategy \/ CopyTarget \/ WriteBlock

Next == Control \/ Telemetry

(* Both threads loop for ever; an order need not come.                     *)
Spec == Init /\ [][Next]_vars /\ WF_vars(EndOrder) /\ WF_vars(Telemetry)

----------------------------------------------------------------------------
(* A reader who finds an order in the block finds with it the strategy and *)
(* the pressure of that order, or of a later one: never those of an order  *)
(* before it (set_active_consigne, get_status_modbus).                     *)
IdNeverAhead == shown.id <= shown.strategy /\ shown.id <= shown.target

(* When no further order comes, the block ends up on the last one, whole   *)
(* (modbus_telemetry_loop).                                                *)
BlockSettles ==
    <>[](shown = [id |-> applied, strategy |-> applied, target |-> applied])
=============================================================================
