----------------------------- MODULE PlanService -----------------------------
(***************************************************************************)
(* What the planner promises, without registers, slots or threads: a set   *)
(* of dated orders with at most one order per identifier, executed one at  *)
(* a time, the earliest first.  Planner implements it.                     *)
(***************************************************************************)
EXTENDS Integers

CONSTANT Orders     \* what can be asked for: an identifier, a date, a body

VARIABLES
    plan,       \* the orders accepted and not yet executed
    source      \* the identifier of the last order executed, 0 before any

Init ==
    /\ plan = {}
    /\ source = 0

(* An accepted order takes the place of the one with its identifier.       *)
Put(o) ==
    /\ plan' = {p \in plan : p.id # o.id} \union {o}
    /\ UNCHANGED source

Remove(i) ==
    /\ plan' = {p \in plan : p.id # i}
    /\ UNCHANGED source

Clear ==
    /\ plan' = {}
    /\ UNCHANGED source

(* Only an order with the earliest date is ever executed.                  *)
Execute(o) ==
    /\ \A p \in plan : o.time <= p.time
    /\ plan' = plan \ {o}
    /\ source' = o.id

(* A restart of the planner forgets the plan and the active order.         *)
Restart ==
    /\ plan' = {}
    /\ source' = 0

Next ==
    \/ \E o \in Orders : Put(o)
    \/ \E p \in plan : Remove(p.id)
    \/ Clear
    \/ \E o \in plan : Execute(o)
    \/ Restart

Spec == Init /\ [][Next]_<<plan, source>>
=============================================================================
