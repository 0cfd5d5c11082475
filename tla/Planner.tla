------------------------------- MODULE Planner -------------------------------
(***************************************************************************)
(* The planner of the PLC simulator (PlanificateurSBC, scheduler.py).      *)
(*                                                                         *)
(* A Modbus client and the planner share the holding registers: a          *)
(* preparation block, a trigger and a status word for each of add, delete  *)
(* and reset, and the published queue.  The control thread loops over      *)
(* _process_exchange_bits and _execute_due_orders; the server thread       *)
(* serves the client between any two register accesses of the control      *)
(* thread, and the telemetry thread publishes the clock.  One access to    *)
(* the registers is one step.  What a handler does between two accesses    *)
(* touches memory of the control thread only and joins the next access.    *)
(***************************************************************************)
EXTENDS ExchangeTable, SequencesExt

CONSTANTS
    MaxOrders,      \* MAX_ORDERS, slots of the published queue
    Tolerance,      \* EXECUTION_TOLERANCE_SEC
    Year,           \* instants in a year of the calendar
    MaxTime,        \* bound of the model: the last instant
    Requests        \* the preparation blocks clients write

Kinds  == {"add", "delete", "reset"}
NoDate == -1        \* date words that are no date (all zero, month 13...)
NoClock == -1       \* %MW250 before the telemetry thread wrote it

Block == [id : Nat, time : Int, body : Body]
Order == [id : Nat \ {0}, time : Nat, body : Body]
Empty == [id |-> 0, time |-> NoDate, body |-> ZeroBody]

ASSUME MaxOrdersAssumption == MaxOrders \in Nat \ {0}
ASSUME TimeAssumption      == Tolerance \in Nat /\ MaxTime \in Nat
ASSUME YearAssumption      == Year \in Nat \ {0}
ASSUME RequestsAssumption  == Requests \subseteq Block

VARIABLES
    prep,           \* %MW1000: the preparation block
    trigger,        \* %MW1044, 1056, 1068
    status,         \* %MW1045, 1057, 1069
    slots,          \* %MW8120: the published queue
    plannerState,   \* %MW8100: 1 when the queue is full
    crc,            \* %MW8101: the slots it was computed over
    crcState,       \* %MW8102: 1 while the queue is being published
    plcClock,       \* %MW250: the clock as published
    now,            \* the clock of the host
    orders,         \* self.orders
    consigne,       \* active consigne of the cascade
    pc, seen, action, outcome, cursor, deadline   \* the control thread

registers == <<prep, trigger, status>>
published == <<slots, plannerState, crc, crcState>>
memory    == <<orders, consigne>>
thread    == <<pc, seen, action, outcome, cursor, deadline>>
clocks    == <<plcClock, now>>
vars      == <<registers, published, memory, thread, clocks>>

PollPcs == {"pollAdd", "pollDelete", "pollReset"}
SyncPcs == {"begin", "slot", "state", "crc", "end"}
Pcs == PollPcs \cup SyncPcs
       \cup {"dispatch", "clearAdd", "clearDelete", "clearReset",
             "status", "clear", "execute", "pop"}

Consigne == [source : Nat, strategy : {"C1", "C2", "C3"},
             limit : Int, pressure : Int]

TypeOK ==
    /\ prep \in Block
    /\ trigger \in [Kinds -> {0, 1}]
    /\ status \in [Kinds -> Nat]
    /\ slots \in [1..MaxOrders -> Block]
    /\ plannerState \in {0, 1}
    /\ crc \in [1..MaxOrders -> Block]
    /\ crcState \in {0, 1}
    /\ plcClock \in Nat \cup {NoClock}
    /\ now \in Nat
    /\ orders \in Seq(Order)
    /\ consigne \in Consigne
    /\ pc \in Pcs
    /\ seen \in SUBSET Kinds
    /\ action \in Kinds \cup {"none"}
    /\ outcome \in Nat
    /\ cursor \in 1..MaxOrders
    /\ deadline \in Nat

NoTrigger      == [k \in Kinds |-> 0]
AllOk          == [k \in Kinds |-> 0]
NoSlot         == [n \in 1..MaxOrders |-> Empty]
DefaultConsigne == [source |-> 0, strategy |-> "C1", limit |-> 0,
                    pressure |-> 53000]

(* What __init__ leaves.                                                   *)
Init ==
    /\ prep = Empty /\ trigger = NoTrigger /\ status = AllOk
    /\ slots = NoSlot /\ plannerState = 0 /\ crc = NoSlot /\ crcState = 0
    /\ orders = <<>> /\ consigne = DefaultConsigne
    /\ pc = "pollAdd" /\ seen = {} /\ action = "none"
    /\ outcome = 0 /\ cursor = 1 /\ deadline = 0
    /\ plcClock = NoClock /\ now = 0

----------------------------------------------------------------------------
(* _process_exchange_bits                                                  *)

Poll(k, here, next) ==
    /\ pc = here
    /\ seen' = IF trigger[k] = 1 THEN seen \cup {k} ELSE seen
    /\ pc' = next
    /\ UNCHANGED <<registers, published, memory, clocks,
                   action, outcome, cursor, deadline>>

(* Mutant: the status words are left as they were.                         *)
RejectSilently ==
    /\ pc = "dispatch"
    /\ \E j, k \in seen : j # k
    /\ seen' = {}
    /\ pc' = "clearAdd"
    /\ UNCHANGED <<prep, trigger, status, published, memory, clocks,
                   action, outcome, cursor, deadline>>

(* Mutant: the triggers stay set.                                          *)
RejectOnly ==
    /\ pc = "dispatch"
    /\ \E j, k \in seen : j # k
    /\ status' = [k \in Kinds |-> 8]
    /\ seen' = {}
    /\ pc' = "execute"
    /\ UNCHANGED <<prep, trigger, published, memory, clocks,
                   action, outcome, cursor, deadline>>

(* Several triggers at once: all are refused.  A client reads its status   *)
(* word only after its trigger went back to 0, so the three status writes  *)
(* are one step.                                                           *)
RejectMultiple ==
    /\ pc = "dispatch"
    /\ \E j, k \in seen : j # k
    /\ status' = [k \in Kinds |-> 8]
    /\ seen' = {}
    /\ pc' = "clearAdd"
    /\ UNCHANGED <<prep, trigger, published, memory, clocks,
                   action, outcome, cursor, deadline>>

ClearTrigger(k, here, next) ==
    /\ pc = here
    /\ trigger' = [trigger EXCEPT ![k] = 0]
    /\ pc' = next
    /\ UNCHANGED <<prep, status, published, memory, clocks,
                   seen, action, outcome, cursor, deadline>>

NothingSeen ==
    /\ pc = "dispatch"
    /\ seen = {}
    /\ pc' = "execute"
    /\ UNCHANGED <<registers, published, memory, clocks,
                   seen, action, outcome, cursor, deadline>>

(* The handler of k starts: either it refuses the request, or it changes   *)
(* the orders and publishes them before it answers.                        *)
Handle(k) ==
    /\ pc = "dispatch"
    /\ seen = {k}
    /\ seen' = {}
    /\ action' = k
    /\ UNCHANGED <<registers, published, consigne, clocks, cursor, deadline>>

Refuse(code) ==
    /\ outcome' = code
    /\ pc' = "status"
    /\ UNCHANGED orders

(* Mutant: the request is answered without a publication.                  *)
AnswerAtOnce ==
    /\ outcome' = 0
    /\ pc' = "status"

Publish ==
    /\ outcome' = 0
    /\ pc' = "begin"

----------------------------------------------------------------------------
(* _handle_order_upsert                                                    *)

(* _plc_now                                                                *)
PlcNow == IF plcClock = NoClock THEN now ELSE plcClock

Queued(i) == \E n \in 1..Len(orders) : orders[n].id = i

(* 2 stands for the codes 2..5 of a date that is none, 7 for 6 and 7.      *)
DateStatus(t) ==
    IF t = NoDate \/ t \div Year \notin {PlcNow \div Year, PlcNow \div Year + 1}
    THEN 2
    ELSE IF t < PlcNow THEN 7
    ELSE 0

(* Mutant: the queue has no limit.                                         *)
UpsertStatusNoLimit(b) ==
    IF b.id <= 0 THEN 20
    ELSE IF DateStatus(b.time) # 0 THEN DateStatus(b.time)
    ELSE AttributeStatus(Decoded(b.body))

UpsertStatus(b) ==
    IF b.id <= 0 THEN 20
    ELSE IF DateStatus(b.time) # 0 THEN DateStatus(b.time)
    ELSE IF AttributeStatus(Decoded(b.body)) # 0
         THEN AttributeStatus(Decoded(b.body))
    ELSE IF ~Queued(b.id) /\ Len(orders) >= MaxOrders THEN 1
    ELSE 0

(* Mutant: an update adds a second order.                                  *)
NeverFound(n, i) == n = 0

(* _find_order_index, 0 for None.                                          *)
IsIndexOf(n, i) ==
    \/ n = 0 /\ ~Queued(i)
    \/ n > 0 /\ orders[n].id = i /\ \A m \in 1..(n - 1) : orders[m].id # i

Without(n) == IF n = 0 THEN orders ELSE RemoveAt(orders, n)

(* Mutant: the queue is not sorted.                                        *)
AtTheEnd(q, o, n) == n = Len(q) + 1

(* _sort_orders orders by date, then by date of update: the order just     *)
(* written goes after those of its date.                                   *)
SortedPosition(q, o, n) ==
    /\ \A m \in 1..(n - 1) : q[m].time <= o.time
    /\ \A m \in n..Len(q) : o.time < q[m].time

Upsert(o) ==
    \E n \in 0..Len(orders) :
        /\ IsIndexOf(n, o.id)
        /\ \E m \in 1..(Len(Without(n)) + 1) :
             /\ SortedPosition(Without(n), o, m)
             /\ orders' = InsertAt(Without(n), m, o)

(* What the planner makes of a preparation block.                          *)
OrderOf(b) == [b EXCEPT !.body = Decoded(b.body)]

HandleUpsert ==
    /\ Handle("add")
    /\ \/ UpsertStatus(prep) # 0 /\ Refuse(UpsertStatus(prep))
       \/ UpsertStatus(prep) = 0 /\ Publish /\ Upsert(OrderOf(prep))

----------------------------------------------------------------------------
(* _handle_order_delete: the block names an identifier, the rest is zero.  *)

(* Mutant: only the identifier is looked at.                               *)
DeleteStatusIdOnly(b) ==
    IF b.id <= 0 THEN 20
    ELSE IF ~Queued(b.id) THEN 21
    ELSE 0

DeleteStatus(b) ==
    IF b.id <= 0 THEN 20
    ELSE IF b.time # NoDate THEN 1
    ELSE IF NonZeroPart(b.body) # 0 THEN NonZeroPart(b.body)
    ELSE IF ~Queued(b.id) THEN 21
    ELSE 0

Delete(i) ==
    \E n \in 1..Len(orders) : IsIndexOf(n, i) /\ orders' = RemoveAt(orders, n)

HandleDelete ==
    /\ Handle("delete")
    /\ \/ DeleteStatus(prep) # 0 /\ Refuse(DeleteStatus(prep))
       \/ DeleteStatus(prep) = 0 /\ Publish /\ Delete(prep.id)

(* _handle_queue_reset                                                     *)
HandleReset ==
    /\ Handle("reset")
    /\ Publish
    /\ orders' = <<>>

----------------------------------------------------------------------------
(* _sync_queue_to_modbus: five kinds of writes, in this order.             *)

Image(q) == [n \in 1..MaxOrders |-> IF n <= Len(q) THEN q[n] ELSE Empty]

SyncStep(here, next) ==
    /\ pc = here
    /\ pc' = next
    /\ UNCHANGED <<registers, memory, clocks, seen, action, outcome, deadline>>

(* Mutant: a publication does not announce itself.                         *)
BeginSyncSilently ==
    /\ SyncStep("begin", "slot")
    /\ cursor' = 1
    /\ UNCHANGED published

BeginSync ==
    /\ SyncStep("begin", "slot")
    /\ crcState' = 1
    /\ cursor' = 1
    /\ UNCHANGED <<slots, plannerState, crc>>

(* Mutant: one slot too many.                                              *)
WriteSlotPastEnd ==
    /\ \/ cursor <= MaxOrders /\ SyncStep("slot", "slot") /\ cursor' = cursor + 1
       \/ cursor > MaxOrders /\ SyncStep("slot", "state") /\ cursor' = 1
    /\ slots' = [slots EXCEPT ![cursor] = Image(orders)[cursor]]
    /\ UNCHANGED <<plannerState, crc, crcState>>

WriteSlot ==
    /\ \/ cursor < MaxOrders /\ SyncStep("slot", "slot") /\ cursor' = cursor + 1
       \/ cursor = MaxOrders /\ SyncStep("slot", "state") /\ cursor' = 1
    /\ slots' = [slots EXCEPT ![cursor] = Image(orders)[cursor]]
    /\ UNCHANGED <<plannerState, crc, crcState>>

WritePlannerState ==
    /\ SyncStep("state", "crc")
    /\ plannerState' = IF Len(orders) >= MaxOrders THEN 1 ELSE 0
    /\ UNCHANGED <<slots, crc, crcState, cursor>>

(* The code computes the CRC over the words it wrote, not over registers.  *)
WriteCrc ==
    /\ SyncStep("crc", "end")
    /\ crc' = Image(orders)
    /\ UNCHANGED <<slots, plannerState, crcState, cursor>>

(* Mutant: the queue stays "being published".                              *)
EndSyncStillBusy ==
    /\ SyncStep("end", IF action = "none" THEN "pollAdd" ELSE "status")
    /\ UNCHANGED <<published, cursor>>

EndSync ==
    /\ SyncStep("end", IF action = "none" THEN "pollAdd" ELSE "status")
    /\ crcState' = 0
    /\ UNCHANGED <<slots, plannerState, crc, cursor>>

----------------------------------------------------------------------------
(* _finish_action                                                          *)

FinishStatus ==
    /\ pc = "status"
    /\ status' = [status EXCEPT ![action] = outcome]
    /\ outcome' = 0
    /\ pc' = "clear"
    /\ UNCHANGED <<prep, trigger, published, memory, clocks,
                   seen, action, cursor, deadline>>

(* Mutant: a round that served a trigger executes nothing.                 *)
FinishTriggerOnly ==
    /\ pc = "clear"
    /\ trigger' = [trigger EXCEPT ![action] = 0]
    /\ action' = "none"
    /\ pc' = "pollAdd"
    /\ UNCHANGED <<prep, status, published, memory, clocks,
                   seen, outcome, cursor, deadline>>

FinishTrigger ==
    /\ pc = "clear"
    /\ trigger' = [trigger EXCEPT ![action] = 0]
    /\ action' = "none"
    /\ pc' = "execute"
    /\ UNCHANGED <<prep, status, published, memory, clocks,
                   seen, outcome, cursor, deadline>>

----------------------------------------------------------------------------
(* _execute_due_orders                                                     *)

(* The clock of the host is read once for the whole pass.                  *)
StartExecution ==
    /\ pc = "execute"
    /\ deadline' = now + Tolerance
    /\ pc' = "pop"
    /\ UNCHANGED <<registers, published, memory, clocks,
                   seen, action, outcome, cursor>>

Due == orders # <<>> /\ Head(orders).time <= deadline

(* _apply_order; `outcome` remembers that the pass executed something.     *)
ExecuteHead ==
    /\ pc = "pop"
    /\ Due
    /\ orders' = Tail(orders)
    /\ consigne' =
         [source   |-> Head(orders).id,
          strategy |-> Strategy(Head(orders).body),
          limit    |-> PowerLimit(Head(orders).body),
          pressure |-> TargetPressure(Head(orders).body, consigne.pressure)]
    /\ outcome' = 1
    /\ UNCHANGED <<registers, published, clocks,
                   pc, seen, action, cursor, deadline>>

EndExecution ==
    /\ pc = "pop"
    /\ ~Due
    /\ pc' = IF outcome = 1 THEN "begin" ELSE "pollAdd"
    /\ outcome' = 0
    /\ deadline' = 0
    /\ UNCHANGED <<registers, published, memory, clocks, seen, action, cursor>>

----------------------------------------------------------------------------
(* One step of the control thread.                                         *)
PlcStep ==
    \/ Poll("add", "pollAdd", "pollDelete")
    \/ Poll("delete", "pollDelete", "pollReset")
    \/ Poll("reset", "pollReset", "dispatch")
    \/ RejectMultiple
    \/ ClearTrigger("add", "clearAdd", "clearDelete")
    \/ ClearTrigger("delete", "clearDelete", "clearReset")
    \/ ClearTrigger("reset", "clearReset", "execute")
    \/ NothingSeen
    \/ HandleUpsert \/ HandleDelete \/ HandleReset
    \/ BeginSync \/ WriteSlot \/ WritePlannerState \/ WriteCrc \/ EndSync
    \/ FinishStatus \/ FinishTrigger
    \/ StartExecution \/ ExecuteHead \/ EndExecution

(* The telemetry thread publishes the clock of the host every second.      *)
PublishClock ==
    /\ plcClock' = now
    /\ UNCHANGED <<registers, published, memory, thread, now>>

Tick ==
    /\ now < MaxTime
    /\ now' = now + 1
    /\ UNCHANGED <<registers, published, memory, thread, plcClock>>

(* The process dies and is started again: its registers are its memory.    *)
Restart ==
    /\ prep' = Empty /\ trigger' = NoTrigger /\ status' = AllOk
    /\ slots' = NoSlot /\ plannerState' = 0 /\ crc' = NoSlot /\ crcState' = 0
    /\ orders' = <<>> /\ consigne' = DefaultConsigne
    /\ pc' = "pollAdd" /\ seen' = {} /\ action' = "none"
    /\ outcome' = 0 /\ cursor' = 1 /\ deadline' = 0
    /\ plcClock' = NoClock
    /\ UNCHANGED now

(* Any Modbus client, as far as the planner can tell: it writes a block or *)
(* sets a trigger whenever it likes.                                       *)
ClientWritesPrep ==
    /\ \E b \in Requests : prep' = b
    /\ UNCHANGED <<trigger, status, published, memory, thread, clocks>>

ClientSetsTrigger ==
    /\ \E k \in Kinds : trigger' = [trigger EXCEPT ![k] = 1]
    /\ UNCHANGED <<prep, status, published, memory, thread, clocks>>

Environment == PublishClock \/ Tick \/ Restart

Next == PlcStep \/ Environment \/ ClientWritesPrep \/ ClientSetsTrigger

Spec == Init /\ [][Next]_vars

(* The control thread never ends and blocks on nothing.                    *)
Fairness == WF_vars(PlcStep)

FairSpec == Spec /\ Fairness

----------------------------------------------------------------------------
Plan == {orders[n] : n \in 1..Len(orders)}

(* The queue never outgrows its slots, holds an identifier once, and is in *)
(* the order of the dates, whatever the order the requests came in: that   *)
(* is what lets the execution pass look at the head only.                  *)
FitsTheSlots == Len(orders) <= MaxOrders

UniqueIds == \A m, n \in 1..Len(orders) : orders[m].id = orders[n].id => m = n

SortedByDate == \A m, n \in 1..Len(orders) :
                    m <= n => orders[m].time <= orders[n].time

QueueWellFormed == FitsTheSlots /\ UniqueIds /\ SortedByDate

(* When CRC_STATE says "complete", the CRC is the one of the published     *)
(* slots, the full flag agrees with them, and they hold no identifier      *)
(* twice: a reader that sees 0 throughout reads one queue.                 *)
SlotsConsistent ==
    /\ crc = slots
    /\ plannerState = 1 <=> slots[MaxOrders] # Empty
    /\ \A m, n \in 1..MaxOrders :
         slots[m] # Empty /\ slots[m].id = slots[n].id => m = n

PublishedConsistent == crcState = 0 => SlotsConsistent

(* A trigger goes back to 0 only when the published queue is complete and  *)
(* is the queue in force: a client that was answered and reads the plan    *)
(* finds its request served or left alone (unless the planner restarted).  *)
AnswerAfterPublish ==
    [][\A k \in Kinds :
         trigger[k] = 1 /\ trigger'[k] = 0 /\ pc' # "pollAdd"
            => crcState = 0 /\ slots = Image(orders)]_vars

(* An execution pass leaves no order that was due when it started, however *)
(* many came due together.                                                 *)
PassLeavesNothingDue ==
    [][pc = "pop" /\ pc' \in {"begin", "pollAdd"}
         => \A n \in 1..Len(orders') : orders'[n].time > deadline]_vars

(* The planner implements the abstract service: a request takes effect at  *)
(* one instant, entirely or not at all, and only the earliest order is     *)
(* executed.                                                               *)
Abstract == INSTANCE PlanService WITH
    Orders <- {OrderOf(b) : b \in Requests},
    plan   <- Plan,
    source <- consigne.source

ImplementsPlanService == Abstract!Spec

(* A trigger is answered whatever the clients do with the others.          *)
TriggerAnswered == \A k \in Kinds : trigger[k] = 1 ~> trigger[k] = 0

(* A publication that started ends.                                        *)
PublicationEnds == crcState = 1 ~> crcState = 0

(* An order that is due leaves the queue.                                  *)
DueOrderLeaves ==
    \A b \in Requests :
        OrderOf(b) \in Plan /\ b.time <= now ~> OrderOf(b) \notin Plan
=============================================================================
