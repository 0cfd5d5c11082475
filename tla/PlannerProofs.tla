---------------------------- MODULE PlannerProofs ----------------------------
(***************************************************************************)
(* Proofs about the planner, for every number of slots, every set of       *)
(* requests and every clock; then about the planner and the gateway        *)
(* together (Exchange), whose invariant rests on those of the planner.     *)
(* PromptPlanner is a hypothesis where the proof needs it: without it the  *)
(* run exchange_slow shows that the first of the results fails.            *)
(***************************************************************************)
EXTENDS Exchange, ExchangeLemmas

LEMMA ConstantTypes ==
    /\ ZeroBody \in Body /\ Empty \in Block
    /\ NoSlot \in [1..MaxOrders -> Block]
    /\ DefaultConsigne \in Consigne
BY ZeroBodyType DEF Empty, Block, NoDate, NoSlot, DefaultConsigne, Consigne

LEMMA ImageType ==
    ASSUME NEW q \in Seq(Order)
    PROVE  Image(q) \in [1..MaxOrders -> Block]
<1>1. Order \subseteq Block
  BY DEF Order, Block
<1>2. ASSUME NEW n \in 1..MaxOrders PROVE Image(q)[n] \in Block
  BY <1>1, ConstantTypes, MaxOrdersAssumption DEF Image
<1>3. QED
  BY <1>2 DEF Image

LEMMA StatusTypes ==
    ASSUME TypeOK
    PROVE  UpsertStatus(prep) \in Nat /\ DeleteStatus(prep) \in Nat
<1>1. prep.body \in Body
  BY DEF TypeOK, Block
<1>2. AttributeStatus(Decoded(prep.body)) \in Nat
  BY <1>1, DecodedType, AttributeStatusType
<1>3. QED
  BY <1>2 DEF UpsertStatus, DateStatus, DeleteStatus, NonZeroPart

(* An accepted block is an order.                                          *)
LEMMA AcceptedOrder ==
    ASSUME TypeOK, UpsertStatus(prep) = 0
    PROVE  OrderOf(prep) \in Order /\ OrderOf(prep).id = prep.id
<1>1. prep \in Block /\ plcClock \in Nat \cup {NoClock} /\ now \in Nat
  BY DEF TypeOK
<1>2. prep.id > 0 /\ prep.time # NoDate /\ ~(prep.time < PlcNow)
  BY <1>1 DEF UpsertStatus, DateStatus, Block
<1>3. PlcNow \in Nat
  BY <1>1 DEF PlcNow, NoClock
<1>4. prep.id \in Nat \ {0} /\ prep.time \in Nat
  BY <1>1, <1>2, <1>3 DEF Block
<1>5. Decoded(prep.body) \in Body
  BY <1>1, DecodedType DEF Block
<1>6. QED
  BY <1>1, <1>4, <1>5 DEF OrderOf, Order, Block

(* The new queue of an upsert, whatever the place the order goes to.       *)
LEMMA UpsertType ==
    ASSUME TypeOK, NEW o \in Order, Upsert(o)
    PROVE  orders' \in Seq(Order)
<1>1. PICK n \in 0..Len(orders) :
        \E m \in 1..(Len(Without(n)) + 1) : orders' = InsertAt(Without(n), m, o)
  BY DEF Upsert
<1>2. Without(n) \in Seq(Order)
  BY <1>1, RemoveAtProperties DEF Without, TypeOK
<1>3. QED
  BY <1>1, <1>2, InsertAtProperties

LEMMA DeleteType ==
    ASSUME TypeOK, NEW i, Delete(i)
    PROVE  orders' \in Seq(Order)
BY RemoveAtProperties DEF Delete, TypeOK

(* The consigne the head of the queue turns into.                          *)
LEMMA ConsigneType ==
    ASSUME TypeOK, NEW o \in Order
    PROVE  [source   |-> o.id,
            strategy |-> Strategy(o.body),
            limit    |-> PowerLimit(o.body),
            pressure |-> TargetPressure(o.body, consigne.pressure)] \in Consigne
<1>1. o.id \in Nat /\ o.body.limit \in Int /\ o.body.elec \in Int
      /\ o.body.metBar \in Int
  BY DEF Order, Body
<1>2. consigne.pressure \in Int
  BY DEF TypeOK, Consigne
<1>3. Strategy(o.body) \in {"C1", "C2", "C3"}
  BY DEF Strategy
<1>4. PowerLimit(o.body) \in Int
  BY <1>1 DEF PowerLimit
<1>5. TargetPressure(o.body, consigne.pressure) \in Int
  BY <1>1, <1>2 DEF TargetPressure
<1>6. QED
  BY <1>1, <1>3, <1>4, <1>5 DEF Consigne

----------------------------------------------------------------------------
LEMMA TypeInit == Init => TypeOK
BY ConstantTypes, MaxOrdersAssumption
   DEF Init, TypeOK, NoTrigger, AllOk, Pcs, PollPcs, NoClock

LEMMA TypeStep == TypeOK /\ [Next]_vars => TypeOK'
<1> SUFFICES ASSUME TypeOK, [Next]_vars PROVE TypeOK'
  OBVIOUS
<1> USE DEF registers, published, memory, thread, clocks
<1>1. CASE Poll("add", "pollAdd", "pollDelete")
  BY <1>1 DEF TypeOK, Poll, Kinds, Pcs, PollPcs
<1>2. CASE Poll("delete", "pollDelete", "pollReset")
  BY <1>2 DEF TypeOK, Poll, Kinds, Pcs, PollPcs
<1>3. CASE Poll("reset", "pollReset", "dispatch")
  BY <1>3 DEF TypeOK, Poll, Kinds, Pcs
<1>4. CASE RejectMultiple
  BY <1>4 DEF TypeOK, RejectMultiple, Pcs
<1>5. CASE ClearTrigger("add", "clearAdd", "clearDelete")
  BY <1>5 DEF TypeOK, ClearTrigger, Kinds, Pcs
<1>6. CASE ClearTrigger("delete", "clearDelete", "clearReset")
  BY <1>6 DEF TypeOK, ClearTrigger, Kinds, Pcs
<1>7. CASE ClearTrigger("reset", "clearReset", "execute")
  BY <1>7 DEF TypeOK, ClearTrigger, Kinds, Pcs
<1>8. CASE NothingSeen
  BY <1>8 DEF TypeOK, NothingSeen, Pcs
<1>9. CASE HandleUpsert
  <2>1. orders' \in Seq(Order)
    BY <1>9, AcceptedOrder, UpsertType DEF HandleUpsert, Refuse, TypeOK
  <2>2. outcome' \in Nat /\ pc' \in Pcs
    BY <1>9, StatusTypes DEF HandleUpsert, Refuse, Publish, Pcs, SyncPcs
  <2>3. QED
    BY <1>9, <2>1, <2>2 DEF TypeOK, HandleUpsert, Handle, Kinds
<1>10. CASE HandleDelete
  <2>1. orders' \in Seq(Order)
    BY <1>10, DeleteType DEF HandleDelete, Refuse, TypeOK
  <2>2. outcome' \in Nat /\ pc' \in Pcs
    BY <1>10, StatusTypes DEF HandleDelete, Refuse, Publish, Pcs, SyncPcs
  <2>3. QED
    BY <1>10, <2>1, <2>2 DEF TypeOK, HandleDelete, Handle, Kinds
<1>11. CASE HandleReset
  BY <1>11 DEF TypeOK, HandleReset, Handle, Publish, Kinds, Pcs, SyncPcs
<1>12. CASE BeginSync
  BY <1>12, MaxOrdersAssumption DEF TypeOK, BeginSync, SyncStep, Pcs, SyncPcs
<1>13. CASE WriteSlot
  <2>1. Image(orders)[cursor] \in Block
    BY ImageType DEF TypeOK
  <2>2. slots' \in [1..MaxOrders -> Block]
    BY <1>13, <2>1 DEF WriteSlot, TypeOK
  <2>3. cursor' \in 1..MaxOrders /\ pc' \in Pcs
    BY <1>13, MaxOrdersAssumption DEF WriteSlot, SyncStep, TypeOK, Pcs, SyncPcs
  <2>4. QED
    BY <1>13, <2>2, <2>3 DEF TypeOK, WriteSlot, SyncStep
<1>14. CASE WritePlannerState
  BY <1>14 DEF TypeOK, WritePlannerState, SyncStep, Pcs, SyncPcs
<1>15. CASE WriteCrc
  BY <1>15, ImageType DEF TypeOK, WriteCrc, SyncStep, Pcs, SyncPcs
<1>16. CASE EndSync
  BY <1>16 DEF TypeOK, EndSync, SyncStep, Pcs, PollPcs
<1>17. CASE FinishStatus
  BY <1>17 DEF TypeOK, FinishStatus, Pcs
<1>18. CASE FinishTrigger
  BY <1>18 DEF TypeOK, FinishTrigger, Pcs
<1>19. CASE StartExecution
  BY <1>19, TimeAssumption DEF TypeOK, StartExecution, Pcs
<1>20. CASE ExecuteHead
  <2>1. Head(orders) \in Order /\ Tail(orders) \in Seq(Order)
    BY <1>20, HeadTailProperties DEF TypeOK, ExecuteHead, Due
  <2>2. consigne' \in Consigne
    BY <1>20, <2>1, ConsigneType DEF ExecuteHead
  <2>3. QED
    BY <1>20, <2>1, <2>2 DEF TypeOK, ExecuteHead
<1>21. CASE EndExecution
  BY <1>21 DEF TypeOK, EndExecution, Pcs, PollPcs, SyncPcs
<1>22. CASE PublishClock \/ Tick
  BY <1>22 DEF TypeOK, PublishClock, Tick
<1>23. CASE Restart
  BY <1>23, ConstantTypes, MaxOrdersAssumption
     DEF TypeOK, Restart, NoTrigger, AllOk, Pcs, PollPcs
<1>24. CASE ClientWritesPrep
  BY <1>24, RequestsAssumption DEF TypeOK, ClientWritesPrep
<1>25. CASE ClientSetsTrigger
  BY <1>25 DEF TypeOK, ClientSetsTrigger
<1>26. CASE UNCHANGED vars
  BY <1>26 DEF TypeOK, vars
<1>27. QED
  BY <1>1, <1>2, <1>3, <1>4, <1>5, <1>6, <1>7, <1>8, <1>9, <1>10, <1>11,
     <1>12, <1>13, <1>14, <1>15, <1>16, <1>17, <1>18, <1>19, <1>20, <1>21,
     <1>22, <1>23, <1>24, <1>25, <1>26
     DEF Next, PlcStep, Environment

(* The registers and the memory of the planner keep their types.           *)
THEOREM TypeCorrect == Spec => []TypeOK
BY TypeInit, TypeStep, PTL DEF Spec

----------------------------------------------------------------------------
(* The queue of the control thread stays well formed.                      *)

SequenceWellFormed(q) ==
    /\ \A m, n \in 1..Len(q) : q[m].id = q[n].id => m = n
    /\ \A m, n \in 1..Len(q) : m <= n => q[m].time <= q[n].time

LEMMA RemovalKeepsOrder ==
    ASSUME NEW q \in Seq(Order), SequenceWellFormed(q), NEW n \in 1..Len(q)
    PROVE  /\ SequenceWellFormed(RemoveAt(q, n))
           /\ \A m \in 1..Len(RemoveAt(q, n)) : RemoveAt(q, n)[m].id # q[n].id
<1> DEFINE r == RemoveAt(q, n)
           from(m) == IF m < n THEN m ELSE m + 1
<1>1. Len(r) = Len(q) - 1 /\ \A m \in 1..Len(r) : r[m] = q[from(m)]
  <2>1. /\ Len(r) = Len(q) - 1
        /\ \A m \in 1..(Len(q) - 1) :
             r[m] = IF m < n THEN q[m] ELSE q[m + 1]
    BY RemoveAtProperties
  <2> HIDE DEF r
  <2>2. QED
    BY <2>1
<1>2. \A m \in 1..Len(r) : from(m) \in 1..Len(q) /\ from(m) # n
  BY <1>1
<1>3. \A l, m \in 1..Len(r) :
        (from(l) = from(m) => l = m) /\ (l <= m => from(l) <= from(m))
  BY <1>1
<1> HIDE DEF r, from
<1>4. SequenceWellFormed(r)
  BY <1>1, <1>2, <1>3 DEF SequenceWellFormed
<1>5. \A m \in 1..Len(r) : r[m].id # q[n].id
  BY <1>1, <1>2 DEF SequenceWellFormed
<1>6. QED
  BY <1>4, <1>5 DEF r

LEMMA InsertionKeepsOrder ==
    ASSUME NEW q \in Seq(Order), SequenceWellFormed(q), NEW o \in Order,
           \A m \in 1..Len(q) : q[m].id # o.id,
           NEW n \in 1..(Len(q) + 1), SortedPosition(q, o, n)
    PROVE  SequenceWellFormed(InsertAt(q, n, o))
<1> DEFINE r == InsertAt(q, n, o)
           from(m) == IF m < n THEN m ELSE m - 1
<1>1. /\ Len(r) = Len(q) + 1 /\ n \in 1..Len(r) /\ r[n] = o
      /\ \A m \in 1..Len(r) : m # n => r[m] = q[from(m)]
  <2>1. /\ Len(r) = Len(q) + 1
        /\ \A m \in 1..(Len(q) + 1) :
             r[m] = IF m < n THEN q[m] ELSE IF m = n THEN o ELSE q[m - 1]
    BY InsertAtProperties
  <2>2. Len(q) \in Nat
    OBVIOUS
  <2> HIDE DEF r
  <2>3. QED
    BY <2>1, <2>2
<1>2. \A m \in 1..Len(r) : m # n =>
        /\ from(m) \in 1..Len(q)
        /\ m < n => from(m) \in 1..(n - 1)
        /\ n < m => from(m) \in n..Len(q)
  BY <1>1
<1>3. \A l, m \in 1..Len(r) : l # n /\ m # n =>
        (from(l) = from(m) => l = m) /\ (l <= m => from(l) <= from(m))
  BY <1>1
<1>4. /\ o.time \in Int
      /\ \A m \in 1..(n - 1) : q[m].time <= o.time
      /\ \A m \in n..Len(q) : o.time <= q[m].time
  <2>1. \A m \in 1..Len(q) : q[m] \in Order
    OBVIOUS
  <2>2. o.time \in Int /\ \A m \in 1..Len(q) : q[m].time \in Int
    BY <2>1 DEF Order
  <2>3. QED
    BY <2>2 DEF SortedPosition
<1> HIDE DEF r, from
<1>5. ASSUME NEW l \in 1..Len(r), NEW m \in 1..Len(r), r[l].id = r[m].id
      PROVE  l = m
  <2>1. CASE l = n \/ m = n
    BY <1>1, <1>2, <1>5, <2>1
  <2>2. CASE l # n /\ m # n
    BY <1>1, <1>2, <1>3, <1>5, <2>2 DEF SequenceWellFormed
  <2>3. QED
    BY <2>1, <2>2
<1>6. ASSUME NEW l \in 1..Len(r), NEW m \in 1..Len(r), l <= m
      PROVE  r[l].time <= r[m].time
  <2>1. CASE l = n /\ m = n
    BY <1>1, <1>4, <2>1
  <2>2. CASE l = n /\ m # n
    <3>1. n < m
      BY <1>6, <2>2
    <3>2. QED
      BY <1>1, <1>2, <1>4, <2>2, <3>1
  <2>3. CASE l # n /\ m = n
    <3>1. l < n
      BY <1>6, <2>3
    <3>2. QED
      BY <1>1, <1>2, <1>4, <2>3, <3>1
  <2>4. CASE l # n /\ m # n
    BY <1>1, <1>2, <1>3, <1>6, <2>4 DEF SequenceWellFormed
  <2>5. QED
    BY <2>1, <2>2, <2>3, <2>4
<1>7. SequenceWellFormed(r)
  BY <1>5, <1>6 DEF SequenceWellFormed
<1>8. QED
  BY <1>7 DEF r

LEMMA TailKeepsOrder ==
    ASSUME NEW q \in Seq(Order), SequenceWellFormed(q), q # <<>>
    PROVE  /\ SequenceWellFormed(Tail(q))
           /\ Len(Tail(q)) = Len(q) - 1
           /\ \A m \in 1..Len(Tail(q)) : Tail(q)[m] = q[m + 1]
BY HeadTailProperties DEF SequenceWellFormed

LEMMA UpsertKeepsOrder ==
    ASSUME TypeOK, QueueWellFormed, UpsertStatus(prep) = 0,
           Upsert(OrderOf(prep))
    PROVE  QueueWellFormed'
<1> DEFINE o == OrderOf(prep)
<1>1. o \in Order /\ o.id = prep.id
  BY AcceptedOrder
<1>2. Queued(o.id) \/ Len(orders) < MaxOrders
  BY <1>1, MaxOrdersAssumption DEF UpsertStatus, DateStatus, TypeOK
<1>3. SequenceWellFormed(orders) /\ orders \in Seq(Order) /\ Len(orders) <= MaxOrders
  BY DEF QueueWellFormed, SequenceWellFormed, UniqueIds, SortedByDate,
         FitsTheSlots, TypeOK
<1> HIDE DEF o
<1>4. PICK n \in 0..Len(orders) :
        /\ IsIndexOf(n, o.id)
        /\ \E m \in 1..(Len(Without(n)) + 1) :
             /\ SortedPosition(Without(n), o, m)
             /\ orders' = InsertAt(Without(n), m, o)
  BY DEF Upsert, o
<1>5. /\ Without(n) \in Seq(Order)
      /\ SequenceWellFormed(Without(n))
      /\ \A m \in 1..Len(Without(n)) : Without(n)[m].id # o.id
      /\ Len(Without(n)) < MaxOrders
  <2>1. CASE n = 0
    BY <1>2, <1>3, <1>4, <2>1 DEF Without, IsIndexOf, Queued
  <2>2. CASE n # 0
    <3>1. n \in 1..Len(orders) /\ orders[n].id = o.id
      BY <1>4, <2>2 DEF IsIndexOf
    <3>2. Without(n) = RemoveAt(orders, n)
      BY <2>2 DEF Without
    <3>3. /\ SequenceWellFormed(Without(n))
          /\ \A m \in 1..Len(Without(n)) : Without(n)[m].id # o.id
      BY <1>3, <3>1, <3>2, RemovalKeepsOrder
    <3>4. Without(n) \in Seq(Order) /\ Len(Without(n)) = Len(orders) - 1
      BY <1>3, <3>1, <3>2, RemoveAtProperties
    <3>5. Len(orders) \in Nat /\ Len(Without(n)) < MaxOrders
      BY <1>3, <3>4, MaxOrdersAssumption
    <3>6. QED
      BY <3>3, <3>4, <3>5
  <2>3. QED
    BY <2>1, <2>2
<1>6. PICK m \in 1..(Len(Without(n)) + 1) :
        SortedPosition(Without(n), o, m) /\ orders' = InsertAt(Without(n), m, o)
  BY <1>4
<1>7. SequenceWellFormed(orders')
  BY <1>1, <1>5, <1>6, InsertionKeepsOrder
<1>8. Len(orders') <= MaxOrders
  BY <1>1, <1>5, <1>6, InsertAtProperties, MaxOrdersAssumption
<1>9. QED
  BY <1>7, <1>8 DEF QueueWellFormed, SequenceWellFormed, UniqueIds,
                    SortedByDate, FitsTheSlots

LEMMA QueueInit == Init => QueueWellFormed
BY MaxOrdersAssumption
   DEF Init, QueueWellFormed, UniqueIds, SortedByDate, FitsTheSlots

LEMMA QueueStep == TypeOK /\ QueueWellFormed /\ [Next]_vars => QueueWellFormed'
<1> SUFFICES ASSUME TypeOK, QueueWellFormed, [Next]_vars PROVE QueueWellFormed'
  OBVIOUS
<1>1. SequenceWellFormed(orders) /\ orders \in Seq(Order) /\ Len(orders) <= MaxOrders
  BY DEF QueueWellFormed, SequenceWellFormed, UniqueIds, SortedByDate,
         FitsTheSlots, TypeOK
<1>2. ASSUME orders' \in Seq(Order), SequenceWellFormed(orders'),
             Len(orders') <= MaxOrders
      PROVE  QueueWellFormed'
  BY <1>2 DEF QueueWellFormed, SequenceWellFormed, UniqueIds, SortedByDate,
              FitsTheSlots
<1>3. CASE HandleUpsert
  <2>1. CASE UNCHANGED orders
    BY <1>1, <1>2, <2>1
  <2>2. CASE UpsertStatus(prep) = 0 /\ Upsert(OrderOf(prep))
    BY <2>2, UpsertKeepsOrder
  <2>3. QED
    BY <1>3, <2>1, <2>2 DEF HandleUpsert, Refuse
<1>4. CASE HandleDelete
  <2>1. CASE UNCHANGED orders
    BY <1>1, <1>2, <2>1
  <2>2. CASE Delete(prep.id)
    <3>1. PICK n \in 1..Len(orders) : orders' = RemoveAt(orders, n)
      BY <2>2 DEF Delete
    <3>2. QED
      BY <1>1, <1>2, <3>1, RemovalKeepsOrder, RemoveAtProperties,
         MaxOrdersAssumption
  <2>3. QED
    BY <1>4, <2>1, <2>2 DEF HandleDelete, Refuse
<1>5. CASE HandleReset \/ Restart
  <2>1. orders' = <<>>
    BY <1>5 DEF HandleReset, Restart
  <2>2. QED
    BY <1>2, <2>1, MaxOrdersAssumption DEF SequenceWellFormed
<1>6. CASE ExecuteHead
  <2>1. orders # <<>> /\ orders' = Tail(orders)
    BY <1>6 DEF ExecuteHead, Due
  <2>2. QED
    BY <1>1, <1>2, <2>1, TailKeepsOrder, HeadTailProperties, MaxOrdersAssumption
<1>7. CASE UNCHANGED orders
  BY <1>1, <1>2, <1>7
<1>8. QED
  BY <1>3, <1>4, <1>5, <1>6, <1>7
     DEF Next, PlcStep, Environment, Poll, RejectMultiple, ClearTrigger,
         NothingSeen, BeginSync, SyncStep, WriteSlot, WritePlannerState,
         WriteCrc, EndSync, FinishStatus, FinishTrigger, StartExecution,
         EndExecution, PublishClock, Tick, ClientWritesPrep,
         ClientSetsTrigger, vars, memory

(* Whatever the requests and their order, the queue fits its slots, holds  *)
(* an identifier once and is sorted by date.                               *)
THEOREM QueueStaysWellFormed == Spec => []QueueWellFormed
BY QueueInit, QueueStep, TypeCorrect, PTL DEF Spec

----------------------------------------------------------------------------
(* The published queue.  At each step of the publication, what is already  *)
(* written agrees with the orders in memory; CRC_STATE is 1 from the first *)
(* write to the last.                                                      *)

WritingPcs == {"slot", "state", "crc", "end"}

FullFlag == IF Len(orders) >= MaxOrders THEN 1 ELSE 0

SlotsAreOrders == slots = Image(orders)

PublicationInv ==
    /\ pc \in WritingPcs => crcState = 1
    /\ pc \notin WritingPcs => crcState = 0 /\ SlotsConsistent
    /\ pc \notin SyncPcs /\ ~(pc = "pop" /\ outcome = 1) => SlotsAreOrders
    /\ pc = "slot" => \A n \in 1..(cursor - 1) : slots[n] = Image(orders)[n]
    /\ pc \in {"state", "crc", "end"} => SlotsAreOrders
    /\ pc \in {"crc", "end"} => plannerState = FullFlag
    /\ pc = "end" => crc = Image(orders)

LEMMA ImageConsistent ==
    ASSUME TypeOK, QueueWellFormed, SlotsAreOrders, plannerState = FullFlag,
           crc = Image(orders)
    PROVE  SlotsConsistent
<1>1. orders \in Seq(Order) /\ Len(orders) <= MaxOrders
  BY DEF TypeOK, QueueWellFormed, FitsTheSlots
<1>2. \A n \in 1..Len(orders) : orders[n].id # 0 /\ orders[n] # Empty
  <2>1. \A n \in 1..Len(orders) : orders[n] \in Order
    BY <1>1
  <2>2. QED
    BY <2>1 DEF Order, Empty
<1>3. \A n \in 1..MaxOrders :
        slots[n] = IF n <= Len(orders) THEN orders[n] ELSE Empty
  BY DEF SlotsAreOrders, Image
<1>4. plannerState = 1 <=> slots[MaxOrders] # Empty
  BY <1>1, <1>2, <1>3, MaxOrdersAssumption DEF FullFlag
<1>5. ASSUME NEW m \in 1..MaxOrders, NEW n \in 1..MaxOrders,
             slots[m] # Empty, slots[m].id = slots[n].id
      PROVE  m = n
  <2>1. m \in 1..Len(orders) /\ slots[m] = orders[m]
    BY <1>1, <1>3, <1>5, MaxOrdersAssumption
  <2>2. n \in 1..Len(orders) /\ slots[n] = orders[n]
    BY <1>1, <1>2, <1>3, <1>5, <2>1, MaxOrdersAssumption DEF Empty
  <2>3. QED
    BY <1>5, <2>1, <2>2 DEF QueueWellFormed, UniqueIds
<1>6. QED
  BY <1>4, <1>5 DEF SlotsConsistent, SlotsAreOrders

LEMMA EmptyConsistent ==
    ASSUME slots = NoSlot, crc = NoSlot, plannerState = 0, orders = <<>>
    PROVE  SlotsConsistent /\ SlotsAreOrders
BY MaxOrdersAssumption
   DEF SlotsConsistent, SlotsAreOrders, NoSlot, Image

LEMMA PublicationStep ==
    TypeOK /\ QueueWellFormed /\ PublicationInv /\ [Next]_vars => PublicationInv'
<1> SUFFICES ASSUME TypeOK, QueueWellFormed, PublicationInv, [Next]_vars
             PROVE  PublicationInv'
  OBVIOUS
<1> USE DEF registers, published, memory, thread, clocks, WritingPcs, SyncPcs
<1>1. CASE \/ Poll("add", "pollAdd", "pollDelete")
           \/ Poll("delete", "pollDelete", "pollReset")
           \/ Poll("reset", "pollReset", "dispatch")
           \/ ClearTrigger("add", "clearAdd", "clearDelete")
           \/ ClearTrigger("delete", "clearDelete", "clearReset")
           \/ ClearTrigger("reset", "clearReset", "execute")
  BY <1>1 DEF PublicationInv, SlotsConsistent, SlotsAreOrders, FullFlag,
              Poll, ClearTrigger
<1>2. CASE RejectMultiple \/ NothingSeen
  BY <1>2 DEF PublicationInv, SlotsConsistent, SlotsAreOrders, FullFlag,
              RejectMultiple, NothingSeen
<1>3. CASE HandleUpsert \/ HandleDelete \/ HandleReset
  <2>1. pc = "dispatch" /\ UNCHANGED published
    BY <1>3 DEF HandleUpsert, HandleDelete, HandleReset, Handle
  <2>2. pc' = "begin" \/ (pc' = "status" /\ UNCHANGED orders)
    BY <1>3 DEF HandleUpsert, HandleDelete, HandleReset, Refuse, Publish
  <2>3. QED
    BY <2>1, <2>2
       DEF PublicationInv, SlotsConsistent, SlotsAreOrders, FullFlag
<1>4. CASE BeginSync
  BY <1>4, MaxOrdersAssumption
     DEF PublicationInv, SlotsConsistent, SlotsAreOrders, FullFlag,
         BeginSync, SyncStep
<1>5. CASE WriteSlot
  <2>1. /\ pc = "slot" /\ crcState = 1 /\ crcState' = 1
        /\ UNCHANGED orders
        /\ cursor \in 1..MaxOrders /\ slots \in [1..MaxOrders -> Block]
        /\ slots' = [slots EXCEPT ![cursor] = Image(orders)[cursor]]
        /\ \A n \in 1..(cursor - 1) : slots[n] = Image(orders)[n]
    BY <1>5 DEF WriteSlot, SyncStep, PublicationInv, TypeOK
  <2>2. \A n \in 1..cursor : slots'[n] = Image(orders)[n]
    BY <2>1, MaxOrdersAssumption
  <2>3. CASE cursor < MaxOrders
    <3>1. pc' = "slot" /\ cursor' = cursor + 1
      BY <1>5, <2>1, <2>3, MaxOrdersAssumption DEF WriteSlot, SyncStep
    <3>2. \A n \in 1..(cursor' - 1) : slots'[n] = Image(orders)[n]
      BY <2>1, <2>2, <3>1
    <3>3. QED
      BY <2>1, <3>1, <3>2 DEF PublicationInv, Image
  <2>4. CASE cursor = MaxOrders
    <3>1. pc' = "state"
      BY <1>5, <2>4, MaxOrdersAssumption DEF WriteSlot, SyncStep
    <3>2. slots' = Image(orders)
      BY <2>1, <2>2, <2>4 DEF Image
    <3>3. QED
      BY <2>1, <3>1, <3>2 DEF PublicationInv, SlotsAreOrders, Image
  <2>5. QED
    BY <2>1, <2>3, <2>4, MaxOrdersAssumption
<1>6. CASE WritePlannerState \/ WriteCrc
  BY <1>6 DEF PublicationInv, SlotsAreOrders, FullFlag, Image,
              WritePlannerState, WriteCrc, SyncStep
<1>7. CASE EndSync
  <2>1. SlotsConsistent /\ SlotsAreOrders
    BY <1>7, ImageConsistent DEF EndSync, SyncStep, PublicationInv
  <2>2. SlotsConsistent' /\ SlotsAreOrders'
    BY <1>7, <2>1 DEF EndSync, SyncStep, SlotsConsistent, SlotsAreOrders, Image
  <2>3. crcState' = 0 /\ pc' \in {"pollAdd", "status"}
    BY <1>7 DEF EndSync, SyncStep
  <2>4. QED
    BY <2>2, <2>3 DEF PublicationInv
<1>8. CASE FinishStatus \/ FinishTrigger \/ StartExecution
  BY <1>8 DEF PublicationInv, SlotsConsistent, SlotsAreOrders, FullFlag,
              FinishStatus, FinishTrigger, StartExecution
<1>9. CASE ExecuteHead \/ EndExecution
  BY <1>9 DEF PublicationInv, SlotsConsistent, SlotsAreOrders, FullFlag,
              ExecuteHead, EndExecution
<1>10. CASE Restart
  <2>1. /\ slots' = NoSlot /\ crc' = NoSlot /\ plannerState' = 0
        /\ orders' = <<>> /\ crcState' = 0 /\ pc' = "pollAdd"
    BY <1>10 DEF Restart
  <2>2. SlotsConsistent' /\ SlotsAreOrders'
    BY <2>1, MaxOrdersAssumption
       DEF SlotsConsistent, SlotsAreOrders, NoSlot, Image
  <2>3. QED
    BY <2>1, <2>2 DEF PublicationInv
<1>11. CASE PublishClock \/ Tick \/ ClientWritesPrep \/ ClientSetsTrigger
            \/ UNCHANGED vars
  BY <1>11 DEF PublicationInv, SlotsConsistent, SlotsAreOrders, FullFlag,
               PublishClock, Tick, ClientWritesPrep, ClientSetsTrigger, vars
<1>12. QED
  BY <1>1, <1>2, <1>3, <1>4, <1>5, <1>6, <1>7, <1>8, <1>9, <1>10, <1>11
     DEF Next, PlcStep, Environment

LEMMA PublicationInit == Init => PublicationInv
BY EmptyConsistent DEF Init, PublicationInv, WritingPcs, SyncPcs

(* Whenever CRC_STATE is 0, the published registers are one queue.         *)
THEOREM PublicationConsistent == Spec => []PublishedConsistent
<1>1. PublicationInv => PublishedConsistent
  BY DEF PublicationInv, PublishedConsistent
<1>2. QED
  BY <1>1, PublicationInit, PublicationStep, TypeCorrect,
     QueueStaysWellFormed, PTL DEF Spec

(* A trigger is cleared only once the queue in force is published.         *)
THEOREM AnswersFollowPublication == Spec => AnswerAfterPublish
<1>1. TypeOK /\ PublicationInv /\ [Next]_vars =>
        [\A k \in Kinds :
           trigger[k] = 1 /\ trigger'[k] = 0 /\ pc' # "pollAdd"
             => crcState = 0 /\ slots = Image(orders)]_vars
  <2> SUFFICES ASSUME TypeOK, PublicationInv, [Next]_vars, NEW k \in Kinds,
                      trigger[k] = 1, trigger'[k] = 0, pc' # "pollAdd"
               PROVE  crcState = 0 /\ slots = Image(orders)
    OBVIOUS
  <2>1. pc \in {"clear", "clearAdd", "clearDelete", "clearReset"}
    BY DEF Next, PlcStep, Environment, Poll, RejectMultiple, ClearTrigger,
           NothingSeen, HandleUpsert, HandleDelete, HandleReset, Handle,
           BeginSync, SyncStep, WriteSlot, WritePlannerState,
           WriteCrc, EndSync, FinishStatus, FinishTrigger, StartExecution,
           ExecuteHead, EndExecution, PublishClock, Tick, Restart,
           ClientWritesPrep, ClientSetsTrigger, vars, registers, TypeOK
  <2>2. QED
    BY <2>1 DEF PublicationInv, SlotsAreOrders, WritingPcs, SyncPcs
<1>2. QED
  BY <1>1, PublicationInit, PublicationStep, TypeCorrect,
     QueueStaysWellFormed, PTL DEF Spec, AnswerAfterPublish

(* Looking at the head of a sorted queue is enough to leave nothing due.   *)
THEOREM NothingDueIsLeft == Spec => PassLeavesNothingDue
<1>1. TypeOK /\ QueueWellFormed /\ [Next]_vars =>
        [pc = "pop" /\ pc' \in {"begin", "pollAdd"}
           => \A n \in 1..Len(orders') : orders'[n].time > deadline]_vars
  <2> SUFFICES ASSUME TypeOK, QueueWellFormed, [Next]_vars,
                      pc = "pop", pc' \in {"begin", "pollAdd"}
               PROVE  \A n \in 1..Len(orders') : orders'[n].time > deadline
    OBVIOUS
  <2>1. EndExecution \/ Restart
    BY DEF Next, PlcStep, Environment, Poll, RejectMultiple, ClearTrigger,
           NothingSeen, HandleUpsert, HandleDelete, HandleReset, Handle,
           BeginSync, SyncStep, WriteSlot, WritePlannerState,
           WriteCrc, EndSync, FinishStatus, FinishTrigger, StartExecution,
           ExecuteHead, PublishClock, Tick, thread,
           ClientWritesPrep, ClientSetsTrigger, vars
  <2>2. CASE Restart
    BY <2>2 DEF Restart
  <2>3. CASE EndExecution
    <3>1. ~Due /\ UNCHANGED orders
      BY <2>3 DEF EndExecution, memory
    <3>2. orders \in Seq(Order) /\ deadline \in Nat
      BY DEF TypeOK
    <3>3. ASSUME NEW n \in 1..Len(orders) PROVE orders[n].time > deadline
      <4>1. orders # <<>> /\ Head(orders) = orders[1]
        BY <3>2
      <4>2. orders[1] \in Order /\ orders[n] \in Order /\ 1 \in 1..Len(orders)
        BY <3>2
      <4>3. orders[1].time <= orders[n].time
        BY <4>2 DEF QueueWellFormed, SortedByDate
      <4>4. ~(orders[1].time <= deadline)
        BY <3>1, <4>1 DEF Due
      <4>5. QED
        <5>1. orders[1].time \in Nat /\ orders[n].time \in Nat
          BY <4>2 DEF Order
        <5>2. QED
          BY <3>2, <4>3, <4>4, <5>1
    <3>4. QED
      BY <3>1, <3>3
  <2>4. QED
    BY <2>1, <2>2, <2>3
<1>2. QED
  BY <1>1, TypeCorrect, QueueStaysWellFormed, PTL DEF Spec, PassLeavesNothingDue

----------------------------------------------------------------------------
(* The planner implements PlanService.                                     *)

SetOf(q) == {q[n] : n \in 1..Len(q)}

LEMMA SetOfRemoval ==
    ASSUME NEW q \in Seq(Order), SequenceWellFormed(q), NEW n \in 1..Len(q)
    PROVE  SetOf(RemoveAt(q, n)) = {p \in SetOf(q) : p.id # q[n].id}
<1> DEFINE r == RemoveAt(q, n)
<1>1. /\ Len(r) = Len(q) - 1
      /\ \A m \in 1..Len(r) : r[m] = IF m < n THEN q[m] ELSE q[m + 1]
      /\ \A m \in 1..Len(r) : r[m].id # q[n].id
  BY RemoveAtProperties, RemovalKeepsOrder
<1> HIDE DEF r
<1>2. ASSUME NEW p \in SetOf(r) PROVE p \in SetOf(q) /\ p.id # q[n].id
  BY <1>1 DEF SetOf
<1>3. ASSUME NEW p \in SetOf(q), p.id # q[n].id PROVE p \in SetOf(r)
  <2>1. PICK m \in 1..Len(q) : p = q[m]
    BY DEF SetOf
  <2>2. m # n
    BY <1>3, <2>1
  <2>3. CASE m < n
    BY <1>1, <2>1, <2>3 DEF SetOf
  <2>4. CASE n < m
    <3>1. m - 1 \in 1..Len(r) /\ r[m - 1] = q[m]
      BY <1>1, <2>4
    <3>2. QED
      BY <2>1, <3>1 DEF SetOf
  <2>5. QED
    BY <2>2, <2>3, <2>4
<1>4. QED
  BY <1>2, <1>3 DEF r

LEMMA SetOfInsertion ==
    ASSUME NEW q \in Seq(Order), NEW o \in Order, NEW n \in 1..(Len(q) + 1)
    PROVE  SetOf(InsertAt(q, n, o)) = SetOf(q) \union {o}
<1> DEFINE r == InsertAt(q, n, o)
<1>1. /\ Len(r) = Len(q) + 1
      /\ \A m \in 1..Len(r) :
           r[m] = IF m < n THEN q[m] ELSE IF m = n THEN o ELSE q[m - 1]
  BY InsertAtProperties
<1> HIDE DEF r
<1>2. ASSUME NEW p \in SetOf(r) PROVE p \in SetOf(q) \union {o}
  <2>1. PICK m \in 1..Len(r) : p = r[m]
    BY DEF SetOf
  <2>2. m < n => m \in 1..Len(q)
    BY <1>1
  <2>3. n < m => m - 1 \in 1..Len(q)
    BY <1>1
  <2>4. QED
    BY <1>1, <2>1, <2>2, <2>3 DEF SetOf
<1>3. o \in SetOf(r)
  BY <1>1 DEF SetOf
<1>4. ASSUME NEW p \in SetOf(q) PROVE p \in SetOf(r)
  <2>1. PICK m \in 1..Len(q) : p = q[m]
    BY DEF SetOf
  <2>2. CASE m < n
    BY <1>1, <2>1, <2>2 DEF SetOf
  <2>3. CASE n <= m
    <3>1. m + 1 \in 1..Len(r) /\ r[m + 1] = q[m]
      BY <1>1, <2>3
    <3>2. QED
      BY <2>1, <3>1 DEF SetOf
  <2>4. QED
    BY <2>2, <2>3
<1>5. QED
  BY <1>2, <1>3, <1>4 DEF r

LEMMA SetOfTail ==
    ASSUME NEW q \in Seq(Order), SequenceWellFormed(q), q # <<>>
    PROVE  /\ SetOf(Tail(q)) = SetOf(q) \ {Head(q)}
           /\ Head(q) \in SetOf(q)
           /\ \A p \in SetOf(q) : Head(q).time <= p.time
<1>1. /\ Head(q) = q[1] /\ 1 \in 1..Len(q)
      /\ Len(Tail(q)) = Len(q) - 1
      /\ \A m \in 1..Len(Tail(q)) : Tail(q)[m] = q[m + 1]
  BY TailKeepsOrder
<1>2. ASSUME NEW p \in SetOf(Tail(q)) PROVE p \in SetOf(q) \ {Head(q)}
  <2>1. PICK m \in 1..Len(Tail(q)) : p = q[m + 1]
    BY <1>1 DEF SetOf
  <2>2. m + 1 \in 1..Len(q) /\ m + 1 # 1
    BY <1>1, <2>1
  <2>3. QED
    BY <1>1, <2>1, <2>2 DEF SetOf, SequenceWellFormed
<1>3. ASSUME NEW p \in SetOf(q), p # Head(q) PROVE p \in SetOf(Tail(q))
  <2>1. PICK m \in 1..Len(q) : p = q[m]
    BY DEF SetOf
  <2>2. m - 1 \in 1..Len(Tail(q)) /\ Tail(q)[m - 1] = q[m]
    BY <1>1, <1>3, <2>1
  <2>3. QED
    BY <2>1, <2>2 DEF SetOf
<1>4. \A p \in SetOf(q) : Head(q).time <= p.time
  BY <1>1 DEF SetOf, SequenceWellFormed
<1>5. QED
  BY <1>1, <1>2, <1>3, <1>4 DEF SetOf

(* What the handlers make of the plan.                                     *)
LEMMA QueueIsPlan ==
    ASSUME TypeOK, QueueWellFormed
    PROVE  /\ orders \in Seq(Order) /\ SequenceWellFormed(orders)
           /\ Plan = SetOf(orders) /\ Plan' = SetOf(orders')
           /\ Plan \subseteq Order
BY DEF TypeOK, QueueWellFormed, SequenceWellFormed, UniqueIds, SortedByDate,
       Plan, SetOf

LEMMA UpsertPlan ==
    ASSUME TypeOK, QueueWellFormed, UpsertStatus(prep) = 0,
           Upsert(OrderOf(prep))
    PROVE  Plan' = {p \in Plan : p.id # prep.id} \union {OrderOf(prep)}
<1> DEFINE o == OrderOf(prep)
<1>1. o \in Order /\ o.id = prep.id
  BY AcceptedOrder
<1> HIDE DEF o
<1>2. PICK n \in 0..Len(orders) :
        /\ IsIndexOf(n, o.id)
        /\ \E m \in 1..(Len(Without(n)) + 1) :
             orders' = InsertAt(Without(n), m, o)
  BY DEF Upsert, o
<1>3. /\ Without(n) \in Seq(Order)
      /\ SetOf(Without(n)) = {p \in Plan : p.id # o.id}
  <2>1. CASE n = 0
    BY <1>2, <2>1, QueueIsPlan DEF Without, IsIndexOf, Queued, SetOf
  <2>2. CASE n # 0
    <3>1. n \in 1..Len(orders) /\ orders[n].id = o.id
      BY <1>2, <2>2 DEF IsIndexOf
    <3>2. Without(n) = RemoveAt(orders, n)
      BY <2>2 DEF Without
    <3>3. SetOf(RemoveAt(orders, n)) = {p \in Plan : p.id # orders[n].id}
      BY <3>1, QueueIsPlan, SetOfRemoval
    <3>4. RemoveAt(orders, n) \in Seq(Order)
      BY <3>1, QueueIsPlan, RemoveAtProperties
    <3>5. QED
      BY <3>1, <3>2, <3>3, <3>4
  <2>3. QED
    BY <2>1, <2>2
<1>4. Plan' = {p \in Plan : p.id # o.id} \union {o}
  BY <1>1, <1>2, <1>3, QueueIsPlan, SetOfInsertion
<1>5. QED
  BY <1>1, <1>4 DEF o

LEMMA DeletePlan ==
    ASSUME TypeOK, QueueWellFormed, NEW i, Delete(i)
    PROVE  /\ Plan' = {p \in Plan : p.id # i}
           /\ \E p \in Plan : p.id = i
<1>1. PICK n \in 1..Len(orders) :
        orders[n].id = i /\ orders' = RemoveAt(orders, n)
  BY DEF Delete, IsIndexOf
<1>2. SetOf(RemoveAt(orders, n)) = {p \in SetOf(orders) : p.id # orders[n].id}
  BY QueueIsPlan, SetOfRemoval
<1>3. orders[n] \in SetOf(orders)
  BY DEF SetOf
<1>4. QED
  BY <1>1, <1>2, <1>3, QueueIsPlan

LEMMA ExecutePlan ==
    ASSUME TypeOK, QueueWellFormed, ExecuteHead
    PROVE  /\ Plan' = Plan \ {Head(orders)} /\ Head(orders) \in Plan
           /\ \A p \in Plan : Head(orders).time <= p.time
<1>1. orders # <<>> /\ orders' = Tail(orders)
  BY DEF ExecuteHead, Due
<1>2. QED
  BY <1>1, QueueIsPlan, SetOfTail

(* The preparation block is what a client wrote last, or what the planner  *)
(* started with, which it would refuse.                                    *)
PrepWritten == prep \in Requests \union {Empty}

LEMMA PrepStep == PrepWritten /\ [Next]_vars => PrepWritten'
BY DEF PrepWritten, Next, PlcStep, Environment, Poll, RejectMultiple,
       ClearTrigger, NothingSeen, HandleUpsert, HandleDelete, HandleReset,
       Handle, BeginSync, SyncStep, WriteSlot, WritePlannerState, WriteCrc,
       EndSync, FinishStatus, FinishTrigger, StartExecution, ExecuteHead,
       EndExecution, PublishClock, Tick, Restart, ClientWritesPrep,
       ClientSetsTrigger, vars, registers

LEMMA ImplementationStep ==
    TypeOK /\ QueueWellFormed /\ PrepWritten /\ [Next]_vars
      => [Abstract!Next]_<<Plan, consigne.source>>
<1> SUFFICES ASSUME TypeOK, QueueWellFormed, PrepWritten, [Next]_vars
             PROVE  Abstract!Next \/ UNCHANGED <<Plan, consigne.source>>
  OBVIOUS
<1>1. Plan = SetOf(orders) /\ Plan' = SetOf(orders')
  BY QueueIsPlan
<1>2. CASE UNCHANGED memory
  BY <1>2 DEF memory, Plan
<1>3. CASE UpsertStatus(prep) = 0 /\ Upsert(OrderOf(prep)) /\ UNCHANGED consigne
  <2>1. OrderOf(prep).id = prep.id
    BY <1>3, AcceptedOrder
  <2>2. prep # Empty
    BY <1>3 DEF UpsertStatus, DateStatus, Empty
  <2>3. OrderOf(prep) \in {OrderOf(b) : b \in Requests}
    BY <2>2 DEF PrepWritten
  <2>4. Plan' = {p \in Plan : p.id # prep.id} \union {OrderOf(prep)}
    BY <1>3, UpsertPlan
  <2>5. Abstract!Put(OrderOf(prep))
    BY <1>3, <2>1, <2>4 DEF Abstract!Put
  <2>6. QED
    BY <2>3, <2>5 DEF Abstract!Next
<1>4. CASE Delete(prep.id) /\ UNCHANGED consigne
  <2>1. PICK p \in Plan : p.id = prep.id
    BY <1>4, DeletePlan
  <2>2. Plan' = {q \in Plan : q.id # p.id}
    BY <1>4, <2>1, DeletePlan
  <2>3. Abstract!Remove(p.id)
    BY <1>4, <2>1, <2>2 DEF Abstract!Remove
  <2>4. QED
    BY <2>3 DEF Abstract!Next
<1>5. CASE orders' = <<>> /\ UNCHANGED consigne
  <2>1. Plan' = {}
    BY <1>1, <1>5 DEF SetOf
  <2>2. QED
    BY <1>5, <2>1 DEF Abstract!Next, Abstract!Clear
<1>6. CASE Restart
  <2>1. Plan' = {} /\ consigne'.source = 0
    BY <1>1, <1>6 DEF Restart, SetOf, DefaultConsigne
  <2>2. QED
    BY <2>1 DEF Abstract!Next, Abstract!Restart
<1>7. CASE ExecuteHead
  <2>1. consigne'.source = Head(orders).id
    BY <1>7 DEF ExecuteHead
  <2>2. Abstract!Execute(Head(orders))
    BY <1>7, <2>1, ExecutePlan DEF Abstract!Execute
  <2>3. QED
    BY <1>7, <2>2, ExecutePlan DEF Abstract!Next
<1>8. HandleUpsert => \/ UNCHANGED memory
                      \/ /\ UpsertStatus(prep) = 0
                         /\ Upsert(OrderOf(prep))
                         /\ UNCHANGED consigne
  BY DEF HandleUpsert, Handle, Refuse, memory
<1>9. HandleDelete => \/ UNCHANGED memory
                      \/ Delete(prep.id) /\ UNCHANGED consigne
  BY DEF HandleDelete, Handle, Refuse, memory
<1>10. HandleReset => orders' = <<>> /\ UNCHANGED consigne
  BY DEF HandleReset, Handle
<1>11. \/ HandleUpsert \/ HandleDelete \/ HandleReset \/ Restart
       \/ ExecuteHead \/ UNCHANGED memory
  BY DEF Next, PlcStep, Environment, Poll, RejectMultiple, ClearTrigger,
         NothingSeen, BeginSync, SyncStep, WriteSlot, WritePlannerState,
         WriteCrc, EndSync, FinishStatus, FinishTrigger, StartExecution,
         EndExecution, PublishClock, Tick, ClientWritesPrep,
         ClientSetsTrigger, vars
<1>12. QED
  BY <1>2, <1>3, <1>4, <1>5, <1>6, <1>7, <1>8, <1>9, <1>10, <1>11

(* Every request takes effect at one instant, and only an order with the   *)
(* earliest date is executed.                                              *)
THEOREM Implementation == Spec => ImplementsPlanService
<1>1. Init => PrepWritten /\ Abstract!Init
  BY DEF Init, PrepWritten, Abstract!Init, Plan, DefaultConsigne
<1>2. QED
  BY <1>1, PrepStep, ImplementationStep, TypeCorrect, QueueStaysWellFormed,
     PTL DEF Spec, ImplementsPlanService, Abstract!Spec

----------------------------------------------------------------------------
(* The gateway and the planner together.                                   *)

(* What a command carries: its kind, and a block of the preparation        *)
(* registers, with a date for an order and without one otherwise.          *)
LEMMA CommandShape ==
    ASSUME NEW c \in Commands
    PROVE  /\ c.kind \in Kinds /\ c.block \in Block
           /\ c.kind = "add" <=> c.block.time # NoDate
           /\ c.kind = "reset" => c.block = Empty
           /\ c = [kind |-> c.kind, block |-> c.block]
<1>1. Empty \in Block /\ Empty.time = NoDate
  BY ConstantTypes DEF Empty
<1>2. CASE c \in Adds
  BY <1>2, RequestsAssumption DEF Adds, Kinds
<1>3. CASE c \in Deletes
  <2>1. PICK i \in {b.id : b \in Requests} :
          c = [kind |-> "delete", block |-> [Empty EXCEPT !.id = i]]
    BY <1>3 DEF Deletes
  <2>2. i \in Nat
    BY RequestsAssumption DEF Block
  <2>3. [Empty EXCEPT !.id = i] \in Block /\ [Empty EXCEPT !.id = i].time = NoDate
    BY <1>1, <2>2 DEF Block, Empty
  <2>4. QED
    BY <2>1, <2>3 DEF Kinds
<1>4. CASE c \in Resets
  BY <1>1, <1>4 DEF Resets, Kinds
<1>5. QED
  BY <1>2, <1>3, <1>4, CommandsAssumption

----------------------------------------------------------------------------
(* The planner's own invariants, with the gateway as its client.           *)

(* The preparation block is what some command wrote, or was never written. *)
PrepFromCommand ==
    prep = Empty \/ \E c \in Commands : c.kind # "reset" /\ prep = c.block

BaseInv ==
    /\ TypeOK /\ QueueWellFormed
    /\ connected \in BOOLEAN
    /\ stage \in Stages \cup ReadStages
    /\ command \in Commands
    /\ reply \in {"none", "ok", "error"}
    /\ fate \in {"pending", "served", "executed"}
    /\ gone \in SUBSET Nat
    /\ stage = "prep" => command.kind # "reset"
    /\ PrepFromCommand

(* The gateway is one of the clients the planner is proved for: it writes  *)
(* the preparation block and sets triggers, and whatever else a step does  *)
(* to the planner is a step of the planner.                                *)
LEMMA ComposedStep ==
    ASSUME BaseInv, [NextExchange]_allVars
    PROVE  [Next]_vars
<1> USE DEF Await, ReadStep
<1>1. CASE SetTrigger
  <2>1. command.kind \in Kinds
    BY CommandShape DEF BaseInv
  <2>2. QED
    BY <1>1, <2>1 DEF SetTrigger, ClientSetsTrigger, Next
<1>2. CASE PlannerStep \/ Clocks \/ PlannerRestart
  BY <1>2 DEF PlannerStep, Clocks, PlannerRestart, Next, Environment
<1>3. CASE WritePreparation
  <2>1. command.block \in Requests
    BY <1>3, CommandsAssumption DEF WritePreparation, BaseInv
  <2>2. QED
    BY <1>3, <2>1 DEF WritePreparation, ClientWritesPrep, Next
<1>4. CASE \/ \E c \in Commands : Receive(c)
           \/ VerifyPreparation \/ SeeAcknowledgement
           \/ AcknowledgementTimeout \/ ReadStatus \/ AccessFails
  BY <1>4 DEF Receive, VerifyPreparation, SeeAcknowledgement,
              AcknowledgementTimeout, ReadStatus, AccessFails
<1>5. CASE \/ ReadPlan \/ ReadCrc \/ ReadCrcState \/ ReadSlot \/ AnswerPlan
           \/ ConnectionDrops \/ Reconnect \/ GatewayRestart
           \/ UNCHANGED allVars
  BY <1>5 DEF ReadPlan, ReadCrc, ReadCrcState, ReadSlot, AnswerPlan,
              ConnectionDrops, Reconnect, GatewayRestart, allVars
<1>6. QED
  BY <1>1, <1>2, <1>3, <1>4, <1>5 DEF NextExchange, GatewayStep

LEMMA BaseStep == BaseInv /\ [NextExchange]_allVars => BaseInv'
<1> SUFFICES ASSUME BaseInv, [NextExchange]_allVars PROVE BaseInv'
  OBVIOUS
<1>1. TypeOK' /\ QueueWellFormed'
  BY ComposedStep, TypeStep, QueueStep DEF BaseInv
<1>2. /\ connected' \in BOOLEAN
      /\ stage' \in Stages \cup ReadStages
      /\ command' \in Commands
      /\ reply' \in {"none", "ok", "error"}
      /\ fate' \in {"pending", "served", "executed"}
      /\ stage' = "prep" => command'.kind # "reset"
  BY DEF BaseInv, NextExchange, GatewayStep, Receive, WritePreparation,
         VerifyPreparation, SetTrigger, SeeAcknowledgement,
         AcknowledgementTimeout, ReadStatus, AccessFails, Await, Answer,
         ReadPlan, ReadCrc, ReadCrcState, ReadSlot, AnswerPlan, ReadStep,
         ConnectionDrops, Reconnect, GatewayRestart, PlannerRestart,
         PlannerStep, Clocks, allVars, gateway, history, Stages, ReadStages
<1>3. gone' \in SUBSET Nat
  <2>1. \A c \in Commands : c.block.id \in Nat
    BY CommandShape DEF Block
  <2>2. CASE ReadStatus
    BY <2>1, <2>2 DEF ReadStatus, BaseInv
  <2>3. CASE \E c \in Commands : Receive(c)
    BY <2>3 DEF Receive, BaseInv
  <2>4. CASE UNCHANGED gone
    BY <2>4 DEF BaseInv
  <2>5. QED
    BY <2>2, <2>3, <2>4
       DEF NextExchange, GatewayStep, WritePreparation,
           VerifyPreparation, SetTrigger, SeeAcknowledgement,
           AcknowledgementTimeout, AccessFails, ReadPlan, ReadCrc,
           ReadCrcState, ReadSlot, AnswerPlan, ReadStep, ConnectionDrops,
           Reconnect, GatewayRestart, PlannerRestart, PlannerStep, Clocks,
           allVars, gateway, history
<1>4. PrepFromCommand'
  <2>1. CASE WritePreparation
    BY <2>1 DEF WritePreparation, Await, BaseInv, PrepFromCommand
  <2>2. CASE Restart
    BY <2>2 DEF Restart, PrepFromCommand
  <2>3. CASE UNCHANGED prep
    BY <2>3 DEF BaseInv, PrepFromCommand
  <2>4. PlcStep => UNCHANGED prep
    BY DEF PlcStep, Poll, RejectMultiple, ClearTrigger, NothingSeen,
           HandleUpsert, HandleDelete, HandleReset, Handle, BeginSync,
           SyncStep, WriteSlot, WritePlannerState, WriteCrc, EndSync,
           FinishStatus, FinishTrigger, StartExecution, ExecuteHead,
           EndExecution, registers
  <2>5. QED
    BY <2>1, <2>2, <2>3, <2>4
       DEF NextExchange, GatewayStep, Receive, VerifyPreparation, SetTrigger,
           SeeAcknowledgement, AcknowledgementTimeout, ReadStatus,
           AccessFails, ReadPlan, ReadCrc, ReadCrcState, ReadSlot,
           AnswerPlan, ReadStep, ConnectionDrops, Reconnect, GatewayRestart,
           PlannerRestart, PlannerStep, Clocks, PublishClock, Tick, allVars,
           vars, registers
<1>5. QED
  BY <1>1, <1>2, <1>3, <1>4 DEF BaseInv

LEMMA BaseInit == InitExchange => BaseInv
BY TypeInit, QueueInit
   DEF InitExchange, Init, BaseInv, Stages, PrepFromCommand

(* Seen from the registers, the gateway is one of the clients the planner  *)
(* is specified for: every theorem about the planner on its own (complete  *)
(* publications, answers after them, the abstract plan) holds behind the   *)
(* gateway too, slow planner or not.                                       *)
THEOREM GatewayIsAClient == SpecExchange => Spec
<1>1. InitExchange => Init
  BY DEF InitExchange
<1>2. BaseInv /\ [NextExchange]_allVars => [Next]_vars
  BY ComposedStep
<1>3. QED
  BY <1>1, <1>2, BaseInit, BaseStep, PTL DEF SpecExchange, Spec

----------------------------------------------------------------------------
(* What the control thread has seen of the triggers.  A trigger that is    *)
(* set in the middle of the poll finds none set before it.                 *)

TriggersSet == {k \in Kinds : trigger[k] = 1}

Polled ==
    IF pc = "pollDelete" THEN {"add"}
    ELSE IF pc = "pollReset" THEN {"add", "delete"}
    ELSE IF pc = "dispatch" THEN Kinds
    ELSE {}

RejectPcs == {"clearAdd", "clearDelete", "clearReset"}
FinishPcs == {"status", "clear"}

ThreadInv ==
    /\ \/ seen = TriggersSet \cap Polled
       \/ /\ seen = {} /\ pc \in {"pollDelete", "pollReset", "dispatch"}
          /\ \E k \in Kinds : TriggersSet = {k}
    /\ action # "none" => trigger[action] = 1 /\ pc \in SyncPcs \cup FinishPcs
    /\ pc \in FinishPcs => action # "none"
    /\ pc \in RejectPcs => \A k \in Kinds : status[k] # 0

LEMMA ThreadPlcStep ==
    ASSUME TypeOK, ThreadInv, PlcStep
    PROVE  ThreadInv'
<1> USE DEF ThreadInv, TriggersSet, Polled, RejectPcs, FinishPcs, SyncPcs,
            registers, published, memory, clocks
<1>t. trigger \in [Kinds -> {0, 1}] /\ seen \in SUBSET Kinds
      /\ action \in Kinds \cup {"none"} /\ status \in [Kinds -> Nat]
  BY DEF TypeOK
<1>1. CASE Poll("add", "pollAdd", "pollDelete")
  BY <1>1, <1>t DEF Poll, Kinds
<1>2. CASE Poll("delete", "pollDelete", "pollReset")
  BY <1>2, <1>t DEF Poll, Kinds
<1>3. CASE Poll("reset", "pollReset", "dispatch")
  BY <1>3, <1>t DEF Poll, Kinds
<1>4. CASE RejectMultiple \/ NothingSeen
  BY <1>4, <1>t DEF RejectMultiple, NothingSeen
<1>5. CASE \/ ClearTrigger("add", "clearAdd", "clearDelete")
           \/ ClearTrigger("delete", "clearDelete", "clearReset")
           \/ ClearTrigger("reset", "clearReset", "execute")
  BY <1>5, <1>t DEF ClearTrigger
<1>6. CASE HandleUpsert \/ HandleDelete \/ HandleReset
  BY <1>6, <1>t DEF HandleUpsert, HandleDelete, HandleReset, Handle, Refuse,
                    Publish, Kinds
<1>7. CASE BeginSync \/ WriteSlot \/ WritePlannerState \/ WriteCrc \/ EndSync
  BY <1>7, <1>t DEF BeginSync, WriteSlot, WritePlannerState, WriteCrc,
                    EndSync, SyncStep
<1>8. CASE FinishStatus \/ FinishTrigger
  BY <1>8, <1>t DEF FinishStatus, FinishTrigger
<1>9. CASE StartExecution \/ ExecuteHead \/ EndExecution
  BY <1>9, <1>t DEF StartExecution, ExecuteHead, EndExecution
<1>10. QED
  BY <1>1, <1>2, <1>3, <1>4, <1>5, <1>6, <1>7, <1>8, <1>9 DEF PlcStep

LEMMA ThreadStep ==
    ASSUME PromptPlanner, BaseInv, ThreadInv, [NextExchange]_allVars
    PROVE  ThreadInv'
<1>t. trigger \in [Kinds -> {0, 1}] /\ seen \in SUBSET Kinds
      /\ action \in Kinds \cup {"none"} /\ status \in [Kinds -> Nat]
      /\ command.kind \in Kinds
  BY CommandShape DEF TypeOK, BaseInv
<1>1. CASE PlcStep
  BY <1>1, ThreadPlcStep DEF BaseInv
<1>2. CASE SetTrigger
  BY <1>2, <1>t DEF SetTrigger, BusyElsewhere, ThreadInv, TriggersSet, Polled,
                    RejectPcs, FinishPcs, SyncPcs, thread
<1>3. CASE Restart
  BY <1>3 DEF Restart, NoTrigger, ThreadInv, TriggersSet, Polled, RejectPcs,
              FinishPcs, SyncPcs, Kinds
<1>4. CASE UNCHANGED <<trigger, status, thread>>
  BY <1>4 DEF thread, ThreadInv, TriggersSet, Polled, RejectPcs, FinishPcs
<1>5. QED
  BY <1>1, <1>2, <1>3, <1>4
     DEF NextExchange, GatewayStep, Receive, WritePreparation,
         VerifyPreparation, SeeAcknowledgement,
         AcknowledgementTimeout, ReadStatus, AccessFails,
         ReadPlan, ReadCrc, ReadCrcState, ReadSlot, AnswerPlan, ReadStep,
         ConnectionDrops, Reconnect, GatewayRestart, PlannerRestart,
         PlannerStep, Clocks, PublishClock, Tick, allVars, vars, registers
----------------------------------------------------------------------------
(* What a step of the planner is for its client.                           *)

InHand == stage \in Stages \ {"idle"}

EarlyPcs == {"begin", "slot", "state", "crc"}

(* The handler of k takes up a request and changes the plan.               *)
Applies(k) ==
    /\ pc = "dispatch" /\ action = "none" /\ TriggersSet = {k}
    /\ pc' = "begin" /\ action' = k
    /\ k = "add" => /\ prep.time # NoDate
                    /\ Plan' = {p \in Plan : p.id # prep.id} \union {OrderOf(prep)}
    /\ k = "delete" => Plan' = {p \in Plan : p.id # prep.id}
    /\ k = "reset" => Plan' = {}
    /\ fate' = IF InHand /\ k = command.kind /\ (k # "reset" => prep = command.block)
               THEN "served" ELSE fate
    /\ UNCHANGED <<prep, trigger, status, crc, held>>

(* The handler of k refuses it.                                            *)
Refuses(k) ==
    /\ pc = "dispatch" /\ action = "none" /\ TriggersSet = {k}
    /\ pc' = "status" /\ action' = k /\ outcome' # 0
    /\ UNCHANGED <<prep, trigger, status, crc, held, fate, orders>>

Executes ==
    /\ action = "none" /\ pc = "pop"
    /\ Plan' = Plan \ {Head(orders)}
    /\ fate' = IF fate = "served" /\ command.kind = "add"
                  /\ Head(orders) = OrderOf(command.block)
               THEN "executed" ELSE fate
    /\ held' = held \ {Head(orders)}
    /\ UNCHANGED <<prep, trigger, status, crc, action>>

(* Any other step: the triggers, the status words and the CRC are written  *)
(* where the thread stands.                                                *)
Proceeds ==
    /\ ~(pc = "dispatch" /\ pc' = "begin")
    /\ UNCHANGED <<prep, held, fate, orders>>
    /\ \/ UNCHANGED trigger
       \/ \E k \in Kinds : /\ trigger' = [trigger EXCEPT ![k] = 0]
                           /\ UNCHANGED status
                           /\ pc \in RejectPcs \/ (pc = "clear" /\ k = action)
    /\ \/ UNCHANGED status
       \/ status' = [k \in Kinds |-> 8]
       \/ pc = "status" /\ status' = [status EXCEPT ![action] = outcome]
    /\ \/ UNCHANGED crc
       \/ pc = "crc" /\ crc' = Image(orders)
    /\ action' = action \/ (pc = "clear" /\ action' = "none")
    /\ action # "none" /\ pc = "status" =>
         /\ pc' = "clear" /\ UNCHANGED trigger
         /\ status' = [status EXCEPT ![action] = outcome]
    /\ action # "none" /\ pc = "clear" =>
         action' = "none" /\ trigger'[action] = 0 /\ UNCHANGED status
    /\ action # "none" /\ pc \in EarlyPcs =>
         pc' \in EarlyPcs \/ crc' = Image(orders)

LEMMA Handlers ==
    ASSUME BaseInv, ThreadInv, PlannerStep, NEW k \in Kinds, Handle(k)
    PROVE  pc = "dispatch" /\ action = "none" /\ TriggersSet = {k} /\ action' = k
BY DEF Handle, ThreadInv, TriggersSet, Polled, SyncPcs, FinishPcs, BaseInv, TypeOK

LEMMA PlannerStepKinds ==
    ASSUME BaseInv, ThreadInv, PlannerStep
    PROVE  \/ \E k \in Kinds : Applies(k) \/ Refuses(k)
           \/ Executes \/ Proceeds
<1> USE DEF registers, published, memory, clocks
<1>t. /\ TypeOK /\ QueueWellFormed /\ PlcStep /\ UNCHANGED <<stage, command>>
      /\ command.kind \in Kinds
  BY CommandShape DEF BaseInv, PlannerStep, gateway
<1>f. ASSUME pc = "dispatch"
      PROVE  /\ held' = held
             /\ pc' # "begin" => fate' = fate
             /\ pc' = "begin" =>
                  fate' = IF InHand /\ action' = command.kind
                             /\ (action' # "reset" => prep = command.block)
                          THEN "served" ELSE fate
  BY <1>f DEF PlannerStep, Serves, ExecutesOrderOf, InHand
<1>g. ASSUME pc # "dispatch", ~(pc = "pop" /\ Due)
      PROVE  held' = held /\ fate' = fate
  BY <1>g DEF PlannerStep, Serves, ExecutesOrderOf
<1>1. CASE HandleUpsert
  <2>1. pc = "dispatch" /\ action = "none" /\ TriggersSet = {"add"} /\ action' = "add"
    BY <1>1, Handlers DEF HandleUpsert, Kinds
  <2>2. UNCHANGED <<prep, trigger, status, crc>>
    BY <1>1 DEF HandleUpsert, Handle
  <2>3. CASE UpsertStatus(prep) # 0 /\ Refuse(UpsertStatus(prep))
    BY <1>f, <2>1, <2>2, <2>3 DEF Refuse, Refuses, Kinds
  <2>4. CASE UpsertStatus(prep) = 0 /\ Publish /\ Upsert(OrderOf(prep))
    <3>1. Plan' = {p \in Plan : p.id # prep.id} \union {OrderOf(prep)}
      BY <1>t, <2>4, UpsertPlan
    <3>2. prep.time # NoDate
      BY <2>4 DEF UpsertStatus, DateStatus
    <3>3. Applies("add")
      BY <1>f, <2>1, <2>2, <2>4, <3>1, <3>2 DEF Applies, Publish
    <3>4. QED
      BY <3>3 DEF Kinds
  <2>5. QED
    BY <1>1, <2>3, <2>4 DEF HandleUpsert
<1>2. CASE HandleDelete
  <2>1. pc = "dispatch" /\ action = "none" /\ TriggersSet = {"delete"} /\ action' = "delete"
    BY <1>2, Handlers DEF HandleDelete, Kinds
  <2>2. UNCHANGED <<prep, trigger, status, crc>>
    BY <1>2 DEF HandleDelete, Handle
  <2>3. CASE DeleteStatus(prep) # 0 /\ Refuse(DeleteStatus(prep))
    BY <1>f, <2>1, <2>2, <2>3 DEF Refuse, Refuses, Kinds
  <2>4. CASE DeleteStatus(prep) = 0 /\ Publish /\ Delete(prep.id)
    <3>1. Plan' = {p \in Plan : p.id # prep.id}
      BY <1>t, <2>4, DeletePlan
    <3>2. Applies("delete")
      BY <1>f, <2>1, <2>2, <2>4, <3>1 DEF Applies, Publish
    <3>3. QED
      BY <3>2 DEF Kinds
  <2>5. QED
    BY <1>2, <2>3, <2>4 DEF HandleDelete
<1>3. CASE HandleReset
  <2>1. pc = "dispatch" /\ action = "none" /\ TriggersSet = {"reset"} /\ action' = "reset"
    BY <1>3, Handlers DEF HandleReset, Kinds
  <2>2. UNCHANGED <<prep, trigger, status, crc>> /\ pc' = "begin"
    BY <1>3 DEF HandleReset, Handle, Publish
  <2>3. Plan' = {}
    BY <1>3 DEF HandleReset, Plan
  <2>4. Applies("reset")
    BY <1>f, <2>1, <2>2, <2>3 DEF Applies
  <2>5. QED
    BY <2>4 DEF Kinds
<1>4. CASE ExecuteHead
  <2>1. pc = "pop" /\ Due /\ UNCHANGED <<prep, trigger, status, crc, action>>
    BY <1>4 DEF ExecuteHead
  <2>2. action = "none"
    BY <2>1 DEF ThreadInv, SyncPcs, FinishPcs
  <2>3. Plan' = Plan \ {Head(orders)}
    BY <1>t, <1>4, ExecutePlan
  <2>4. QED
    BY <2>1, <2>2, <2>3 DEF Executes, PlannerStep, Serves, ExecutesOrderOf
<1>5. CASE RejectMultiple \/ NothingSeen
  <2>1. action = "none"
    BY <1>5 DEF RejectMultiple, NothingSeen, ThreadInv, SyncPcs, FinishPcs
  <2>2. QED
    BY <1>5, <1>f, <2>1 DEF RejectMultiple, NothingSeen, Proceeds
<1>6. CASE \/ Poll("add", "pollAdd", "pollDelete")
           \/ Poll("delete", "pollDelete", "pollReset")
           \/ Poll("reset", "pollReset", "dispatch")
  BY <1>6, <1>g DEF Poll, Proceeds, EarlyPcs
<1>7. CASE \/ ClearTrigger("add", "clearAdd", "clearDelete")
           \/ ClearTrigger("delete", "clearDelete", "clearReset")
           \/ ClearTrigger("reset", "clearReset", "execute")
  BY <1>7, <1>g DEF ClearTrigger, Proceeds, EarlyPcs, RejectPcs, Kinds
<1>8. CASE BeginSync \/ WriteSlot \/ WritePlannerState \/ WriteCrc \/ EndSync
  BY <1>8, <1>g DEF BeginSync, WriteSlot, WritePlannerState, WriteCrc, EndSync,
                    SyncStep, Proceeds, EarlyPcs
<1>9. CASE FinishStatus
  BY <1>9, <1>g DEF FinishStatus, Proceeds, EarlyPcs
<1>10. CASE FinishTrigger
  <2>1. action \in Kinds /\ trigger \in [Kinds -> {0, 1}]
    BY <1>10, <1>t DEF FinishTrigger, ThreadInv, FinishPcs, TypeOK
  <2>2. QED
    BY <1>10, <1>g, <2>1 DEF FinishTrigger, Proceeds, EarlyPcs
<1>11. CASE StartExecution \/ EndExecution
  BY <1>11, <1>g DEF StartExecution, EndExecution, Proceeds, EarlyPcs
<1>12. QED
  BY <1>1, <1>2, <1>3, <1>4, <1>5, <1>6, <1>7, <1>8, <1>9, <1>10, <1>11, <1>t
     DEF PlcStep

----------------------------------------------------------------------------
(* The command in hand.  While it is handled and the connection holds, the *)
(* preparation block is its own once written, and once the planner has     *)
(* taken it up no trigger of another kind is set.                          *)

Live == connected /\ InHand

TakenUp == Live /\ fate # "pending"

HandInv ==
    /\ Live /\ command.kind # "reset" /\ (stage # "prep" \/ fate # "pending")
         => prep = command.block
    /\ TakenUp => \A k \in Kinds \ {command.kind} : trigger[k] = 0

LEMMA HandStep ==
    ASSUME BaseInv, ThreadInv, HandInv, [NextExchange]_allVars
    PROVE  HandInv'
<1> USE DEF HandInv, TakenUp, Live, InHand, Stages, ReadStages,
            registers
<1>t. /\ trigger \in [Kinds -> {0, 1}] /\ command \in Commands
      /\ command.kind \in Kinds /\ (command.kind = "reset" => command.block = Empty)
  BY CommandShape DEF TypeOK, BaseInv
<1>1. CASE PlannerStep
  <2>1. UNCHANGED <<connected, stage, command>>
    BY <1>1 DEF PlannerStep, gateway
  <2>2. CASE \E k \in Kinds : Applies(k) \/ Refuses(k)
    BY <1>t, <2>1, <2>2 DEF Applies, Refuses, TriggersSet
  <2>3. CASE Executes \/ Proceeds
    BY <1>t, <2>1, <2>3 DEF Executes, Proceeds
  <2>4. QED
    BY <1>1, <2>2, <2>3, PlannerStepKinds
<1>2. CASE PlannerRestart
  BY <1>2 DEF PlannerRestart, Restart
<1>3. CASE WritePreparation
  BY <1>3, <1>t DEF WritePreparation, Await
<1>4. CASE SetTrigger
  BY <1>4, <1>t DEF SetTrigger, Await
<1>5. CASE \E c \in Commands : Receive(c)
  BY <1>5 DEF Receive, vars
<1>6. CASE \/ VerifyPreparation \/ SeeAcknowledgement
           \/ AcknowledgementTimeout \/ ReadStatus \/ AccessFails
  BY <1>6 DEF VerifyPreparation, SeeAcknowledgement, AcknowledgementTimeout,
              ReadStatus, AccessFails, Await, vars, history
<1>7. CASE \/ ReadPlan \/ ReadCrc \/ ReadCrcState \/ ReadSlot \/ AnswerPlan
           \/ ConnectionDrops \/ Reconnect \/ GatewayRestart
  BY <1>7 DEF ReadPlan, ReadCrc, ReadCrcState, ReadSlot, AnswerPlan, ReadStep,
              ConnectionDrops, Reconnect, GatewayRestart, vars, history
<1>8. CASE Clocks \/ UNCHANGED allVars
  BY <1>8 DEF Clocks, PublishClock, Tick, allVars, vars, gateway, history
<1>9. QED
  BY <1>1, <1>2, <1>3, <1>4, <1>5, <1>6, <1>7, <1>8 DEF NextExchange, GatewayStep

----------------------------------------------------------------------------
(* The answer.  While the gateway waits for a command the planner has not  *)
(* taken up, either its trigger is still set, or its status word is an     *)
(* error; the planner may only be refusing it.                             *)

Waiting == Live /\ stage \in {"poll", "status"} /\ fate = "pending"

AnswerInv ==
    /\ Waiting /\ trigger[command.kind] = 0 => status[command.kind] # 0
    /\ Waiting /\ action = command.kind =>
         /\ pc \in FinishPcs
         /\ pc = "status" => outcome # 0
         /\ pc = "clear" => status[command.kind] # 0
    /\ Live /\ stage = "status" => trigger[command.kind] = 0
    /\ reply = "ok" => fate # "pending"

LEMMA AnswerPlannerStep ==
    ASSUME BaseInv, ThreadInv, HandInv, AnswerInv, PlannerStep
    PROVE  AnswerInv'
<1> USE DEF AnswerInv, Waiting, Live
<1>t. /\ trigger \in [Kinds -> {0, 1}] /\ status \in [Kinds -> Nat]
      /\ action \in Kinds \cup {"none"} /\ command.kind \in Kinds
      /\ pc \in FinishPcs => action # "none"
      /\ action # "none" => pc \in SyncPcs \cup FinishPcs
      /\ pc \in RejectPcs => \A k \in Kinds : status[k] # 0
  BY CommandShape DEF TypeOK, BaseInv, ThreadInv
<1>1. UNCHANGED <<connected, stage, command, reply>> /\ InHand' = InHand
  BY DEF PlannerStep, gateway, InHand
<1>2. CASE \E k \in Kinds : Applies(k)
  <2>1. PICK k \in Kinds : Applies(k)
    BY <1>2
  <2>2. Waiting /\ k = command.kind => fate' = "served"
    BY <2>1 DEF Applies, HandInv
  <2>3. fate' = "pending" => fate = "pending"
    BY <2>1 DEF Applies
  <2>4. QED
    BY <1>1, <1>t, <2>1, <2>2, <2>3 DEF Applies
<1>3. CASE \E k \in Kinds : Refuses(k)
  BY <1>1, <1>t, <1>3 DEF Refuses, FinishPcs
<1>4. CASE Executes
  BY <1>1, <1>t, <1>4 DEF Executes, BaseInv
<1>5. CASE Proceeds
  <2>1. fate' = fate /\ (action' = action \/ (pc = "clear" /\ action' = "none"))
    BY <1>5 DEF Proceeds
  <2>2. \A k \in Kinds : trigger'[k] = 1 => trigger[k] = 1
    BY <1>5, <1>t DEF Proceeds
  <2>3. trigger' \in [Kinds -> {0, 1}]
    BY <1>5, <1>t DEF Proceeds
  <2>4. ASSUME Waiting, trigger'[command.kind] = 0
        PROVE  status'[command.kind] # 0
    BY <1>5, <1>t, <2>4 DEF Proceeds, RejectPcs, FinishPcs
  <2>5. ASSUME Waiting, action' = command.kind
        PROVE  /\ pc' \in FinishPcs
               /\ pc' = "status" => outcome' # 0
               /\ pc' = "clear" => status'[command.kind] # 0
    <3>1. action = command.kind /\ action # "none" /\ pc \in FinishPcs
      BY <1>t, <2>1, <2>5 DEF Kinds
    <3>2. pc = "status"
      BY <1>5, <1>t, <2>5, <3>1 DEF Proceeds, FinishPcs, Kinds
    <3>3. QED
      BY <1>5, <1>t, <2>5, <3>1, <3>2 DEF Proceeds, FinishPcs
  <2>6. QED
    BY <1>1, <1>t, <2>1, <2>2, <2>3, <2>4, <2>5
<1>6. QED
  BY <1>2, <1>3, <1>4, <1>5, PlannerStepKinds

LEMMA AnswerStep ==
    ASSUME PromptPlanner, BaseInv, ThreadInv, HandInv, AnswerInv,
           [NextExchange]_allVars
    PROVE  AnswerInv'
<1> USE DEF AnswerInv, Waiting, Live, InHand, Stages, ReadStages, registers
<1>t. /\ trigger \in [Kinds -> {0, 1}] /\ command.kind \in Kinds
      /\ stage \in Stages \cup ReadStages /\ action \in Kinds \cup {"none"}
  BY CommandShape DEF TypeOK, BaseInv
<1>1. CASE PlannerStep
  BY <1>1, AnswerPlannerStep
<1>2. CASE PlannerRestart
  BY <1>2 DEF PlannerRestart, Restart
<1>3. CASE WritePreparation \/ VerifyPreparation
  BY <1>3 DEF WritePreparation, VerifyPreparation, Await, Answer, thread, vars
<1>4. CASE SetTrigger
  <2>1. fate = "pending" => action = "none"
    BY <1>4 DEF SetTrigger, BusyElsewhere
  <2>2. QED
    BY <1>4, <1>t, <2>1 DEF SetTrigger, Await, thread, Kinds
<1>5. CASE \E c \in Commands : Receive(c)
  BY <1>5 DEF Receive, vars
<1>6. CASE SeeAcknowledgement \/ AcknowledgementTimeout
  BY <1>6 DEF SeeAcknowledgement, AcknowledgementTimeout, Await, Answer, vars,
              thread
<1>7. CASE ReadStatus
  BY <1>7 DEF ReadStatus, Await, Answer, vars
<1>8. CASE \/ AccessFails
           \/ ReadPlan \/ ReadCrc \/ ReadCrcState \/ ReadSlot \/ AnswerPlan
           \/ ConnectionDrops \/ Reconnect \/ GatewayRestart
  BY <1>8 DEF AccessFails, Answer, ReadPlan, ReadCrc, ReadCrcState, ReadSlot,
              AnswerPlan, ReadStep, ConnectionDrops, Reconnect,
              GatewayRestart, vars, thread, history
<1>9. CASE Clocks \/ UNCHANGED allVars
  BY <1>9 DEF Clocks, PublishClock, Tick, allVars, vars, gateway, history, thread
<1>10. QED
  BY <1>1, <1>2, <1>3, <1>4, <1>5, <1>6, <1>7, <1>8, <1>9
     DEF NextExchange, GatewayStep

(* When "ok" is answered, the planner has done with the command and no     *)
(* trigger is set.                                                         *)
LEMMA OkIsFinal ==
    ASSUME BaseInv, ThreadInv, HandInv, AnswerInv, ReadStatus, reply' = "ok"
    PROVE  /\ TakenUp /\ action # command.kind
           /\ \A k \in Kinds : trigger[k] = 0
<1>1. Live /\ stage = "status" /\ status[command.kind] = 0
  BY DEF ReadStatus, Await, Answer, Live, InHand, Stages
<1>2. trigger[command.kind] = 0
  BY <1>1 DEF AnswerInv
<1>3. TakenUp
  BY <1>1, <1>2 DEF AnswerInv, Waiting, TakenUp
<1>4. \A k \in Kinds : trigger[k] = 0
  BY <1>2, <1>3 DEF HandInv
<1>5. action # command.kind
  <2>1. command.kind # "none" /\ command.kind \in Kinds
    BY CommandShape DEF BaseInv, Kinds
  <2>2. QED
    BY <1>2, <2>1 DEF ThreadInv
<1>6. QED
  BY <1>3, <1>4, <1>5

----------------------------------------------------------------------------
(* What commands given up may still do.  A trigger left behind never works *)
(* against what was acknowledged since: the command that wrote the         *)
(* preparation block last has withdrawn it.                                *)

OwedInv ==
    /\ InHand => Withdrawn(command) = {} /\ Revived(command) = {}
    /\ trigger["add"] = 1 \/ trigger["delete"] = 1 => \A o \in held : o.id # prep.id
    /\ trigger["reset"] = 1 => held = {}
    /\ trigger["add"] = 1 => prep.time = NoDate \/ prep.id \notin gone

LEMMA OwedStep ==
    ASSUME BaseInv, ThreadInv, HandInv, AnswerInv, OwedInv,
           [NextExchange]_allVars
    PROVE  OwedInv'
<1> USE DEF OwedInv, Withdrawn, Revived, Kinds
<1>t. /\ trigger \in [Kinds -> {0, 1}] /\ command \in Commands
      /\ command.kind \in Kinds
      /\ command.kind = "add" <=> command.block.time # NoDate
      /\ command.kind = "reset" => command.block = Empty
  BY CommandShape DEF TypeOK, BaseInv
<1>1. CASE PlannerStep
  <2>1. UNCHANGED <<stage, command, gone>>
    BY <1>1 DEF PlannerStep, gateway
  <2>2. /\ held' \subseteq held /\ prep' = prep
        /\ \A k \in Kinds : trigger'[k] = 1 => trigger[k] = 1
    <3>1. CASE \E k \in Kinds : Applies(k) \/ Refuses(k)
      BY <3>1 DEF Applies, Refuses
    <3>2. CASE Executes
      BY <3>2 DEF Executes
    <3>3. CASE Proceeds
      BY <1>t, <3>3 DEF Proceeds
    <3>4. QED
      BY <1>1, <3>1, <3>2, <3>3, PlannerStepKinds
  <2>3. QED
    BY <2>1, <2>2 DEF InHand
<1>2. CASE PlannerRestart
  BY <1>2 DEF PlannerRestart, Restart, NoTrigger, InHand
<1>3. CASE WritePreparation
  <2>1. /\ InHand /\ prep' = command.block
        /\ UNCHANGED <<trigger, held, gone, command>>
    BY <1>3 DEF WritePreparation, Await, InHand, Stages
  <2>2. command.kind # "reset" => \A o \in held : o.id # prep'.id
    BY <2>1
  <2>3. command.kind = "reset" => held = {}
    BY <2>1
  <2>4. command.kind = "add" => prep'.id \notin gone
    BY <2>1
  <2>5. QED
    BY <1>t, <2>1, <2>2, <2>3, <2>4
<1>4. CASE SetTrigger
  <2>1. /\ Live /\ InHand /\ stage = "trigger"
        /\ trigger' = [trigger EXCEPT ![command.kind] = 1]
        /\ UNCHANGED <<prep, held, gone, command>>
    BY <1>4 DEF SetTrigger, Await, InHand, Live, Stages
  <2>2. command.kind # "reset" =>
          prep = command.block /\ \A o \in held : o.id # prep.id
    BY <2>1 DEF HandInv
  <2>3. command.kind = "reset" => held = {}
    BY <2>1
  <2>4. command.kind = "add" => prep.id \notin gone
    BY <2>1, <2>2
  <2>5. QED
    BY <1>t, <2>1, <2>2, <2>3, <2>4
<1>5. CASE \E c \in Commands : Receive(c)
  BY <1>5 DEF Receive, vars, registers
<1>6. CASE ReadStatus
  <2>1. stage' = "idle" /\ UNCHANGED <<trigger, prep, command>>
    BY <1>6 DEF ReadStatus, Await, vars, registers
  <2>2. CASE reply' = "ok"
    <3>1. \A k \in Kinds : trigger[k] = 0
      BY <1>6, <2>2, OkIsFinal
    <3>2. QED
      BY <2>1, <3>1 DEF InHand
  <2>3. CASE reply' # "ok"
    <3>1. UNCHANGED <<held, gone>>
      BY <1>6, <2>3 DEF ReadStatus, Answer
    <3>2. QED
      BY <2>1, <3>1 DEF InHand
  <2>4. QED
    BY <2>2, <2>3
<1>7. CASE VerifyPreparation \/ SeeAcknowledgement \/ AcknowledgementTimeout
  BY <1>7 DEF VerifyPreparation, SeeAcknowledgement, AcknowledgementTimeout,
              Await, vars, registers, InHand, Stages
<1>8. CASE \/ AccessFails
           \/ ReadPlan \/ ReadCrc \/ ReadCrcState \/ ReadSlot \/ AnswerPlan
           \/ ConnectionDrops \/ Reconnect \/ GatewayRestart
  BY <1>8 DEF AccessFails, ReadPlan, ReadCrc, ReadCrcState, ReadSlot,
              AnswerPlan, ReadStep, ConnectionDrops, Reconnect,
              GatewayRestart, vars, registers, history, InHand, Stages
<1>9. CASE Clocks \/ UNCHANGED allVars
  BY <1>9 DEF Clocks, PublishClock, Tick, allVars, vars, registers, gateway,
              history, InHand
<1>10. QED
  BY <1>1, <1>2, <1>3, <1>4, <1>5, <1>6, <1>7, <1>8, <1>9
     DEF NextExchange, GatewayStep

----------------------------------------------------------------------------
(* The plan: what was acknowledged holds, and so does the effect of the    *)
(* command in hand once the planner has taken it up.                       *)

EffectInv ==
    /\ AcknowledgedStateHolds
    /\ TakenUp =>
         /\ command.kind = "add" /\ fate = "served" => OrderOf(command.block) \in Plan
         /\ command.kind = "delete" => \A o \in Plan : o.id # command.block.id
         /\ command.kind = "reset" => Plan = {}

(* A request that is applied while the command in hand is taken up is that *)
(* very command.                                                           *)
LEMMA AppliedCommand ==
    ASSUME BaseInv, HandInv, PlannerStep, NEW k \in Kinds, Applies(k), TakenUp'
    PROVE  /\ k = command.kind
           /\ k # "reset" => prep = command.block
<1>1. UNCHANGED <<connected, stage, command>>
  BY DEF PlannerStep, gateway
<1>2. CASE fate = "pending"
  BY <1>1, <1>2 DEF Applies, TakenUp
<1>3. CASE fate # "pending"
  <2>1. TakenUp
    BY <1>1, <1>3 DEF TakenUp, Live, InHand
  <2>2. trigger[k] = 1
    BY DEF Applies, TriggersSet
  <2>3. k = command.kind
    BY <2>1, <2>2 DEF HandInv
  <2>4. QED
    BY <2>1, <2>3 DEF HandInv, TakenUp
<1>4. QED
  BY <1>2, <1>3

LEMMA EffectPlannerStep ==
    ASSUME BaseInv, ThreadInv, HandInv, OwedInv, EffectInv, PlannerStep
    PROVE  EffectInv'
<1> USE DEF EffectInv, AcknowledgedStateHolds
<1>1. UNCHANGED <<connected, stage, command, gone>>
      /\ Live' = Live
  BY DEF PlannerStep, gateway, Live, InHand
<1>2. prep \in Block /\ OrderOf(prep).id = prep.id
  BY DEF BaseInv, TypeOK, OrderOf, Block
<1>3. CASE \E k \in Kinds : Applies(k)
  <2>1. PICK k \in Kinds : Applies(k)
    BY <1>3
  <2>2. trigger[k] = 1 /\ UNCHANGED <<prep, held>>
    BY <2>1 DEF Applies, TriggersSet
  <2>3. AcknowledgedStateHolds'
    <3>1. CASE k = "add"
      BY <1>1, <1>2, <2>1, <2>2, <3>1 DEF Applies, OwedInv
    <3>2. CASE k = "delete"
      BY <1>1, <2>1, <2>2, <3>2 DEF Applies, OwedInv
    <3>3. CASE k = "reset"
      BY <1>1, <2>1, <2>2, <3>3 DEF Applies, OwedInv
    <3>4. QED
      BY <3>1, <3>2, <3>3 DEF Kinds
  <2>4. ASSUME TakenUp'
        PROVE  /\ command.kind = "add" => OrderOf(command.block) \in Plan'
               /\ command.kind = "delete" => \A o \in Plan' : o.id # command.block.id
               /\ command.kind = "reset" => Plan' = {}
    <3>1. k = command.kind /\ (k # "reset" => prep = command.block)
      BY <2>1, <2>4, AppliedCommand
    <3>2. QED
      BY <2>1, <3>1 DEF Applies
  <2>5. OrderOf(command.block)' = OrderOf(command.block)
    BY <1>1 DEF OrderOf
  <2>6. QED
    BY <1>1, <2>3, <2>4, <2>5
<1>4. CASE Executes
  BY <1>1, <1>4 DEF Executes, TakenUp, OrderOf
<1>5. CASE Proceeds \/ \E k \in Kinds : Refuses(k)
  <2>1. UNCHANGED <<orders, fate, held>>
    BY <1>5 DEF Proceeds, Refuses
  <2>2. Plan' = Plan
    BY <2>1 DEF Plan
  <2>3. QED
    BY <1>1, <2>1, <2>2 DEF TakenUp, OrderOf
<1>6. QED
  BY <1>3, <1>4, <1>5, PlannerStepKinds

LEMMA EffectStep ==
    ASSUME BaseInv, ThreadInv, HandInv, AnswerInv, OwedInv, EffectInv,
           [NextExchange]_allVars
    PROVE  EffectInv'
<1> USE DEF EffectInv, AcknowledgedStateHolds, TakenUp, Live, InHand, Stages,
            ReadStages
<1>1. CASE PlannerStep
  BY <1>1, EffectPlannerStep
<1>2. CASE PlannerRestart
  BY <1>2 DEF PlannerRestart, Restart, Plan
<1>3. CASE ReadStatus
  <2>1. stage' = "idle" /\ Plan' = Plan
    BY <1>3 DEF ReadStatus, Await, vars, memory, Plan
  <2>2. CASE reply' = "ok"
    <3>1. TakenUp
      BY <1>3, <2>2, OkIsFinal
    <3>2. fate # "executed" => fate = "served"
      BY <3>1 DEF BaseInv
    <3>3. command.kind \in Kinds
      BY CommandShape DEF BaseInv
    <3>4. QED
      BY <1>3, <2>1, <2>2, <3>1, <3>2, <3>3 DEF ReadStatus, Kinds
  <2>3. CASE reply' # "ok"
    <3>1. UNCHANGED <<held, gone>>
      BY <1>3, <2>3 DEF ReadStatus, Answer
    <3>2. QED
      BY <2>1, <3>1
  <2>4. QED
    BY <2>2, <2>3
<1>4. CASE \E c \in Commands : Receive(c)
  BY <1>4 DEF Receive, vars, memory, Plan
<1>5. CASE \/ WritePreparation \/ VerifyPreparation \/ SetTrigger
           \/ SeeAcknowledgement \/ AcknowledgementTimeout
  BY <1>5 DEF WritePreparation, VerifyPreparation, SetTrigger,
              SeeAcknowledgement, AcknowledgementTimeout, Await, vars,
              memory, Plan, OrderOf
<1>6. CASE \/ AccessFails
           \/ ReadPlan \/ ReadCrc \/ ReadCrcState \/ ReadSlot \/ AnswerPlan
           \/ ConnectionDrops \/ Reconnect \/ GatewayRestart
  BY <1>6 DEF AccessFails, ReadPlan, ReadCrc, ReadCrcState, ReadSlot,
              AnswerPlan, ReadStep, ConnectionDrops, Reconnect,
              GatewayRestart, vars, memory, Plan, history, OrderOf
<1>7. CASE Clocks \/ UNCHANGED allVars
  BY <1>7 DEF Clocks, PublishClock, Tick, allVars, vars, memory, Plan,
              gateway, history, OrderOf
<1>8. QED
  BY <1>1, <1>2, <1>3, <1>4, <1>5, <1>6, <1>7 DEF NextExchange, GatewayStep

----------------------------------------------------------------------------
(* The published CRC, which belongs to one image of the queue: an image    *)
(* lists what was acknowledged, and what the command in hand did from the  *)
(* moment its publication wrote the CRC.                                   *)

Listed(f) == {f[n] : n \in 1..MaxOrders}

ShowsAcknowledged(f) ==
    /\ held \subseteq Listed(f)
    /\ \A o \in Listed(f) : o.id \in gone => o = Empty

ShowsCommand(f) ==
    /\ command.kind = "add" /\ fate = "served" => OrderOf(command.block) \in Listed(f)
    /\ command.kind = "delete" => \A o \in Listed(f) : o.id = command.block.id => o = Empty
    /\ command.kind = "reset" => Listed(f) \subseteq {Empty}

CrcInv ==
    /\ ShowsAcknowledged(crc)
    /\ TakenUp /\ ~(action = command.kind /\ pc \in EarlyPcs) => ShowsCommand(crc)

LEMMA ImageListed ==
    ASSUME TypeOK, QueueWellFormed
    PROVE  /\ Plan \subseteq Listed(Image(orders))
           /\ Listed(Image(orders)) \subseteq Plan \union {Empty}
<1>1. Len(orders) \in Nat /\ Len(orders) <= MaxOrders /\ MaxOrders \in Nat
  BY MaxOrdersAssumption DEF TypeOK, QueueWellFormed, FitsTheSlots
<1>2. \A n \in 1..Len(orders) : n \in 1..MaxOrders /\ Image(orders)[n] = orders[n]
  BY <1>1 DEF Image
<1>3. \A n \in 1..MaxOrders :
        Image(orders)[n] = Empty
          \/ (n \in 1..Len(orders) /\ Image(orders)[n] = orders[n])
  BY <1>1 DEF Image
<1>4. QED
  BY <1>2, <1>3 DEF Plan, Listed

LEMMA NoSlotListed == Listed(NoSlot) = {Empty}
BY MaxOrdersAssumption DEF Listed, NoSlot

LEMMA CrcPlannerStep ==
    ASSUME BaseInv, ThreadInv, HandInv, EffectInv, CrcInv, PlannerStep
    PROVE  CrcInv'
<1>1. UNCHANGED <<connected, stage, command, gone>> /\ Live' = Live
      /\ OrderOf(command.block)' = OrderOf(command.block)
  BY DEF PlannerStep, gateway, Live, InHand, OrderOf
<1>2. CASE \E k \in Kinds : Applies(k)
  <2>1. PICK k \in Kinds : Applies(k)
    BY <1>2
  <2>2. ShowsAcknowledged(crc)'
    BY <1>1, <2>1 DEF CrcInv, ShowsAcknowledged, Listed, Applies
  <2>3. TakenUp' => action' = command'.kind /\ pc' \in EarlyPcs
    BY <1>1, <2>1, AppliedCommand DEF Applies, EarlyPcs
  <2>4. QED
    BY <2>2, <2>3 DEF CrcInv
<1>3. CASE Executes \/ \E k \in Kinds : Refuses(k)
  <2>1. crc' = crc /\ held' \subseteq held /\ pc \notin EarlyPcs
        /\ (fate' # "pending" => fate # "pending")
        /\ (fate' = "served" => fate = "served")
    BY <1>3 DEF Executes, Refuses, EarlyPcs
  <2>2. TakenUp' => TakenUp
    BY <1>1, <2>1 DEF TakenUp
  <2>3. QED
    BY <1>1, <2>1, <2>2 DEF CrcInv, ShowsAcknowledged, ShowsCommand, Listed
<1>4. CASE Proceeds
  <2>1. UNCHANGED <<held, fate, orders>> /\ Plan' = Plan /\ TakenUp' = TakenUp
    BY <1>1, <1>4 DEF Proceeds, Plan, TakenUp
  <2>2. CASE crc' = Image(orders)
    <3>1. /\ Plan \subseteq Listed(crc') /\ Listed(crc') \subseteq Plan \union {Empty}
      BY <2>2, ImageListed DEF BaseInv
    <3>2. ShowsAcknowledged(crc)'
      BY <1>1, <2>1, <3>1 DEF EffectInv, AcknowledgedStateHolds, ShowsAcknowledged,
                              Listed
    <3>3. TakenUp => ShowsCommand(crc)'
      BY <1>1, <2>1, <3>1 DEF EffectInv, ShowsCommand, Listed
    <3>4. QED
      BY <2>1, <3>2, <3>3 DEF CrcInv
  <2>3. CASE crc' # Image(orders)
    <3>1. crc' = crc
      BY <1>4, <2>3 DEF Proceeds
    <3>2. command.kind # "none"
      BY CommandShape DEF BaseInv, Kinds
    <3>3. action = command.kind /\ pc \in EarlyPcs =>
            action' = command'.kind /\ pc' \in EarlyPcs
      BY <1>1, <1>4, <2>3, <3>2 DEF Proceeds, EarlyPcs
    <3>4. QED
      BY <1>1, <2>1, <3>1, <3>3 DEF CrcInv, ShowsAcknowledged, ShowsCommand, Listed
  <2>4. QED
    BY <2>2, <2>3
<1>5. QED
  BY <1>2, <1>3, <1>4, PlannerStepKinds

LEMMA CrcStep ==
    ASSUME BaseInv, ThreadInv, HandInv, AnswerInv, EffectInv, CrcInv,
           [NextExchange]_allVars
    PROVE  CrcInv'
<1> USE DEF CrcInv, ShowsAcknowledged, ShowsCommand, Listed, TakenUp, Live,
            InHand, Stages, ReadStages
<1>1. CASE PlannerStep
  BY <1>1, CrcPlannerStep
<1>2. CASE PlannerRestart
  <2>1. crc' = NoSlot /\ held' = {} /\ ~connected'
    BY <1>2 DEF PlannerRestart, Restart
  <2>2. QED
    BY <2>1, NoSlotListed
<1>3. CASE ReadStatus
  <2>1. stage' = "idle" /\ crc' = crc /\ OrderOf(command.block)' = OrderOf(command.block)
    BY <1>3 DEF ReadStatus, Await, vars, published, OrderOf
  <2>2. CASE reply' = "ok"
    <3>1. TakenUp /\ action # command.kind
      BY <1>3, <2>2, OkIsFinal
    <3>2. fate # "executed" => fate = "served"
      BY <3>1 DEF BaseInv
    <3>3. command.kind \in Kinds
      BY CommandShape DEF BaseInv
    <3>4. held' \subseteq Listed(crc)
      BY <1>3, <3>1, <3>2 DEF ReadStatus
    <3>5. \A o \in Listed(crc) : o.id \in gone' => o = Empty
      BY <1>3, <2>2, <3>1, <3>3 DEF ReadStatus, Kinds
    <3>6. QED
      BY <2>1, <3>4, <3>5
  <2>3. CASE reply' # "ok"
    <3>1. UNCHANGED <<held, gone>>
      BY <1>3, <2>3 DEF ReadStatus, Answer
    <3>2. QED
      BY <2>1, <3>1
  <2>4. QED
    BY <2>2, <2>3
<1>4. CASE \E c \in Commands : Receive(c)
  BY <1>4 DEF Receive, vars, published
<1>5. CASE \/ WritePreparation \/ VerifyPreparation \/ SetTrigger
           \/ SeeAcknowledgement \/ AcknowledgementTimeout
  BY <1>5 DEF WritePreparation, VerifyPreparation, SetTrigger,
              SeeAcknowledgement, AcknowledgementTimeout, Await, vars,
              published, thread, OrderOf
<1>6. CASE \/ AccessFails
           \/ ReadPlan \/ ReadCrc \/ ReadCrcState \/ ReadSlot \/ AnswerPlan
           \/ ConnectionDrops \/ Reconnect \/ GatewayRestart
  BY <1>6 DEF AccessFails, ReadPlan, ReadCrc, ReadCrcState, ReadSlot,
              AnswerPlan, ReadStep, ConnectionDrops, Reconnect,
              GatewayRestart, vars, published, thread, history, OrderOf
<1>7. CASE Clocks \/ UNCHANGED allVars
  BY <1>7 DEF Clocks, PublishClock, Tick, allVars, vars, published, thread,
              gateway, history, OrderOf
<1>8. QED
  BY <1>1, <1>2, <1>3, <1>4, <1>5, <1>6, <1>7 DEF NextExchange, GatewayStep

----------------------------------------------------------------------------
(* What read_plan has read.  The planner goes on meanwhile, but the image  *)
(* the CRC belongs to listed what was acknowledged when it was read, and   *)
(* nothing is acknowledged before the reading ends.                        *)

ReadInv ==
    /\ read \in [crc : [1..MaxOrders -> Block], crcState : {0, 1}, slots : Seq(Block)]
    /\ stage \in {"readCrcState", "readSlot", "plan"} => ShowsAcknowledged(read.crc)
    /\ stage \notin {"readSlot", "plan"} => read.slots = <<>>
    /\ stage = "readSlot" => Len(read.slots) < MaxOrders

LEMMA ReadInvStep ==
    ASSUME BaseInv, ThreadInv, CrcInv, ReadInv, [NextExchange]_allVars
    PROVE  ReadInv'
<1> USE DEF ReadInv, ShowsAcknowledged, Listed, Stages, ReadStages
<1>t. NothingRead \in [crc : [1..MaxOrders -> Block], crcState : {0, 1}, slots : Seq(Block)]
      /\ NothingRead.slots = <<>>
  BY ConstantTypes DEF NothingRead
<1>1. CASE PlannerStep
  <2>1. held' \subseteq held
    BY <1>1 DEF PlannerStep
  <2>2. UNCHANGED <<stage, read, gone>>
    BY <1>1 DEF PlannerStep, gateway
  <2>3. QED
    BY <2>1, <2>2
<1>2. CASE PlannerRestart
  BY <1>2 DEF PlannerRestart
<1>3. CASE ReadCrc
  <2>1. stage = "readCrc" /\ stage' = "readCrcState" /\ UNCHANGED <<held, gone>>
    BY <1>3 DEF ReadCrc, ReadStep, history
  <2>2. crc \in [1..MaxOrders -> Block]
    BY DEF BaseInv, TypeOK
  <2>3. read' = [crc |-> crc, crcState |-> read.crcState, slots |-> read.slots]
    BY <1>3 DEF ReadCrc
  <2>4. QED
    BY <2>1, <2>2, <2>3 DEF CrcInv
<1>4. CASE ReadCrcState
  <2>1. /\ stage = "readCrcState" /\ stage' = "readSlot" /\ UNCHANGED <<held, gone>>
        /\ crcState \in {0, 1}
    BY <1>4 DEF ReadCrcState, ReadStep, history, BaseInv, TypeOK
  <2>2. read' = [crc |-> read.crc, crcState |-> crcState, slots |-> read.slots]
    BY <1>4 DEF ReadCrcState
  <2>3. QED
    BY <2>1, <2>2, MaxOrdersAssumption
<1>5. CASE ReadSlot
  <2> DEFINE n == Len(read.slots) + 1
  <2>1. /\ stage = "readSlot" /\ UNCHANGED <<held, gone>>
        /\ stage' = IF n = MaxOrders THEN "plan" ELSE "readSlot"
        /\ read' = [read EXCEPT !.slots = Append(@, slots[n])]
    BY <1>5 DEF ReadSlot, ReadStep, history
  <2>2. read.slots \in Seq(Block) /\ Len(read.slots) \in Nat /\ n \in 1..MaxOrders
    BY <2>1, MaxOrdersAssumption
  <2>3. slots[n] \in Block
    BY <2>2 DEF BaseInv, TypeOK
  <2>4. Append(read.slots, slots[n]) \in Seq(Block)
        /\ Len(Append(read.slots, slots[n])) = n
    BY <2>2, <2>3
  <2>5. read' = [crc |-> read.crc, crcState |-> read.crcState,
                 slots |-> Append(read.slots, slots[n])]
    BY <2>1
  <2>6. stage' = "readSlot" => n < MaxOrders
    BY <2>1, <2>2, MaxOrdersAssumption
  <2>7. read' \in [crc : [1..MaxOrders -> Block], crcState : {0, 1}, slots : Seq(Block)]
    BY <2>4, <2>5
  <2>8. stage' \in {"readSlot", "plan"} /\ read'.crc = read.crc
        /\ Len(read'.slots) = n
    BY <2>1, <2>4, <2>5
  <2>9. QED
    BY <2>1, <2>6, <2>7, <2>8
<1>6. CASE ReadPlan \/ AnswerPlan
  BY <1>6, <1>t DEF ReadPlan, AnswerPlan, ReadStep, history
<1>7. CASE \/ \E c \in Commands : Receive(c)
           \/ WritePreparation \/ VerifyPreparation \/ SetTrigger
           \/ SeeAcknowledgement \/ AcknowledgementTimeout \/ ReadStatus
           \/ AccessFails \/ GatewayRestart
  BY <1>7, <1>t DEF Receive, WritePreparation, VerifyPreparation, SetTrigger,
              SeeAcknowledgement, AcknowledgementTimeout, ReadStatus, Await,
              AccessFails, GatewayRestart
<1>8. CASE ConnectionDrops \/ Reconnect \/ Clocks \/ UNCHANGED allVars
  BY <1>8 DEF ConnectionDrops, Reconnect, Clocks, allVars, gateway, history
<1>9. QED
  BY <1>1, <1>2, <1>3, <1>4, <1>5, <1>6, <1>7, <1>8 DEF NextExchange, GatewayStep

----------------------------------------------------------------------------
(* The inductive invariant of the gateway and the planner together.        *)

IInvExchange ==
    /\ BaseInv /\ ThreadInv /\ HandInv /\ AnswerInv
    /\ OwedInv /\ EffectInv /\ CrcInv /\ ReadInv

LEMMA ExchangeInit == InitExchange => IInvExchange
<1> SUFFICES ASSUME InitExchange PROVE IInvExchange
  OBVIOUS
<1> USE DEF InitExchange, Init
<1>1. /\ ~InHand /\ ~Live /\ ~TakenUp /\ Plan = {}
      /\ \A k \in Kinds : trigger[k] = 0
  BY DEF InHand, Live, TakenUp, Stages, Plan, NoTrigger
<1>2. BaseInv
  BY BaseInit
<1>3. ThreadInv /\ HandInv
  BY <1>1 DEF ThreadInv, HandInv, TriggersSet, Polled, FinishPcs, RejectPcs
<1>4. AnswerInv /\ OwedInv /\ EffectInv
  BY <1>1 DEF AnswerInv, Waiting, OwedInv, EffectInv, AcknowledgedStateHolds, Kinds
<1>5. CrcInv
  BY <1>1, NoSlotListed DEF CrcInv, ShowsAcknowledged
<1>6. ReadInv
  BY ConstantTypes DEF ReadInv, NothingRead
<1>7. QED
  BY <1>2, <1>3, <1>4, <1>5, <1>6 DEF IInvExchange

LEMMA ExchangeStep ==
    ASSUME PromptPlanner, IInvExchange, [NextExchange]_allVars
    PROVE  IInvExchange'
BY BaseStep, ThreadStep, HandStep, AnswerStep, OwedStep, EffectStep, CrcStep,
   ReadInvStep DEF IInvExchange

LEMMA ExchangeInvariant ==
    ASSUME PromptPlanner
    PROVE  SpecExchange => []IInvExchange
<1>1. IInvExchange /\ [NextExchange]_allVars => IInvExchange'
  BY ExchangeStep
<1>2. QED
  BY <1>1, ExchangeInit, PTL DEF SpecExchange

----------------------------------------------------------------------------
(* The variables of the gateway and of the planner keep their types, and   *)
(* only orders a planner could hold are owed.                              *)
THEOREM ExchangeTypeCorrect ==
    ASSUME PromptPlanner
    PROVE  SpecExchange => []TypeOKExchange
<1>1. IInvExchange => TypeOKExchange
  <2>1. BaseInv /\ held \subseteq Plan => held \subseteq Order
    BY DEF BaseInv, TypeOK, Plan
  <2>2. QED
    BY <2>1 DEF IInvExchange, BaseInv, EffectInv, AcknowledgedStateHolds, ReadInv,
                TypeOKExchange
<1>2. QED
  BY <1>1, ExchangeInvariant, PTL

(* The gateway never answers "ok" to a command the planner did not take    *)
(* up: _commit_action reads a status word that belongs to this command.    *)
THEOREM AcknowledgedWasServed ==
    ASSUME PromptPlanner
    PROVE  SpecExchange => []AckedMeansServed
<1>1. IInvExchange => AckedMeansServed
  BY DEF IInvExchange, AnswerInv, AckedMeansServed
<1>2. QED
  BY <1>1, ExchangeInvariant, PTL

(* What was acknowledged stays in the plan, or out of it, whatever the     *)
(* commands given up left in the registers.                                *)
THEOREM AcknowledgedHolds ==
    ASSUME PromptPlanner
    PROVE  SpecExchange => []AcknowledgedStateHolds
<1>1. IInvExchange => AcknowledgedStateHolds
  BY DEF IInvExchange, EffectInv
<1>2. QED
  BY <1>1, ExchangeInvariant, PTL

(* A plan whose CRC matches lists what was acknowledged before read_plan   *)
(* started, although its words were read one request at a time.            *)
THEOREM MatchingPlansAreCurrent ==
    ASSUME PromptPlanner
    PROVE  SpecExchange => []MatchingPlanIsCurrent
<1>1. IInvExchange => MatchingPlanIsCurrent
  <2> SUFFICES ASSUME IInvExchange, stage = "plan", CrcMatches
               PROVE  /\ \A o \in held : \E n \in 1..Len(read.slots) : read.slots[n] = o
                      /\ \A n \in 1..Len(read.slots) :
                           read.slots[n].id \in gone => read.slots[n] = Empty
    BY DEF MatchingPlanIsCurrent
  <2>1. ShowsAcknowledged(read.slots) /\ read.slots \in [1..MaxOrders -> Block]
    BY DEF IInvExchange, ReadInv, CrcMatches
  <2>2. 1..Len(read.slots) = 1..MaxOrders
    BY <2>1, MaxOrdersAssumption DEF IInvExchange, ReadInv
  <2>3. QED
    BY <2>1, <2>2 DEF ShowsAcknowledged, Listed
<1>2. QED
  BY <1>1, ExchangeInvariant, PTL

(* The planner only takes up an order or a deletion some operator sent,    *)
(* prompt or not: a trigger left behind never applies the block of another *)
(* command under its own meaning, since only an order has a date.          *)
THEOREM OperationsAreNotCrossed == SpecExchange => NoCrossedOperation
<1> DEFINE TakesUp == pc = "dispatch" /\ pc' = "begin" /\ action' # "reset"
<1>1. ASSUME BaseInv, [NextExchange]_allVars, TakesUp
      PROVE  [kind |-> action', block |-> prep] \in Commands
  <2>1. PlcStep
    BY <1>1 DEF NextExchange, GatewayStep, Receive, WritePreparation,
           VerifyPreparation, SetTrigger, SeeAcknowledgement,
           AcknowledgementTimeout, ReadStatus, AccessFails, ReadPlan, ReadCrc,
           ReadCrcState, ReadSlot, AnswerPlan, ReadStep, ConnectionDrops,
           Reconnect, GatewayRestart, PlannerRestart, Restart, PlannerStep,
           Clocks, PublishClock, Tick, allVars, vars, thread
  <2>2. \/ HandleUpsert /\ UpsertStatus(prep) = 0
        \/ HandleDelete /\ DeleteStatus(prep) = 0
    BY <1>1, <2>1 DEF PlcStep, Poll, RejectMultiple, ClearTrigger, NothingSeen,
           HandleUpsert, HandleDelete, HandleReset, Handle, Refuse, BeginSync,
           SyncStep, WriteSlot, WritePlannerState, WriteCrc, EndSync,
           FinishStatus, FinishTrigger, StartExecution, ExecuteHead, EndExecution
  <2>3. /\ action' \in {"add", "delete"} /\ prep # Empty
        /\ action' = "add" <=> prep.time # NoDate
    BY <2>2 DEF HandleUpsert, HandleDelete, Handle, UpsertStatus, DeleteStatus,
           DateStatus, Empty
  <2>4. PICK c \in Commands : c.kind # "reset" /\ prep = c.block
    BY <1>1, <2>3 DEF BaseInv, PrepFromCommand
  <2>5. c.kind = action'
    BY <2>3, <2>4, CommandShape DEF Kinds
  <2>6. QED
    BY <2>4, <2>5, CommandShape
<1>2. BaseInv /\ [NextExchange]_allVars
        => [TakesUp => [kind |-> action', block |-> prep] \in Commands]_allVars
  BY <1>1
<1>3. QED
  BY <1>2, BaseInit, BaseStep, PTL DEF NoCrossedOperation, SpecExchange
=============================================================================
