------------------------------- MODULE Exchange -------------------------------
(***************************************************************************)
(* The gateway as the client of the planner: the commands of               *)
(* gateway_modbus_sbc.py (upsert, delete, reset, read_plan) over the       *)
(* registers of Planner.  One await of the gateway is one step.  NATS      *)
(* delivers one command at a time; a command may be given up               *)
(* (acknowledgement timeout, Modbus error, restart of the gateway) while   *)
(* its trigger is still set, and nothing in the registers says which       *)
(* command a trigger or a status belongs to.                               *)
(***************************************************************************)
EXTENDS Planner

CONSTANTS
    Commands,           \* the commands operators send: [kind, block]
    PromptPlanner       \* TRUE: the planner may stall between two rounds
                        \* of its loop, not in the middle of one: a round
                        \* (accesses to its own memory) that serves a
                        \* command given up ends before the next command,
                        \* two Modbus round trips later, sets its trigger

(* An order has a date: _parse_execute_at raises when there is none.       *)
Adds    == {[kind |-> "add", block |-> b] : b \in {r \in Requests : r.time # NoDate}}
Deletes == {[kind |-> "delete", block |-> [Empty EXCEPT !.id = i]] :
              i \in {b.id : b \in Requests}}
Resets  == {[kind |-> "reset", block |-> Empty]}

ASSUME CommandsAssumption ==
    /\ Commands \subseteq Adds \cup Deletes \cup Resets
    /\ \A c \in Commands : c.kind # "reset" => c.block \in Requests
    /\ PromptPlanner \in BOOLEAN

VARIABLES
    connected,      \* the Modbus connection
    stage,          \* where the handler of the command is
    command,        \* the command being handled, or the last one
    reply,          \* what was replied to it
    read,           \* what read_plan has got: CRC, CRC_STATE and slots
    fate,           \* history: what the planner did with it
    held,           \* history: orders acknowledged, not executed since and
                    \* not withdrawn by a later command
    gone            \* history: identifiers whose absence was acknowledged
                    \* and that no later command brings back

gateway  == <<connected, stage, command, reply, read>>
history  == <<fate, held, gone>>
allVars  == <<vars, gateway, history>>

Stages == {"idle", "prep", "verify", "trigger", "poll", "status"}
ReadStages == {"readCrc", "readCrcState", "readSlot", "plan"}

NothingRead == [crc |-> NoSlot, crcState |-> 0, slots |-> <<>>]

TypeOKExchange ==
    /\ TypeOK
    /\ connected \in BOOLEAN
    /\ stage \in Stages \cup ReadStages
    /\ read \in [crc : [1..MaxOrders -> Block], crcState : {0, 1}, slots : Seq(Block)]
    /\ command \in Commands
    /\ reply \in {"none", "ok", "error"}
    /\ fate \in {"pending", "served", "executed"}
    /\ held \in SUBSET Order
    /\ gone \in SUBSET Nat

InitExchange ==
    /\ Init
    /\ connected = TRUE
    /\ stage = "idle"
    /\ command \in Commands
    /\ reply = "none"
    /\ read = NothingRead
    /\ fate = "pending"
    /\ held = {}
    /\ gone = {}

----------------------------------------------------------------------------
(* handle_command, up to the first register access.                        *)

(* Orders a command withdraws: an order acknowledged before is no longer   *)
(* owed once the operator replaces, deletes or resets it.                  *)
Withdrawn(c) == {o \in held : c.kind = "reset" \/ o.id = c.block.id}

Revived(c) == {i \in gone : c.kind = "add" /\ i = c.block.id}

Receive(c) ==
    /\ stage = "idle"
    /\ connected
    /\ command' = c
    /\ stage' = IF c.kind = "reset" THEN "trigger" ELSE "prep"
    /\ reply' = "none"
    /\ fate' = "pending"
    /\ held' = held \ Withdrawn(c)
    /\ gone' = gone \ Revived(c)
    /\ UNCHANGED <<vars, connected, read>>

(* One await of the handler.  A lost connection raises, and the handler    *)
(* answers with an error whatever it had done before.                      *)
Await(here, next) ==
    /\ stage = here
    /\ connected
    /\ stage' = next
    /\ UNCHANGED <<connected, command, read, fate>>

Answer(r) == reply' = r

(* _write_and_verify_preparation                                           *)
WritePreparation ==
    /\ Await("prep", "verify")
    /\ prep' = command.block
    /\ UNCHANGED <<trigger, status, published, memory, thread, clocks,
                   reply, held, gone>>

VerifyPreparation ==
    /\ \/ /\ prep = command.block
          /\ Await("verify", "trigger")
          /\ UNCHANGED reply
       \/ /\ prep # command.block
          /\ Await("verify", "idle")
          /\ Answer("error")
    /\ UNCHANGED <<vars, held, gone>>

(* The planner is in the middle of a round for another command: it runs a  *)
(* handler, or it may have polled past a trigger that is set.              *)
BusyElsewhere ==
    \/ action # "none" /\ fate = "pending"
    \/ /\ pc \in {"pollDelete", "pollReset", "dispatch"}
       /\ \E k \in Kinds : trigger[k] = 1

(* _commit_action                                                          *)
SetTrigger ==
    /\ Await("trigger", "poll")
    /\ PromptPlanner => ~BusyElsewhere
    /\ trigger' = [trigger EXCEPT ![command.kind] = 1]
    /\ UNCHANGED <<prep, status, published, memory, thread, clocks,
                   reply, held, gone>>

(* Mutant: the trigger is not waited for.                                  *)
SeeAnyway ==
    /\ Await("poll", "status")
    /\ UNCHANGED <<vars, reply, held, gone>>

SeeAcknowledgement ==
    /\ Await("poll", "status")
    /\ trigger[command.kind] = 0
    /\ UNCHANGED <<vars, reply, held, gone>>

(* Status 98: the trigger is still set after ACK_TIMEOUT_SEC, and stays.   *)
AcknowledgementTimeout ==
    /\ Await("poll", "idle")
    /\ trigger[command.kind] = 1
    /\ Answer("error")
    /\ UNCHANGED <<vars, held, gone>>

(* `held` and `gone` take note of what an "ok" promises.                   *)
ReadStatus ==
    /\ Await("status", "idle")
    /\ Answer(IF status[command.kind] = 0 THEN "ok" ELSE "error")
    /\ held' = IF reply' = "ok" /\ command.kind = "add" /\ fate # "executed"
               THEN held \cup {OrderOf(command.block)} ELSE held
    /\ gone' = IF reply' = "error" \/ command.kind = "add" THEN gone
               ELSE IF command.kind = "delete" THEN gone \cup {command.block.id}
               ELSE {c.block.id : c \in Commands}
    /\ UNCHANGED vars

(* An access raises (status 99, or the error of _write_and_verify).        *)
AccessFails ==
    /\ stage # "idle"
    /\ ~connected
    /\ stage' = "idle"
    /\ read' = NothingRead
    /\ Answer("error")
    /\ UNCHANGED <<vars, connected, command, history>>

----------------------------------------------------------------------------
(* _handle_read_plan: the words on the publication, then the slots, one    *)
(* request each; the planner goes on in between.  %MW8100 is left out.     *)

ReadStep(here, next) ==
    /\ stage = here
    /\ connected
    /\ stage' = next
    /\ reply' = "none"
    /\ UNCHANGED <<vars, connected, command, history>>

ReadPlan == ReadStep("idle", "readCrc") /\ UNCHANGED read

ReadCrc ==
    /\ ReadStep("readCrc", "readCrcState")
    /\ read' = [read EXCEPT !.crc = crc]

ReadCrcState ==
    /\ ReadStep("readCrcState", "readSlot")
    /\ read' = [read EXCEPT !.crcState = crcState]

ReadSlot ==
    LET n == Len(read.slots) + 1
    IN  /\ ReadStep("readSlot", IF n = MaxOrders THEN "plan" ELSE "readSlot")
        /\ read' = [read EXCEPT !.slots = Append(@, slots[n])]

AnswerPlan ==
    /\ ReadStep("plan", "idle")
    /\ read' = NothingRead

(* Mutant: the plan is judged by planner_crc_state.                        *)
CrcComplete == read.crcState = 0

(* planner_crc16_matches: the CRC of the words that were read.             *)
CrcMatches == read.crc = read.slots

----------------------------------------------------------------------------
(* What surrounds the gateway.                                             *)

ConnectionDrops ==
    /\ connected
    /\ connected' = FALSE
    /\ UNCHANGED <<vars, stage, command, reply, read, history>>

(* The handler polls every 0.1 s: it meets the failure before the client   *)
(* library has connected again.                                            *)
Reconnect ==
    /\ ~connected
    /\ stage = "idle"
    /\ connected' = TRUE
    /\ UNCHANGED <<vars, stage, command, reply, read, history>>

(* The process restarts: the command is lost, the registers keep what it   *)
(* wrote.                                                                  *)
GatewayRestart ==
    /\ stage' = "idle"
    /\ reply' = "none"
    /\ read' = NothingRead
    /\ connected' = FALSE
    /\ UNCHANGED <<vars, command, history>>

(* The planner restarts: its queue and the connection are gone.            *)
PlannerRestart ==
    /\ Restart
    /\ connected' = FALSE
    /\ held' = {}
    /\ UNCHANGED <<stage, command, reply, read, fate, gone>>

(* The handler of the planner takes up the command of the gateway.         *)
Serves ==
    /\ pc = "dispatch"
    /\ pc' = "begin"
    /\ stage \in Stages \ {"idle"}
    /\ action' = command.kind
    /\ command.kind # "reset" => prep = command.block

ExecutesOrderOf(c) ==
    pc = "pop" /\ Due /\ c.kind = "add" /\ Head(orders) = OrderOf(c.block)

PlannerStep ==
    /\ PlcStep
    /\ fate' = IF Serves THEN "served"
               ELSE IF fate = "served" /\ ExecutesOrderOf(command) THEN "executed"
               ELSE fate
    /\ held' = IF pc = "pop" /\ Due THEN held \ {Head(orders)} ELSE held
    /\ UNCHANGED <<gateway, gone>>

Clocks ==
    /\ PublishClock \/ Tick
    /\ UNCHANGED <<gateway, history>>

GatewayStep ==
    \/ WritePreparation \/ VerifyPreparation \/ SetTrigger
    \/ SeeAcknowledgement \/ AcknowledgementTimeout \/ ReadStatus
    \/ AccessFails
    \/ ReadPlan \/ ReadCrc \/ ReadCrcState \/ ReadSlot \/ AnswerPlan

NextExchange ==
    \/ \E c \in Commands : Receive(c)
    \/ GatewayStep
    \/ ConnectionDrops \/ Reconnect \/ GatewayRestart \/ PlannerRestart
    \/ PlannerStep \/ Clocks

SpecExchange == InitExchange /\ [][NextExchange]_allVars

----------------------------------------------------------------------------
(* "ok" is only answered to a command the planner took up: the status word *)
(* the gateway reads is the verdict on this command and not on one before  *)
(* it.                                                                     *)
AckedMeansServed == reply = "ok" => fate # "pending"

(* What an "ok" promised stays true: an acknowledged order is in the plan  *)
(* until it is executed or a later command touches it, and a deleted       *)
(* identifier stays out of it, whatever commands given up left behind in   *)
(* the triggers and in the preparation block.                              *)
AcknowledgedStateHolds ==
    /\ held \subseteq Plan
    /\ \A o \in Plan : o.id \notin gone

(* Read your writes: a plan that comes with the CRC that belongs to it     *)
(* lists every order acknowledged and not executed since, and no           *)
(* identifier whose absence was acknowledged, although the planner may     *)
(* publish another queue while it is read.                                 *)
MatchingPlanIsCurrent ==
    stage = "plan" /\ CrcMatches =>
        /\ \A o \in held : \E n \in 1..Len(read.slots) : read.slots[n] = o
        /\ \A n \in 1..Len(read.slots) : read.slots[n].id \in gone => read.slots[n] = Empty

(* A trigger left behind never applies the block of one command as the     *)
(* operation of another.                                                   *)
NoCrossedOperation ==
    [][pc = "dispatch" /\ pc' = "begin" /\ action' # "reset"
         => [kind |-> action', block |-> prep] \in Commands]_allVars

=============================================================================
