# Cascadya edge control: TLA+ specifications and proofs

This directory holds the formal model of the part of the repository that drives
a steam plant (the **gateway** on the edge computer, the **planner** of the PLC
as its simulator implements it, and the Modbus registers between them) and of the
part that puts edge computers into service: the **provisioning** jobs of the
control panel and the **remote unlock** of their data volumes.

Paths below are relative to `src/python script/control_plane/auth_prototype/`,
the current generation of the system, unless they start with `src/`.

## 1. The system

```
 control panel (FastAPI, fleet.py) --HTTP--> broker probe --NATS request--> gateway
                                                                             |  Modbus
 operation_mode.json <--writes-- gateway                                     v
        |                                                    registers of the PLC
        +--reads--> telemetry_publisher --Modbus--> PLC            |
                                                              planner -> cascade -> boilers
```

| Component | Source | State it keeps | Operations |
|---|---|---|---|
| Gateway, orders | `.../edge-agent/files/src/agent/gateway_modbus_sbc.py` | the Modbus client; nothing about past commands | `upsert`, `delete`, `reset`: validate, write and verify the preparation block, set a trigger, poll it back to 0, read a status |
| Gateway, mode | same file | `operation_mode`, client, last watchdog and the time it changed, `operation_mode.json` | switch, monitor of `%MW256`, guard before each order |
| Gateway, reads | same file | none | `read_plan`, `register_check`, `monitor_snapshot` |
| Telemetry publisher | `.../agent/telemetry_publisher.py` | mode and target it reads | re-reads the mode file each loop, publishes measurements |
| Planner | `modbus_simulator/src/scheduler.py` | `orders` in memory, the registers | serve triggers, publish the queue, execute what is due |
| Cascade, boilers, physics | `cascade_logic.py`, `boiler_model.py`, `physics.py` | strategy, stages, timers, burner states | follow the consigne of the planner |
| Simulator | `main_sim.py`, `rev02_process.py` | register block, watchdog counter | control thread, telemetry thread, Modbus server thread |
| Fleet and provisioning | `app/fleet.py` | jobs, steps, assets in a database | prepare, run a step, cancel, delete a job; register, delete an IPC |
| Remote unlock | `provisioning_ansible/demo/remote_unlock_demo_broker.py`, `roles/remote-unlock/templates/cascadya-unlock-data.sh.j2` | challenges in memory; the volume, closed, open or mounted | challenge, unlock; the script at boot and as a dry run |
| Control panel API, accounts, alerts, frontend | `app/`, `frontend/` | database, sessions | routing, display |
| Images, playbooks, Terraform, IEC 104 and MQTT prototypes, desktop tools | elsewhere under `src/` | configuration | run by external tools |

The components of the plant meet at three places: the **registers** (gateway and planner, with
the telemetry thread publishing a clock beside them), the **mode file** (gateway
and telemetry publisher), and **NATS** (request and reply, one command at a
time per gateway). Besides, the requests of the control panel meet in its
**database**, and the unlock scripts in the **memory of the broker**. The
control panel reaches the gateway only through NATS and the IPCs only through
playbooks, so provisioning and remote unlock are modelled apart from the rest.

### What is hard about it

* Gateway and planner share registers without a transaction: three triggers,
  three status words and one preparation block serve every command, and nothing
  in them says which command they belong to. A command given up (timeout 98,
  error 99, restart) leaves its trigger and block behind.
* The Modbus server answers clients between any two register accesses of the
  control thread: triggers change while they are polled or cleared, and the
  published queue is written slot by slot.
* The planner keeps its queue in memory only and restarts empty.
* The watchdog verdict depends on a read that may outlive a switch of PLC, on
  two tasks that note the same change, and on when the connection was made.
* The mode file is truncated, then written, while another process reads it; a
  write that fails is only logged, and the switch succeeds all the same.
* A read of the plan is one request per register or slot, while the planner may
  publish another queue.
* A provisioning step runs in a request thread for as long as a playbook lasts,
  with a database session that keeps the workflow as it read it; cancel, delete
  and prepare are served meanwhile by the event loop, with sessions of their own.
  Nothing locks or versions a row. The service may stop in between. Workflows are
  written back whole, by the deletion of an IPC too.
* The broker keeps challenges in a dictionary shared by its threads, without a
  lock; the script repeats a request whose first copy may still be served, and a
  challenge is used up before its answer arrives. Its TLS handshakes take place in
  the one accept loop, without a timeout.
* The rules of an order exist twice, on both sides of a rounding to three
  decimals and a cut to 16 bits.

### What makes each component correct

| Component | Properties |
|---|---|
| Validation | what the gateway accepts the planner accepts; on what the registers can hold, the gateway announces the status the planner gives |
| Planner | well-formed queue, consistent publication, answer after publication, nothing due left behind, implements a simple plan service; triggers answered, publications end, due orders leave |
| Exchange | an `ok` is about this command, and what it promised stays true; leftovers never apply a block as another operation; a plan read with a matching CRC shows what was acknowledged |
| Mode | one mode for gateway and connection, and for the file unless writing it failed; plant only after a confirmation, frozen plant refused, live plant served, telemetry follows a mode that was saved |
| Cascade | a whole purge and ignition before any load, limits respected, exact sharing, stages that settle, a lasting demand served |
| Runtime block | an order never shown with an older strategy or pressure; the block settles |
| Provisioning | steps succeed in order, a running step of a job of the IPC is followed, success and `active` are earned by playbooks that ran, a job that is over stays over |
| Remote unlock | one secret per challenge, failures before the release cost no challenge, the volume ends up mounted unless the accept loop is never released |

`PROJECT.json` lists the hazards at their lines, with the property that covers
each or the reason none does yet.

## 2. Modules

| Module | Models | Kind |
|---|---|---|
| `ExchangeTable` | rule table, both copies, encoding, reading of an order as a consigne | operators |
| `OrderValidation` | one payload through both validators, with the bypass | state machine |
| `PlanService` | what a planner promises: a set of dated orders, earliest first | abstract specification |
| `Planner` | `PlanificateurSBC` on its registers, one register access per step, any client | state machine |
| `Exchange` | the gateway as the client of `Planner`, with the read of the plan | composition |
| `OperationMode` | switch, monitor, guard, mode file, telemetry loop | state machine |
| `Cascade` | `CascadeController` and the three `Boiler`s under changing orders and pressure | state machine |
| `RuntimeBlock` | the telemetry thread copying a consigne while it is assigned | state machine |
| `Provisioning` | the jobs of one IPC under concurrent database sessions | state machine |
| `RemoteUnlock` | unlock scripts and the challenges of the broker | composition |
| `MCOrderValidation`, `MCPlanner`, `MCExchange`, `MCProvisioning` | the finite sets, views and symmetry the runs use | instances |
| `ExchangeLemmas` | facts about rounding, the rule lists and their equivalence, sequences | proofs |
| `OrderValidationProofs`, `PlannerProofs`, `OperationModeProofs`, `CascadeProofs`, `RuntimeBlockProofs`, `ProvisioningProofs`, `RemoteUnlockProofs` | theorems (those about `Exchange` are in `PlannerProofs`) | proofs |

### ExchangeTable and OrderValidation

A REAL is an integer count of ten-thousandths, one digit finer than the three
decimals `_decode_order` keeps, so that a value may lie strictly between two
values the planner tells apart. A rule table is a sequence of `<<holds, code>>`
in the order of the code, and a verdict is the code of the first broken one.
Rounding is Python's (to even on ties), words are cut to 16 bits; not-a-number
is not a value. The reserved fields 4, 5 and 6 of C1 and of C2 are told apart,
because the planner has a code for each (140, 150, 160 and 240, 250, 260) and the
gateway one for the three (140, 240): `SameVerdict` compares the code of the
gateway with what it announces of the status of the planner (`Announced`), so that
it holds the two copies to the same error in the same order and says where they
name it differently. `PRD_MODBUS_REV02_REGISTER_CONTRACT.md:207-215` lists the
codes as the planner gives them. The reserved fields of C3 stand as one: both
programs number them with the same loop.
`GatewayValidate` is `_handle_upsert` up to the write, `PlcValidate` is the
decoding and `_validate_order_attributes`.

### Planner

`pc` is where the control thread stands. Between two register accesses a
handler touches only memory of its own thread, so that part joins the next
access: `HandleUpsert` reads the block (one `getValues`, so one step),
validates, and changes `orders`; then come `BeginSync`, one `WriteSlot` per
slot, `WritePlannerState`, `WriteCrc`, `EndSync`, `FinishStatus` and
`FinishTrigger`, in the order of `_sync_queue_to_modbus` and `_finish_action`.
`StartExecution`, `ExecuteHead` and `EndExecution` are `_execute_due_orders`,
whose clock is read once. The CRC register holds the slots it was computed
over: the CRC is taken as injective. A date is an instant, `NoDate` is any set
of words that is no date, a year has `Year` instants (a date of another year than
the present one and the next is refused), and codes of one cause that differ only in which
field is wrong share a number. `Restart` gives back what `__init__` leaves.
The three status writes of `RejectMultiple` are one step: a client reads a
status only once its trigger is 0, and the triggers are cleared afterwards.
Clients (`ClientWritesPrep`, `ClientSetsTrigger`) are arbitrary here.

Not modelled: status 900 (an exception in a handler) and register errors that
`_read_registers` and `_write_registers` swallow; neither occurs with the
register block of the simulator. The host clock never goes back.

### Exchange

One `await` of the gateway is one step: `WritePreparation`,
`VerifyPreparation`, `SetTrigger`, `SeeAcknowledgement` or
`AcknowledgementTimeout`, `ReadStatus`, `AccessFails`. NATS runs the callback
of a subscription for one message at a time, so that one command is handled at
a time. An order carries a date, since `_parse_execute_at` raises without one,
and a deletion clears the words of the date. The blocks commands write are among
the `Requests` of the planner (`CommandsAssumption`). The connection may drop at any moment and the gateway or the planner
may restart at any moment. `fate`, `held` and `gone` are history: what the
planner did with the present command, which acknowledged orders are still owed,
which identifiers were acknowledged absent.

`ReadPlan`, `ReadCrc`, `ReadCrcState`, one `ReadSlot` per slot and `AnswerPlan`
are `_handle_read_plan`. The answer carries two judgements, `planner_crc_state`
and `planner_crc16_matches`; only the second one is about the slots that were
read, and `MatchingPlanIsCurrent` says what it warrants. The first one does not
warrant it (it is the mutant of that property). A command and a read do not
overlap, since NATS delivers one message at a time.

`PromptPlanner` is an assumption about speed: the planner may be late between
two rounds of its loop (it sleeps 0.5 s there), but a round that serves a
command given up ends before the next command, two Modbus round trips later,
sets its trigger. Nothing in the code guarantees it; the run `exchange_slow`
drops it and finds what it hides.

### OperationMode

`MonitorReads`, then `MonitorReturns` or `MonitorFails`, is one round of
`monitor_plc_watchdog`: the value is taken when the PLC answers and used later,
possibly after a switch. `ReceiveOrder` sends the read of
`_refresh_plc_watchdog_once` and `GuardDecides` is the rest of
`_assert_commands_allowed`. `RequestMode` is `_handle_set_operation_mode`;
`ConnectSucceeds` the assignments of `_connect_modbus_for_mode` (nothing awaits
between them: `close` of the Modbus client is synchronous); `OpenState` and
`SaveState` are `save_operation_mode_state`, which empties the file and then
writes it, apart because another process reads it. `SaveFails` is its `except`:
the file stays as it was, or empty, the error is printed, and the switch has
succeeded. `unsaved` is history: the last switch ended so. A file that cannot be
read stands as `"torn"`.

Time: a unit is longer than a round of the monitor and the timeout of a read,
and shorter than the threshold (1 s and 30 s in the code). `Tick` therefore
waits for the round and for the reads under way. The value of a watchdog is the
instant it appeared at; those of two PLCs never coincide, which leaves out the
coincidence of two counters at one value, and the wrap of the counter in
exactly one round.

### Cascade

`Apply` is `set_active_consigne`; `Round` is `CascadeController.update` followed
by the `update` of each boiler, as the control thread calls them: `Stage` is
`evaluate_cascade_stages`, `Shares` the allocation, `Burn` and `LoadAfter` the
state machine of a burner and its ramp. Nothing else writes this state, so a
round is one step. `PressureMoves` stands for the physics: the power asked for
may change at any time to anything, which contains every pressure. Powers count
in blocks of 50 kW, the largest limit an order may carry, and so do loads and
targets: the code converts power to percents and back with the same divisor, and
both ramps (5 % of 400 kW, 2 % of 1000 kW per second) are 20 kW per second. The
limit is absent or one block; smaller limits bound the load in the same way. The
elapsed times that cascade and boilers measure separately are one. A negative or
absent limit is `None`; an unknown strategy cannot come out of
`_decode_order_controls`. `purged` and `lit` are history.

### RuntimeBlock

The steps are the assignments of `set_active_consigne` and the reads of
`get_status_modbus`, in the order of the code: the identifier is assigned last
and copied first. A field stands by the number of the order that set it.

### Provisioning

A session is a thread that serves `POST .../run`, or the event loop, which
serves all other requests one at a time (`async def` handlers around synchronous
database calls) while the threads go on. `Loaded` is what a session has read and
keeps (`expire_on_commit=False`); `Flushed` is its commit: it writes the
attributes whose value changed since it read them and leaves the others to what
is in the table; `StaleData` is the failure of a commit whose row is gone. These
three stand for SQLAlchemy and are external.

`RunLoad` chooses a step; `RunStart` is the commit that marks it as running;
`RunRefused` the checks that may still refuse it; `RunFinish` the end of the
playbook with the change in memory; `RunCommit` the last commit.
`CancelLoad/Refresh/Commit`, `DeleteLoad/Refresh/Commit`, `PrepareLoad/Commit`,
`RegisterLoad/Commit` and `DropLoad/Commit` are the other requests: where the
refresh of the asset reads its jobs at another moment than the commit, it is a
step. The statuses saved while a playbook runs change only the logs (the rest is
as in `RunStart`), so that `RunFlush` is only their failure on a deleted job.
`DropCommit` detaches the jobs and writes their workflows back as `DropLoad` read
them, since `delete_inventory_asset` rebuilds `context_json` from its own copy.
A workflow is its steps in order; the steps of the code (playbooks by phase) are
told apart by number. `done` and `stranded` are history.

### RemoteUnlock

A run of the script goes through challenge, quote, unlock, `Open` and `Mount`;
the boot run is started again by systemd when it fails. `Connect` takes the only
place in the accept loop (`accepting`) for the time of the TLS handshake, and
`Request` ends the handshake and gives the request a thread of the broker. A
client that goes in its handshake (`Leave`: a run that gives up, is aborted or
loses its power; `Stall`: any other client) may leave the loop waiting for it
(`accepting = Gone`) until TCP finds out (`Reset`), which no fairness makes happen;
meanwhile the others only time out (`TimeOut`). `GiveUp` is the end of the wait of
curl while its thread goes on, `Retried` the loop of `curl_json_with_retry` with
its deadline. A thread goes through `CheckChallenge`, `ReadVault` and `Release`, the
places where `handle_unlock` touches the shared dictionary. The clocks are
replaced by orders between them: the retry window (180 s) is a number of tries,
and a challenge (300 s) expires only when the run that holds it is over, because
180 s and one more try of 20 s are less. `TimeoutStartSec` is `Abort`. `sent` and
`wiped` are history.

## 3. Runs

| Run | Instance | Shows |
|---|---|---|
| `validation` | every combination of values around each bound, and of reserved fields | `GatewayNoWeaker`, `SameVerdict` |
| `planner` | 2 slots, 3 identifiers, 6 blocks (a past date, a delete, an unknown profile), instants 0..2, years of one instant | queue, publication, answers, execution, `ImplementsPlanService` |
| `planner_live` | 1 slot, 1 request, instants 0..1, fair control thread | `TriggerAnswered`, `PublicationEnds`, `DueOrderLeaves` |
| `exchange` | 2 slots, two adds, a delete and a reset, one instant | `AckedMeansServed`, `AcknowledgedStateHolds`, `MatchingPlanIsCurrent`, `NoCrossedOperation` |
| `exchange_slow` | adds only, no `PromptPlanner` | `AckedMeansServed` fails |
| `mode` | both modes, threshold 1, instants 0..3, writes that fail, fair publisher | `OneMode`, `PlantOnlyIfConfirmed`, `FrozenPlantRefused`, `LivePlantServed`, `TelemetryFollows` |
| `cascade` | demands 0, 4 and 36 blocks (none, half of the small boiler, all three), delays of 1 or 2 rounds, ramp 10 | `BurnsOnlyAfterPurge`, `StagesInSequence`, `NeverRampsOverLimit`, `RoundsShareExactly`, `StagingSettles`, `DemandServed` |
| `runtime` | 4 orders | `IdNeverAhead`, `BlockSettles` |
| `provisioning` | 2 threads, 2 jobs, 2 steps, 3 run requests, real mode, refused starts and restarts | `StepsInOrder`, `RunningIsFollowed`, `SucceededIsDone`, `ActiveIsProvisioned`, `OverIsFinal` |
| `remote_unlock` | the boot run and a dry run, 2 threads, 2 tries, 2 failures | `ReleasedOnce`, `ChallengeKept`, `DataMounted` |
| `mode_frozen`, `mode_ack` | as `mode` | two statements of the mode document fail |

Bounds. Two slots and three identifiers are the least with a full queue, a
refused addition and a replacement that moves an order; two orders share a date,
so that several come due at once and ties are sorted. In `exchange`, what can go
wrong is between triggers, block, statuses and the slots being read: two slots,
of which one may be read before and one after a publication, and each kind of
command are enough for every pair of kinds to meet, and since commands follow each other without end, three and more given
up in a row are included. Its time stands still (`MaxTime 0`): one order is
dated at the instant, so it is executed and leaves, the other is later, so it
stays. In `mode`, instants 0..3 with threshold 1 hold a freeze, the refusal, a
switch back and forth and the window it opens again. In `cascade`, the times are the least
that tell a complete purge from a complete ignition and a running timer from one
that is up; the ramp reaches a target in one round or in two; with 36 blocks C1
needs three stages, with 4 the average falls under 25 % on two. The tolerance is 0 in the runs and
any natural in the proofs. In `provisioning`, two threads may run the same step or
two jobs of one IPC, and two jobs are a superseded one and its successor; three run
requests are a whole workflow of two steps and one that overlaps it or repeats a
failed step. Threads are interchangeable (`Symmetry`). In `remote_unlock`, two
threads are a request and its repetition, or two runs at once; two failures are a
lost answer and one more. The properties of `Provisioning` also hold in an
instance of the same size with both dispatch modes and two run requests.

`MCPlanner` and `MCExchange` have a `VIEW` that leaves out of the fingerprint
variables nothing reads: the status words of the planner alone; the full flag, the
consigne and the finished command of the exchange. What replaces the finished
command is the one fact about it a property still asks for, so that two states
with one view have the same successors up to the view and satisfy the same
invariants. No run with a liveness property has a view or a symmetry. Deadlock is
checked in every run but `provisioning` and `remote_unlock`, where nothing is left
to do once the bounds are used up: every job identifier given and the IPC deleted,
or the volume mounted and no failure left.

Where a type invariant is proved and the run has deeper ones, the run does not
check it again (`validation`, `planner`, `runtime`; the one of `Planner` is a part
of `TypeOKExchange`).

Fairness. `WF(PlcStep)`: the control thread loops for ever, blocks on nothing
and catches every exception of a round, so that weak fairness of its next access
is what the scheduler of the operating system gives. `WF(TelemetryLoop)`:
the publisher loops for ever. That a write of the file ends, and ends well, is not
assumed: it is in the premise of `TelemetryFollows` (the gateway stays idle in a
mode it saved). `WF(SomeRound)`, `WF(EndOrder)` and `WF(Telemetry)`: the same for the
rounds of the cascade, the end of a consigne being assigned and the telemetry
thread. In `RemoteUnlock`, `WF(Start(Boot))` is systemd (`Restart=on-failure`),
`WF(Advance)` and `WF(Serve)` that a script, a handshake whose client is there and
a thread that have something to do do it; failures are at most `MaxFaults`, which
is what "once nothing fails any more" means. Nothing is assumed of the handshake
of a client that is gone: that the loop does not stay in it for ever is the premise
of `DataMounted`, and without it the property fails. `Provisioning` has safety properties only: a playbook may last for
ever, and who asks for the next step is an operator. `StagingSettles` and `DemandServed` assume in their premise that consigne
and demand stop changing. No fairness is assumed of clients, connections or clocks.

### Findings

1. **`exchange_slow`: an `ok` for an order that was never read.** After a
   command given up, the planner may be inside the handler of the abandoned
   command when the next add sets the same trigger; the end of that handler
   clears it, and the gateway reads a success that is not its own. It takes a
   planner that stalls inside a round for about two round trips.
2. **`mode_frozen`: a frozen plant takes orders after each connection.** The
   document says commands are blocked while `%MW256` is frozen, and that the
   watchdog is verified before the plant is armed. The switch sets the time of
   the last change to the time of the connection, so orders pass until the
   threshold has elapsed.
3. **`mode_ack`: no acknowledgement after a block.** The document has a
   blocked state left by an acknowledgement; the code judges each order anew.

What the guard does promise is `FrozenPlantRefused`: the time since the plant
last moved, or since the gateway last had no view of it, is within the threshold
and the round of the monitor.

On the cascade, what holds is weaker than a reader may expect of a limit: it
bounds the priority boiler, not the plant. One block out of 400 or 1000 kW keeps
the average load of a single stage under the 80 % that start the next, so that a
demand under a limit stays unserved on one stage; when several stages run as the
limit comes, the others take over what the first gives up. `DemandServed` is
therefore stated without a limit, `NeverRampsOverLimit` boiler by boiler.

On the mode, the file may name another PLC than the gateway commands, for as long
as nobody switches again: a failed write is logged and nothing repairs it, so that
measurements of one PLC are published beside orders to the other. `OneMode` and
`TelemetryFollows` except exactly this time (`unsaved`).

On provisioning, several things a reader may expect do not hold, and no property
says them. Two run requests that overlap both pass the check that no step is
running, and run the same step twice, or two steps at once in manual mode: the
check and the commit of the first one are apart
(`PRD_LOT_6_REPRISE_IDEMPOTENCE_PROVISIONING.md:286` asks of the job states to
come that one step at a time be active). A job cancelled while its
step runs is given `running`, `failed` or `succeeded` again by the end of that
step, which is why `OverIsFinal` speaks of jobs no session has read before.
`provisioning` may stay on an IPC that has no active job, when the refresh of one
session is older than the commit of another. A step whose start is refused after
the first commit, or whose run was cut off by a restart, stays `running` until the
job is cancelled; this is the `stranded` of `RunningIsFollowed`. With two runs that
overlap, the deletion of an IPC may put the step of the run that ended last back to
`running`, on a job that has no IPC any more: `RunningIsFollowed` is about the jobs
of an IPC that is there.

On remote unlock, a lost answer to an unlock uses up the challenge: the repeated
requests of that run are refused until its window closes, and only the next start
by systemd gets the key (`DataMounted` goes through this). A client that loses its
power or its link in a TLS handshake may keep every IPC from its key for as long as
the broker is not restarted: the handshake is a part of `accept()`, and
`build_unlock_server` gives it no timeout.

## 4. Proofs

For every value of the constants (any number of slots, any requests, any
tolerance and threshold), from the named assumptions of the modules:

* **Validation.** `GatewayIsNoWeaker`: rounding moves a value by half a
  thousandth at most (`Round3Near`) and keeps it within limits that are multiples
  of a thousandth (`RoundedWithinLimit`); `MetCodeStable` shows that rounding
  twice gives the code of rounding once wherever the gateway accepts. The rules
  then hold one by one on the decoded body (`AcceptedByBoth`). `VerdictsAgree` is
  the other direction, refusals included, for values the registers hold: the two
  tables are paired rule by rule (`TablesCorrespond`; the planner tests the reserved
  fields one by one where the gateway has one rule for the three), and the first
  broken rule has the code `Announced` gives of that of the planner (`FirstBrokenIs`,
  `OneVerdict`).
* **Planner.** `TypeCorrect`; `QueueStaysWellFormed`, from lemmas that removing,
  inserting at the sorted position and taking the tail keep order and
  uniqueness; `PublicationConsistent`. `PublishedConsistent` is not inductive:
  between the first and the last write it says nothing. The strengthening
  `PublicationInv` says, for each place of the thread, which registers already
  agree with the queue, and that `CRC_STATE` is 1 exactly in between; it rests on
  the queue being well formed (distinct slots, full flag). `AnswersFollowPublication`
  follows from the same invariant. `NothingDueIsLeft` uses the order of the
  queue: the head is late enough, so all are. `Implementation` maps each step to
  a step of `PlanService` or a stutter; the one subtle case is the update, where
  removal and insertion in a sequence must equal `Put` on the set of its orders
  (`UpsertPlan`, with `DeletePlan` and `ExecutePlan` for the other two changes).
* **Gateway and planner** (the second half of `PlannerProofs`). See below.
* **Mode.** `TypeCorrect`, `ModesAgree`, `PlantIsConfirmed`; `ModesAgree` counts
  the writes of the file that fail (`unsaved`); `LivePlantIsServed`
  with the invariant `TimesPast` (no value is younger than the change that
  brought it); `FrozenPlantIsRefused` with `ViewInv`, which bounds how old the
  gateway's view can be: at most one unit behind, unless the plant moved or the
  view was lost since. It covers the read of the old PLC that returns after a
  switch.
* **Cascade.** `StagesStayInSequence`; `FireFollowsPurge`, with the invariant
  `FireInv`, which ties each place of a start to the time spent in it (a load
  alone says nothing of the start that led to it); `TypeCorrect`, which needs that
  the remainder of the demand never goes below zero along the sequence
  (`RemainingIsNat`, unrolled over its three places), hence `SharesWithinLimits`;
  `LimitsHoldTheRamp` from these. `SharesMatchDemand`: what each place of the
  sequence is given is the part of the demand the places before it left
  (`SharesByPlace`), and these parts add up (`SharesAreExact`).
* **Runtime block.** `BlockIsNotOlderThanItsOrder`, with `CopyInv`: what is copied
  after the identifier is at least as recent as the identifier.
* **Provisioning.** One invariant, `IInv`, for five theorems. None of the five is
  inductive alone, because what a session has read may be written over anything
  later. `RowOK` says what a row is worth (steps in the order of the workflow,
  each success paid for by a playbook in `done`, `succeeded` only with all of
  them); `TableOK` says it of the table and `SessionOK` of every copy a session
  may still write, together with what the operation under way may do with it.
  `RowMore` shows that a row does not lose its worth when `done` grows, and
  `FlushedOK` that a commit mixes two rows, attribute by attribute, without making
  a bad one. `NoGhostSteps` is part of it, because a thread that executes
  a playbook holds a workflow where no other step runs (`OnlyRuns`) and what it or a
  cancellation writes at the end shows none (`NoneRuns`). The deletion of an IPC
  writes old steps back; `DropSees` adds that the rows it detaches exist, so that
  they are worth what its copies were. `JobsStayOver` needs
  `HeldInv` besides: a session that runs or cancels a job read it before it was over.
* **Remote unlock.** `IInv` is `TypeOK`, `UsedUp` (a challenge a secret was sent for
  is not remembered any more), `ReleasedOnce`, `Fresh` (no run holds an expired
  challenge) and `ChallengeKept`. `ReleasedOnce` follows from `UsedUp` at the step
  that sends; `ChallengeKept` needs `Fresh`, or the refusal of an expired challenge
  would delete one that is in use.

### The invariant of the exchange

`GatewayIsAClient` first: a step of the composition is, on the registers and the
memory of the planner, a step `Planner` allows of its arbitrary clients. Every
theorem about the planner therefore holds behind the gateway, and the proofs
below start from a well-typed, well-formed queue (`BaseInv`). `BaseInv` also says
that the preparation block is what some command wrote; with the shape of the
commands (an order has a date, a deletion has none) this gives
`OperationsAreNotCrossed`. Neither needs any assumption on speed.

The other four properties hold under `PromptPlanner`, a hypothesis of their
theorems. None is inductive: a trigger left behind or a status word that belongs
to another command would break it a few steps later. `IInvExchange` says what
these may be:

* `ThreadInv`: what the control thread has seen is what is set among the triggers
  it has polled, or nothing, when the only trigger was set behind it; a trigger
  stays set while its handler runs; the triggers of a refusal are cleared only
  after every status word says so. This and `AnswerInv` need `PromptPlanner`.
* `HandInv`: while a command is handled and connected, the block is its own once
  written, and once the planner has taken the command up no other trigger is set:
  otherwise the poll would have refused them all.
* `AnswerInv`: as long as the planner has not taken up the command the gateway
  waits for, either its trigger is set or its status word is an error. Hence
  `AcknowledgedWasServed`, and `OkIsFinal`: when `ok` is answered, no trigger is
  set and no handler of this kind runs.
* `OwedInv`: a trigger left behind never works against what was acknowledged
  since, because the last command that wrote the block withdrew what it names.
* `EffectInv`: the plan holds what was acknowledged, and the effect of the command
  in hand once it was taken up. Hence `AcknowledgedHolds`.
* `CrcInv`: so does the image the CRC register belongs to, except for the command
  in hand until its publication has written the CRC.
* `ReadInv`: so does the image whose CRC was read, since nothing is acknowledged
  while a plan is read and the planner only removes what it executes. Hence
  `MatchingPlansAreCurrent`.

The proof goes by what a step of the planner is for its client (`Applies`,
`Refuses`, `Executes`, `Proceeds`; `PlannerStepKinds` shows there is no other
kind), then by the steps of the gateway. The invariant was model-checked on the
instance of `exchange` before it was proved.

### What is only model-checked

The liveness properties: `TriggerAnswered`, `PublicationEnds`, `DueOrderLeaves`,
`TelemetryFollows`, `StagingSettles`, `DemandServed`, `BlockSettles`,
`DataMounted`. They need fairness, hence `ENABLED`, which is beyond the prover.
Every invariant and every action property of the passing runs is proved. The
three statements that fail are refuted by TLC.

## 5. Not modelled, and the plan

The safety properties are proved. What is left to improve: what remains true of
`AckedMeansServed` for a planner slower than `PromptPlanner` allows (a weaker
statement than the one `exchange_slow` refutes), and the parts of the code below.

Left out for good:

* the rest of `fleet.py`: the network scan, the sites, the generated inventories
  and variables (text built from fields, no interaction), the online display;
* `BrokerOrderTap`, a bounded display of recent orders, and the control-plane
  probe of the broker; `nats_e2e.py`, which keeps no state and reports an outcome:
  what a reply that never comes means for an order is in `Exchange`;
* `register_check` and `monitor_snapshot`, which read as `read_plan` does and
  draw no conclusion from what they read;
* access control (accounts, roles, sign-on), which is not functional behaviour of
  the plant;
* the HTTP layer, the frontend and the desktop tools (display and I/O), the Wazuh
  alerts (filters over the log of another product);
* playbooks, images and Terraform (declarative, run by external tools);
* the IEC 104 and MQTT prototypes (superseded), `physics.py` beyond an arbitrary
  pressure (continuous), `monitor_plc_clock`, which only logs.

These make up most of the lines of the repository: the state that several actors
share, and so what is worth checking here, is in the files of the table of
section 1.
