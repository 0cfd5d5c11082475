---------------------------- MODULE Provisioning ----------------------------
(***************************************************************************)
(* The provisioning jobs of one IPC (app/fleet.py), as the sessions of the *)
(* control panel change them: the threads that serve POST .../run, each    *)
(* for as long as a playbook lasts, and the event loop, which serves the   *)
(* other requests one after the other, while the threads go on.            *)
(*                                                                         *)
(* A request has a database session of its own (app/database.py).  The     *)
(* session keeps the rows it has read (expire_on_commit=False, no row is   *)
(* locked or versioned), and its commit writes the attributes whose value  *)
(* has changed SINCE IT READ THEM, over whatever another session committed *)
(* in between; a commit that finds no row to update fails as a whole.      *)
(***************************************************************************)
EXTENDS Naturals, FiniteSets

CONSTANTS
    Threads,    \* the threads that serve run requests
    Loop,       \* the event loop, which serves all other requests
    Modes,      \* the dispatch modes in use, of "auto" and "manual"
    MaxJobs,    \* bound: the jobs ever prepared for the IPC
    MaxRuns,    \* bound: the run requests accepted
    NSteps,     \* the steps of the workflow
    Real,       \* execution mode: TRUE = "real", FALSE = "mock"
    Faults      \* TRUE: the service may restart, a start may be refused

ASSUME ProvisioningAssumption ==
    /\ Loop \notin Threads
    /\ Modes \subseteq {"auto", "manual"} /\ "auto" \in Modes
    /\ MaxJobs \in Nat
    /\ MaxRuns \in Nat
    /\ NSteps \in Nat \ {0}
    /\ Real \in BOOLEAN
    /\ Faults \in BOOLEAN

Jobs == 1..MaxJobs
Steps == 1..NSteps
Sessions == Threads \cup {Loop}

StepStatus == {"none", "ready", "locked", "running", "succeeded", "failed"}
JobStatus ==
    {"none", "prepared", "running", "failed", "succeeded", "superseded", "cancelled"}
Active == {"prepared", "running"}
\* Mutant: a cancelled job can be run again.
RunnableAgain == {"prepared", "running", "failed", "cancelled"}

Runnable == {"prepared", "running", "failed"}
Over == {"succeeded", "superseded", "cancelled"}
Registrations == {"discovered", "registered", "provisioning", "active"}

\* The row of a job: its status, whether it still belongs to the asset, and
\* the status of each step of its workflow (context_json).
Row == [status : JobStatus, attached : BOOLEAN, steps : [Steps -> StepStatus]]
NoRow == [status |-> "none", attached |-> FALSE,
          steps |-> [i \in Steps |-> "none"]]
Asset == [present : BOOLEAN, site : BOOLEAN, reg : Registrations]

\* A session: what it is doing, the rows and the asset as it read them (or
\* last wrote them), and as it is about to commit them.
Session ==
    [pc : {"idle", "loaded", "executing", "writing"},
     op : {"none", "run", "cancel", "delete", "prepare", "register", "drop"},
     job : Jobs \cup {0}, step : Steps \cup {0}, mode : Modes,
     seen : [Jobs -> Row], mine : [Jobs -> Row],
     aseen : Asset, amine : Asset]

VARIABLES
    table,      \* the provisioning_jobs table
    dispatch,   \* the dispatch mode of each job, set once (context_json.runner)
    asset,      \* the inventory_assets row of the IPC
    last,       \* the last job id given (ids are never given twice)
    runs,       \* the run requests accepted so far
    sess,       \* the sessions
    done,       \* history: <<job, step>> whose playbook ended well
    stranded    \* history: jobs a run of which ended without its last commit

vars == <<table, dispatch, asset, last, runs, sess, done, stranded>>

-----------------------------------------------------------------------------
(* Steps of a workflow *)

\* _apply_dispatch_mode_to_steps: succeeded, running and failed steps stay;
\* of the others all are ready in manual mode, and in auto mode only the one
\* that has nothing but succeeded steps before it.
Dispatch(mode, st) ==
    [i \in Steps |->
        IF st[i] \in {"succeeded", "running", "failed"} THEN st[i]
        ELSE IF mode = "manual" \/ \A k \in 1..(i - 1) : st[k] = "succeeded"
             THEN "ready" ELSE "locked"]

\* Mutant: any step that has not succeeded, whatever the mode.
SelectableAny(mode, st) ==
    IF \E i \in Steps : st[i] = "running" THEN {}
    ELSE {i \in Steps : st[i] # "succeeded"}

\* _select_runnable_workflow_step: the steps a request can get, by name or by
\* default; none while a step is running.
Selectable(mode, st) ==
    IF \E i \in Steps : st[i] = "running" THEN {}
    ELSE {i \in Steps : IF mode = "manual" THEN st[i] # "succeeded"
                                           ELSE st[i] \in {"ready", "failed"}}

\* cancel_provisioning_job: the first step that has not succeeded fails.
CancelledSteps(mode, st) ==
    Dispatch(mode, [i \in Steps |->
        IF st[i] = "succeeded" THEN "succeeded"
        ELSE IF \A k \in 1..(i - 1) : st[k] = "succeeded" THEN "failed"
             ELSE "locked"])

\* _supersede_active_jobs
SupersededSteps(st) ==
    [i \in Steps |-> IF st[i] = "succeeded" THEN "succeeded" ELSE "locked"]

\* Mutant: no job is left to run, so the IPC is active.
RegistrationWhenIdle(statuses, site) ==
    IF statuses \cap Active # {} THEN "provisioning"
    ELSE IF statuses # {} THEN "active"
    ELSE IF site THEN "registered" ELSE "discovered"

\* Mutant: the status of the job is taken for that of the asset.
RegistrationOfJob(statuses, site) ==
    IF statuses \cap Active # {} THEN "running"
    ELSE IF "succeeded" \in statuses THEN "active"
    ELSE IF site THEN "registered" ELSE "discovered"

\* _refresh_asset_registration_state, of the statuses of the asset's jobs
Registration(statuses, site) ==
    IF statuses \cap Active # {} THEN "provisioning"
    ELSE IF "succeeded" \in statuses THEN "active"
    ELSE IF site THEN "registered" ELSE "discovered"

-----------------------------------------------------------------------------
(* Sessions *)

NoAsset == [present |-> FALSE, site |-> FALSE, reg |-> "discovered"]
Idle == [pc |-> "idle", op |-> "none", job |-> 0, step |-> 0, mode |-> "auto",
         seen |-> [j \in Jobs |-> NoRow], mine |-> [j \in Jobs |-> NoRow],
         aseen |-> NoAsset, amine |-> NoAsset]

\* A session that has read the rows of js and the asset.
Loaded(op, j, k, js) ==
    LET rows == [i \in Jobs |-> IF i \in js THEN table[i] ELSE NoRow]
    IN  [pc |-> "loaded", op |-> op, job |-> j, step |-> k, mode |-> "auto",
         seen |-> rows, mine |-> rows, aseen |-> asset, amine |-> asset]

Exists(j) == table[j].status # "none"
JobsOfAsset == {j \in Jobs : Exists(j) /\ table[j].attached}

\* The flush of a session fails when a row it has changed is gone.
StaleData(seen, mine, aseen, amine) ==
    \/ \E j \in Jobs : mine[j] # seen[j] /\ ~Exists(j)
    \/ amine # aseen /\ ~asset.present

\* It writes the attributes that differ from what the session read.
Flushed(seen, mine) ==
    [j \in Jobs |->
       [status |-> IF mine[j].status # seen[j].status
                   THEN mine[j].status ELSE table[j].status,
        attached |-> IF mine[j].attached # seen[j].attached
                     THEN mine[j].attached ELSE table[j].attached,
        steps |-> IF mine[j].steps # seen[j].steps
                  THEN mine[j].steps ELSE table[j].steps]]

FlushedAsset(aseen, amine) ==
    [present |-> asset.present,
     site |-> IF amine.site # aseen.site THEN amine.site ELSE asset.site,
     reg |-> IF amine.reg # aseen.reg THEN amine.reg ELSE asset.reg]

\* The statuses that a refresh by session s finds on the asset's jobs: its own
\* copy of the job it works on, and what is committed of the others.
StatusesFor(j, own) ==
    {IF i = j THEN own ELSE table[i].status : i \in JobsOfAsset}

\* The asset after a refresh that s makes for job j; nothing for a job that
\* no longer had an asset when it was read.
Refreshed(s, j, own) ==
    IF ~sess[s].seen[j].attached THEN sess[s].amine
    ELSE [sess[s].amine EXCEPT
            !.reg = Registration(StatusesFor(j, own), sess[s].aseen.site)]

Close(s) == sess' = [sess EXCEPT ![s] = Idle]

-----------------------------------------------------------------------------
(* run_provisioning_job, by a thread *)

\* Up to the first commit: the job is read, a step is chosen.
RunLoad(t, j, k) ==
    /\ sess[t].pc = "idle"
    /\ runs < MaxRuns
    /\ runs' = runs + 1
    /\ table[j].status \in Runnable
    /\ k \in Selectable(dispatch[j], Dispatch(dispatch[j], table[j].steps))
    /\ sess' = [sess EXCEPT ![t] = Loaded("run", j, k, {j})]
    /\ UNCHANGED <<table, dispatch, asset, last, done, stranded>>

StartedRow(mode, row, k) ==
    [row EXCEPT !.status = "running",
                !.steps = Dispatch(mode,
                            [Dispatch(mode, row.steps) EXCEPT ![k] = "running"])]

\* The first commit: the step is marked running.
RunStart(t) ==
    LET s == sess[t]
        mine == [s.mine EXCEPT ![s.job] = StartedRow(dispatch[s.job], s.seen[s.job], s.step)]
    IN  /\ s.pc = "loaded" /\ s.op = "run"
        /\ IF StaleData(s.seen, mine, s.aseen, s.amine)
           THEN Close(t) /\ UNCHANGED table
           ELSE /\ table' = Flushed(s.seen, mine)
                /\ sess' = [sess EXCEPT ![t].pc = "executing",
                                        ![t].seen = mine, ![t].mine = mine]
        /\ UNCHANGED <<runs, dispatch, asset, last, done, stranded>>

\* A start refused after that commit: no playbook root, no ansible-playbook,
\* a missing inventory, vars file, playbook or secret.
RunRefused(t) ==
    /\ Faults /\ Real
    /\ sess[t].pc = "executing"
    /\ Close(t)
    /\ stranded' = stranded \cup {sess[t].job}
    /\ UNCHANGED <<runs, dispatch, table, asset, last, done>>

\* Output lines are saved while the playbook runs; this changes the logs only,
\* and fails when the job has been deleted.
RunFlush(t) ==
    /\ Real
    /\ sess[t].pc = "executing"
    /\ ~Exists(sess[t].job)
    /\ Close(t)
    /\ UNCHANGED <<runs, dispatch, table, asset, last, done, stranded>>

\* Mutant: a failure is written on the job only.
EndedRowJobOnly(mode, row, k, ok) ==
    IF ~ok THEN [row EXCEPT !.status = "failed"]
    ELSE LET st == Dispatch(mode, [row.steps EXCEPT ![k] = "succeeded"])
         IN  [row EXCEPT !.steps = st,
                         !.status = IF \A i \in Steps : st[i] = "succeeded"
                                    THEN "succeeded" ELSE "running"]

\* Mutant: the last step of the workflow is not looked at.
EndedRowEarly(mode, row, k, ok) ==
    LET st == Dispatch(mode,
                [row.steps EXCEPT ![k] = IF ok THEN "succeeded" ELSE "failed"])
    IN  [row EXCEPT !.steps = st,
                    !.status = IF ~ok THEN "failed"
                               ELSE IF \A i \in 1..(NSteps - 1) : st[i] = "succeeded"
                                    THEN "succeeded" ELSE "running"]

EndedRow(mode, row, k, ok) ==
    LET st == Dispatch(mode,
                [row.steps EXCEPT ![k] = IF ok THEN "succeeded" ELSE "failed"])
    IN  [row EXCEPT !.steps = st,
                    !.status = IF ~ok THEN "failed"
                               ELSE IF \A i \in Steps : st[i] = "succeeded"
                                    THEN "succeeded" ELSE "running"]

\* The playbook ends (simulated success in mock mode; success, failure or
\* timeout in real mode), and the asset's state is refreshed in memory.
RunFinish(t, ok) ==
    LET s == sess[t]
        row == EndedRow(dispatch[s.job], s.seen[s.job], s.step, ok)
    IN  /\ s.pc = "executing"
        /\ Real \/ ok
        /\ sess' = [sess EXCEPT ![t].pc = "writing",
                                ![t].mine[s.job] = row,
                                ![t].amine = Refreshed(t, s.job, row.status)]
        /\ done' = IF ok THEN done \cup {<<s.job, s.step>>} ELSE done
        /\ UNCHANGED <<runs, dispatch, table, asset, last, stranded>>

\* The last commit.  A success also touches the asset (last_seen_at).
RunCommit(t) ==
    LET s == sess[t]
        touched == s.seen[s.job].attached /\ s.mine[s.job].status = "succeeded"
    IN  /\ s.pc = "writing" /\ s.op = "run"
        /\ IF \/ StaleData(s.seen, s.mine, s.aseen, s.amine)
              \/ touched /\ ~asset.present
           THEN /\ stranded' = stranded \cup {s.job}
                /\ UNCHANGED <<table, asset>>
           ELSE /\ table' = Flushed(s.seen, s.mine)
                /\ asset' = FlushedAsset(s.aseen, s.amine)
                /\ UNCHANGED stranded
        /\ Close(t)
        /\ UNCHANGED <<runs, dispatch, last, done>>

-----------------------------------------------------------------------------
(* The other requests, by the event loop *)

LoopIdle == sess[Loop].pc = "idle"
Begin(session) ==
    /\ LoopIdle
    /\ sess' = [sess EXCEPT ![Loop] = session]
    /\ UNCHANGED <<runs, dispatch, table, asset, last, done, stranded>>

\* cancel_provisioning_job
CancelLoad(j) ==
    /\ Exists(j) /\ table[j].status \notin Over
    /\ Begin(Loaded("cancel", j, 0, {j}))

CancelRefresh ==
    LET s == sess[Loop]
        row == [s.seen[s.job] EXCEPT
                  !.status = "cancelled",
                  !.steps = CancelledSteps(dispatch[s.job], s.seen[s.job].steps)]
    IN  /\ s.pc = "loaded" /\ s.op = "cancel"
        /\ sess' = [sess EXCEPT ![Loop].pc = "writing",
                                ![Loop].mine[s.job] = row,
                                ![Loop].amine = Refreshed(Loop, s.job, "cancelled")]
        /\ UNCHANGED <<runs, dispatch, table, asset, last, done, stranded>>

CancelCommit ==
    LET s == sess[Loop]
    IN  /\ s.pc = "writing" /\ s.op = "cancel"
        /\ table' = Flushed(s.seen, s.mine)
        /\ asset' = FlushedAsset(s.aseen, s.amine)
        /\ Close(Loop)
        /\ UNCHANGED <<runs, dispatch, last, done, stranded>>

\* delete_provisioning_job: the asset is refreshed from the jobs that remain,
\* unless the deleted job had succeeded.
DeleteLoad(j) ==
    /\ Exists(j) /\ table[j].status # "running"
    /\ Begin(Loaded("delete", j, 0, {j}))

DeleteRefresh ==
    LET s == sess[Loop]
        left == {table[i].status : i \in JobsOfAsset \ {s.job}}
    IN  /\ s.pc = "loaded" /\ s.op = "delete"
        /\ sess' = [sess EXCEPT ![Loop].pc = "writing",
             ![Loop].amine.reg =
                IF s.seen[s.job].attached /\ s.seen[s.job].status # "succeeded"
                THEN Registration(left, s.aseen.site) ELSE s.aseen.reg]
        /\ UNCHANGED <<runs, dispatch, table, asset, last, done, stranded>>

DeleteCommit ==
    LET s == sess[Loop]
    IN  /\ s.pc = "writing" /\ s.op = "delete"
        /\ table' = [table EXCEPT ![s.job] = NoRow]
        /\ asset' = FlushedAsset(s.aseen, s.amine)
        /\ Close(Loop)
        /\ UNCHANGED <<runs, dispatch, last, done, stranded>>

\* prepare_provisioning_job, with _supersede_active_jobs
PrepareLoad(mode) ==
    /\ asset.present /\ asset.site
    /\ last < MaxJobs
    /\ ~(Real /\ \E j \in JobsOfAsset : table[j].status = "running")
    /\ Begin([Loaded("prepare", 0, 0, JobsOfAsset) EXCEPT !.mode = mode])

SupersededRow(row) ==
    IF row.status \in Active
    THEN [row EXCEPT !.status = "superseded", !.steps = SupersededSteps(row.steps)]
    ELSE row

PrepareCommit ==
    LET s == sess[Loop]
        mine == [j \in Jobs |-> SupersededRow(s.seen[j])]
        new == [status |-> "prepared", attached |-> TRUE,
                steps |-> Dispatch(s.mode, [i \in Steps |-> "none"])]
    IN  /\ s.pc = "loaded" /\ s.op = "prepare"
        /\ last < MaxJobs       \* as when it began: no other session adds jobs
        /\ table' = [Flushed(s.seen, mine) EXCEPT ![last + 1] = new]
        /\ dispatch' = [dispatch EXCEPT ![last + 1] = s.mode]
        /\ last' = last + 1
        /\ asset' = FlushedAsset(s.aseen, [s.aseen EXCEPT !.reg = "provisioning"])
        /\ Close(Loop)
        /\ UNCHANGED <<runs, done, stranded>>

\* register_inventory_asset
RegisterLoad ==
    /\ asset.present
    /\ Begin(Loaded("register", 0, 0, {}))

RegisterCommit ==
    LET s == sess[Loop]
    IN  /\ s.pc = "loaded" /\ s.op = "register"
        /\ asset' = FlushedAsset(s.aseen,
                      [s.aseen EXCEPT !.site = TRUE, !.reg = "registered"])
        /\ Close(Loop)
        /\ UNCHANGED <<runs, dispatch, table, last, done, stranded>>

\* delete_inventory_asset: refused while one of its jobs is active.
DropLoad ==
    /\ asset.present
    /\ \A j \in JobsOfAsset : table[j].status \notin Active
    /\ Begin(Loaded("drop", 0, 0, JobsOfAsset))

\* Each of its jobs is detached and gets the deleted asset noted in its
\* context_json, which writes back the workflow as this session read it.
DropCommit ==
    LET s == sess[Loop]
        mine == [j \in Jobs |-> IF s.seen[j].attached
                                THEN [table[j] EXCEPT !.attached = FALSE,
                                                      !.steps = s.seen[j].steps]
                                ELSE table[j]]
    IN  /\ s.pc = "loaded" /\ s.op = "drop"
        /\ asset' = NoAsset
        /\ table' = mine
        /\ Close(Loop)
        /\ UNCHANGED <<runs, dispatch, last, done, stranded>>

-----------------------------------------------------------------------------
\* The service stops and starts again: the sessions and what they had not
\* committed are lost, the playbooks are no longer followed.
Restart ==
    /\ Faults
    /\ \E s \in Sessions : sess[s].pc # "idle"
    /\ sess' = [s \in Sessions |-> Idle]
    /\ stranded' = stranded \cup
         {sess[t].job : t \in {u \in Threads : sess[u].pc \in {"executing", "writing"}}}
    /\ UNCHANGED <<runs, dispatch, table, asset, last, done>>

Init ==
    /\ table = [j \in Jobs |-> NoRow]
    /\ dispatch = [j \in Jobs |-> "auto"]
    /\ asset = [present |-> TRUE, site |-> FALSE, reg |-> "discovered"]
    /\ last = 0
    /\ runs = 0
    /\ sess = [s \in Sessions |-> Idle]
    /\ done = {}
    /\ stranded = {}

RunEnds(t) ==
    \/ RunStart(t) \/ RunFlush(t) \/ RunRefused(t) \/ RunCommit(t)
    \/ \E ok \in BOOLEAN : RunFinish(t, ok)

LoopEnds ==
    \/ CancelRefresh \/ CancelCommit \/ DeleteRefresh \/ DeleteCommit
    \/ PrepareCommit \/ RegisterCommit \/ DropCommit

Next ==
    \/ \E t \in Threads, j \in Jobs, k \in Steps : RunLoad(t, j, k)
    \/ \E t \in Threads : RunEnds(t)
    \/ \E j \in Jobs : CancelLoad(j) \/ DeleteLoad(j)
    \/ \E mode \in Modes : PrepareLoad(mode)
    \/ RegisterLoad \/ DropLoad
    \/ LoopEnds
    \/ Restart

Spec == Init /\ [][Next]_vars

-----------------------------------------------------------------------------
TypeOK ==
    /\ table \in [Jobs -> Row]
    /\ dispatch \in [Jobs -> Modes]
    /\ asset \in Asset
    /\ last \in 0..MaxJobs
    /\ runs \in 0..MaxRuns
    /\ sess \in [Sessions -> Session]
    /\ done \subseteq Jobs \X Steps
    /\ stranded \subseteq Jobs

\* In a job dispatched automatically the playbooks succeed in the order of the
\* workflow, whatever requests overlap and whatever stale list of steps a
\* session writes over another: the steps that have succeeded come first
\* (_apply_dispatch_mode_to_steps, _select_runnable_workflow_step).
InOrder(mode, st) ==
    mode = "auto" =>
        \A i \in Steps : st[i] = "succeeded" =>
            \A k \in 1..(i - 1) : st[k] = "succeeded"
StepsInOrder == \A j \in Jobs : InOrder(dispatch[j], table[j].steps)

\* A step of a job of the IPC is shown as running only while a thread follows
\* its playbook, or when a run of the job was cut off before its last commit:
\* cancelling, superseding and the stale copies of other sessions leave no
\* such step.  A job whose IPC is deleted is out of this: the deletion writes
\* its steps back as they were when it began (delete_inventory_asset).
RunningIsFollowed ==
    \A j \in Jobs, i \in Steps :
        table[j].attached /\ table[j].steps[i] = "running" =>
            \/ j \in stranded
            \/ \E t \in Threads : /\ sess[t].pc \in {"executing", "writing"}
                                  /\ sess[t].job = j /\ sess[t].step = i

\* A job is declared succeeded only when the playbook of each of its steps has
\* really run to a good end, although sessions write whole workflows over each
\* other (the end of run_provisioning_job).
SucceededIsDone ==
    \A j \in Jobs : table[j].status = "succeeded" =>
        \A i \in Steps : <<j, i>> \in done

\* An IPC is declared active only when some job has gone through its whole
\* workflow (_refresh_asset_registration_state), even when jobs are cancelled,
\* superseded or deleted while others run.
ActiveIsProvisioned ==
    asset.reg = "active" => \E j \in Jobs : \A i \in Steps : <<j, i>> \in done

\* A job that is over stays over, whatever is requested, once no session is
\* left that read it before it was (the guards of run, cancel and supersede).
OverIsFinal ==
    [][\A j \in Jobs :
         (/\ table[j].status \in Over
          /\ \A s \in Sessions : sess[s].seen[j].status \in Over \cup {"none"})
         => table'[j].status = table[j].status \/ ~Exists(j)']_vars

=============================================================================
