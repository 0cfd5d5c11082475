-------------------------- MODULE ProvisioningProofs --------------------------
(* Proofs about Provisioning, for any number of threads, jobs and steps.  The
   types come first; then what every row is worth, in the table and in the
   copies that the sessions may still write over it. *)
EXTENDS Provisioning, TLAPS

-----------------------------------------------------------------------------
(* Types of the operators *)

LEMMA DispatchType ==
    ASSUME NEW mode, NEW st \in [Steps -> StepStatus]
    PROVE  Dispatch(mode, st) \in [Steps -> StepStatus]
BY DEF Dispatch, StepStatus

LEMMA NoRowType == NoRow \in Row
BY DEF NoRow, Row, StepStatus, JobStatus

LEMMA IdleType == Idle \in Session
<1>1. "auto" \in Modes
  BY ProvisioningAssumption
<1>2. [j \in Jobs |-> NoRow] \in [Jobs -> Row]
  BY NoRowType
<1>3. NoAsset \in Asset
  BY DEF NoAsset, Asset, Registrations
<1> QED BY <1>1, <1>2, <1>3 DEF Idle, Session

LEMMA FlushedType ==
    ASSUME TypeOK, NEW seen, NEW mine \in [Jobs -> Row]
    PROVE  Flushed(seen, mine) \in [Jobs -> Row]
BY DEF TypeOK, Flushed, Row

LEMMA FlushedAssetType ==
    ASSUME TypeOK, NEW aseen, NEW amine \in Asset
    PROVE  FlushedAsset(aseen, amine) \in Asset
BY DEF TypeOK, FlushedAsset, Asset

LEMMA RegistrationType ==
    ASSUME NEW statuses, NEW site PROVE Registration(statuses, site) \in Registrations
BY DEF Registration, Registrations

LEMMA RefreshedType ==
    ASSUME TypeOK, NEW s \in Sessions, NEW j, NEW own
    PROVE  Refreshed(s, j, own) \in Asset
<1>1. sess[s].amine \in Asset
  BY DEF TypeOK, Session
<1>2. Registration(StatusesFor(j, own), sess[s].aseen.site) \in Registrations
  BY RegistrationType
<1> QED BY <1>1, <1>2 DEF Refreshed, Asset

LEMMA LoadedType ==
    ASSUME TypeOK,
           NEW op \in {"run", "cancel", "delete", "prepare", "register", "drop"},
           NEW j \in Jobs \cup {0}, NEW k \in Steps \cup {0}, NEW js
    PROVE  Loaded(op, j, k, js) \in Session
<1>1. [i \in Jobs |-> IF i \in js THEN table[i] ELSE NoRow] \in [Jobs -> Row]
  BY NoRowType DEF TypeOK
<1>2. "auto" \in Modes
  BY ProvisioningAssumption
<1> QED BY <1>1, <1>2 DEF Loaded, Session, TypeOK

LEMMA StartedRowType ==
    ASSUME NEW mode, NEW row \in Row, NEW k
    PROVE  StartedRow(mode, row, k) \in Row
<1>1. row.steps \in [Steps -> StepStatus]
  BY DEF Row
<1>2. Dispatch(mode, row.steps) \in [Steps -> StepStatus]
  BY <1>1, DispatchType
<1>3. [Dispatch(mode, row.steps) EXCEPT ![k] = "running"] \in [Steps -> StepStatus]
  BY <1>2 DEF StepStatus
<1>4. Dispatch(mode, [Dispatch(mode, row.steps) EXCEPT ![k] = "running"])
        \in [Steps -> StepStatus]
  BY <1>3, DispatchType
<1> QED BY <1>4 DEF StartedRow, Row, JobStatus

LEMMA EndedRowType ==
    ASSUME NEW mode, NEW row \in Row, NEW k, NEW ok
    PROVE  EndedRow(mode, row, k, ok) \in Row
<1>1. [row.steps EXCEPT ![k] = IF ok THEN "succeeded" ELSE "failed"]
        \in [Steps -> StepStatus]
  BY DEF Row, StepStatus
<1>2. Dispatch(mode, [row.steps EXCEPT ![k] = IF ok THEN "succeeded" ELSE "failed"])
        \in [Steps -> StepStatus]
  BY <1>1, DispatchType
<1> QED BY <1>2 DEF EndedRow, Row, JobStatus

LEMMA CancelledStepsType ==
    ASSUME NEW mode, NEW st PROVE CancelledSteps(mode, st) \in [Steps -> StepStatus]
<1>1. [i \in Steps |->
        IF st[i] = "succeeded" THEN "succeeded"
        ELSE IF \A k \in 1..(i - 1) : st[k] = "succeeded" THEN "failed"
             ELSE "locked"] \in [Steps -> StepStatus]
  BY DEF StepStatus
<1> QED BY <1>1, DispatchType DEF CancelledSteps

LEMMA SupersededRowType ==
    ASSUME NEW row \in Row PROVE SupersededRow(row) \in Row
<1>1. SupersededSteps(row.steps) \in [Steps -> StepStatus]
  BY DEF SupersededSteps, StepStatus
<1> QED BY <1>1 DEF SupersededRow, Row, JobStatus

-----------------------------------------------------------------------------
(* Types of the state *)

LEMMA TypeInit == Init => TypeOK
<1> SUFFICES ASSUME Init PROVE TypeOK
  OBVIOUS
<1>1. table \in [Jobs -> Row]
  BY NoRowType DEF Init
<1>2. dispatch \in [Jobs -> Modes]
  BY ProvisioningAssumption DEF Init
<1>3. asset \in Asset
  BY DEF Init, Asset, Registrations
<1>4. sess \in [Sessions -> Session]
  BY IdleType DEF Init
<1>5. last \in 0..MaxJobs /\ runs \in 0..MaxRuns
  BY ProvisioningAssumption DEF Init
<1> QED BY <1>1, <1>2, <1>3, <1>4, <1>5 DEF Init, TypeOK

-----------------------------------------------------------------------------
(* What a row is worth.  In a job dispatched automatically a step is touched
   only after those before it have succeeded; what a row shows as succeeded
   has been done (d: the steps of the job whose playbook ended well). *)

Touched == {"succeeded", "failed", "running"}

Ordered(mode, st) ==
    mode = "auto" =>
        \A i \in Steps : st[i] \in Touched =>
            \A k \in 1..(i - 1) : st[k] = "succeeded"

Earned(st, d) == \A i \in Steps : st[i] = "succeeded" => i \in d

RowOK(mode, row, d) ==
    /\ Ordered(mode, row.steps)
    /\ Earned(row.steps, d)
    /\ row.status = "succeeded" => \A i \in Steps : i \in d

NoneRuns(st) == \A i \in Steps : st[i] # "running"
Shown(row, i) == row.attached /\ row.steps[i] = "running"
OnlyRuns(st, k) == \A i \in Steps : st[i] = "running" <=> i = k

LEMMA Before == ASSUME NEW i \in Steps, NEW k \in 1..(i - 1) PROVE k \in Steps /\ k < i
BY ProvisioningAssumption DEF Steps

LEMMA NoRowOK == ASSUME NEW mode, NEW d PROVE RowOK(mode, NoRow, d) /\ NoneRuns(NoRow.steps)
BY Before DEF RowOK, Ordered, Earned, Touched, NoneRuns, NoRow

LEMMA DispatchOK ==
    ASSUME NEW mode, NEW st \in [Steps -> StepStatus], NEW d,
           Ordered(mode, st), Earned(st, d)
    PROVE  /\ Ordered(mode, Dispatch(mode, st))
           /\ Earned(Dispatch(mode, st), d)
           /\ \A i \in Steps : Dispatch(mode, st)[i] = "running" <=> st[i] = "running"
           /\ \A i \in Steps : Dispatch(mode, st)[i] = "succeeded" <=> st[i] = "succeeded"
           /\ \A i \in Steps : Dispatch(mode, st)[i] = "failed" <=> st[i] = "failed"
<1>1. \A i \in Steps :
         /\ Dispatch(mode, st)[i] \in Touched <=> st[i] \in Touched
         /\ st[i] \in Touched => Dispatch(mode, st)[i] = st[i]
  BY DEF Dispatch, Touched
<1>2. \A i \in Steps : Dispatch(mode, st)[i] = "succeeded" <=> st[i] = "succeeded"
  BY <1>1 DEF Touched
<1>3. Ordered(mode, Dispatch(mode, st))
  BY <1>1, <1>2, Before DEF Ordered
<1> QED BY <1>1, <1>2, <1>3 DEF Earned, Touched

\* The choice of step k, then the mark on it.
LEMMA StartedOK ==
    ASSUME NEW mode, NEW row \in Row, NEW d, NEW k \in Steps,
           RowOK(mode, row, d), k \in Selectable(mode, Dispatch(mode, row.steps))
    PROVE  /\ RowOK(mode, StartedRow(mode, row, k), d)
           /\ OnlyRuns(StartedRow(mode, row, k).steps, k)
           /\ NoneRuns(row.steps)
           /\ StartedRow(mode, row, k).status = "running"
<1> DEFINE st == Dispatch(mode, row.steps)
           marked == [st EXCEPT ![k] = "running"]
<1>0. row.steps \in [Steps -> StepStatus] /\ st \in [Steps -> StepStatus]
  BY DispatchType DEF Row
<1>1. /\ Ordered(mode, st) /\ Earned(st, d) /\ NoneRuns(st) /\ NoneRuns(row.steps)
  BY <1>0, DispatchOK DEF RowOK, Selectable, NoneRuns
<1>2. marked \in [Steps -> StepStatus]
  BY <1>0 DEF StepStatus
<1>3. OnlyRuns(marked, k)
  BY <1>0, <1>1 DEF OnlyRuns, NoneRuns
<1>4. mode = "auto" => st[k] # "succeeded" /\ \A i \in 1..(k - 1) : st[i] = "succeeded"
  <2> SUFFICES ASSUME mode = "auto"
               PROVE  st[k] # "succeeded" /\ \A i \in 1..(k - 1) : st[i] = "succeeded"
    OBVIOUS
  <2>1. st[k] \in {"ready", "failed"}
    BY DEF Selectable
  <2>2. st[k] = "ready" => \A i \in 1..(k - 1) : row.steps[i] = "succeeded"
    BY <1>0 DEF Dispatch
  <2>3. \A i \in 1..(k - 1) : row.steps[i] = "succeeded" => st[i] = "succeeded"
    BY Before DEF Dispatch
  <2> QED BY <1>1, <2>1, <2>2, <2>3 DEF Ordered, Touched
<1>5. Ordered(mode, marked)
  <2> SUFFICES ASSUME mode = "auto", NEW i \in Steps, marked[i] \in Touched,
                      NEW n \in 1..(i - 1)
               PROVE  marked[n] = "succeeded"
    BY DEF Ordered
  <2>1. n \in Steps /\ n < i
    BY Before
  <2>2. CASE i = k
    BY <1>0, <1>4, <2>1, <2>2 DEF Steps
  <2>3. CASE i # k
    <3>1. st[n] = "succeeded"
      BY <1>0, <1>1, <2>3 DEF Ordered
    <3>2. n # k
      BY <1>4, <3>1
    <3> QED BY <1>0, <2>1, <3>1, <3>2
  <2> QED BY <2>2, <2>3
<1>6. Earned(marked, d)
  BY <1>0, <1>1 DEF Earned
<1>7. /\ Ordered(mode, Dispatch(mode, marked)) /\ Earned(Dispatch(mode, marked), d)
      /\ OnlyRuns(Dispatch(mode, marked), k)
  BY <1>2, <1>3, <1>5, <1>6, DispatchOK DEF OnlyRuns
<1>8. StartedRow(mode, row, k).steps = Dispatch(mode, marked)
      /\ StartedRow(mode, row, k).status = "running"
  BY DEF StartedRow, Row
<1> QED BY <1>1, <1>7, <1>8 DEF RowOK

LEMMA EndedOK ==
    ASSUME NEW mode, NEW row \in Row, NEW d, NEW k \in Steps, NEW ok \in BOOLEAN,
           RowOK(mode, row, d), OnlyRuns(row.steps, k),
           NEW e, d \subseteq e, ok => k \in e
    PROVE  /\ RowOK(mode, EndedRow(mode, row, k, ok), e)
           /\ NoneRuns(EndedRow(mode, row, k, ok).steps)
           /\ EndedRow(mode, row, k, ok).status \in {"succeeded", "failed", "running"}
<1> DEFINE end == IF ok THEN "succeeded" ELSE "failed"
           st == [row.steps EXCEPT ![k] = end]
<1>0. row.steps \in [Steps -> StepStatus] /\ st \in [Steps -> StepStatus]
  BY DEF Row, StepStatus
<1>1. NoneRuns(st)
  BY <1>0 DEF NoneRuns, OnlyRuns
<1>2. Earned(st, e)
  BY <1>0 DEF Earned, RowOK
<1>3. Ordered(mode, st)
  <2> SUFFICES ASSUME mode = "auto", NEW i \in Steps, st[i] \in Touched,
                      NEW n \in 1..(i - 1)
               PROVE  st[n] = "succeeded"
    BY DEF Ordered
  <2>1. n \in Steps /\ n < i /\ row.steps[k] = "running"
    BY Before DEF OnlyRuns
  <2>2. row.steps[i] \in Touched
    BY <1>0, <2>1 DEF Touched
  <2>3. row.steps[n] = "succeeded"
    BY <2>2 DEF RowOK, Ordered
  <2>4. n # k
    BY <2>1, <2>3
  <2> QED BY <1>0, <2>1, <2>3, <2>4
<1>4. /\ Ordered(mode, Dispatch(mode, st)) /\ Earned(Dispatch(mode, st), e)
      /\ NoneRuns(Dispatch(mode, st))
  BY <1>0, <1>1, <1>2, <1>3, DispatchOK DEF NoneRuns
<1>5. /\ EndedRow(mode, row, k, ok).steps = Dispatch(mode, st)
      /\ EndedRow(mode, row, k, ok).status =
           IF ~ok THEN "failed"
           ELSE IF \A i \in Steps : Dispatch(mode, st)[i] = "succeeded"
                THEN "succeeded" ELSE "running"
  BY DEF EndedRow, Row
<1> QED BY <1>4, <1>5 DEF RowOK, Earned

LEMMA CancelledOK ==
    ASSUME NEW mode, NEW st \in [Steps -> StepStatus], NEW d,
           Ordered(mode, st), Earned(st, d)
    PROVE  /\ Ordered(mode, CancelledSteps(mode, st))
           /\ Earned(CancelledSteps(mode, st), d)
           /\ NoneRuns(CancelledSteps(mode, st))
<1> DEFINE cut == [i \in Steps |->
        IF st[i] = "succeeded" THEN "succeeded"
        ELSE IF \A k \in 1..(i - 1) : st[k] = "succeeded" THEN "failed"
             ELSE "locked"]
<1>0. cut \in [Steps -> StepStatus]
  BY DEF StepStatus
<1>1. NoneRuns(cut)
  BY DEF NoneRuns
<1>2. Earned(cut, d)
  BY DEF Earned
<1>3. Ordered(mode, cut)
  BY Before DEF Ordered, Touched
<1> QED BY <1>0, <1>1, <1>2, <1>3, DispatchOK DEF CancelledSteps, NoneRuns

LEMMA SupersededOK ==
    ASSUME NEW mode, NEW row \in Row, NEW d, RowOK(mode, row, d)
    PROVE  /\ RowOK(mode, SupersededRow(row), d)
           /\ \/ SupersededRow(row).steps = row.steps
              \/ NoneRuns(SupersededRow(row).steps)
           /\ SupersededRow(row).status = "none" <=> row.status = "none"
<1>1. CASE row.status \notin Active
  BY <1>1 DEF SupersededRow
<1>2. CASE row.status \in Active
  <2>1. /\ SupersededRow(row).steps = SupersededSteps(row.steps)
        /\ SupersededRow(row).status = "superseded"
    BY <1>2 DEF SupersededRow, Row
  <2>2. \A i \in Steps : SupersededSteps(row.steps)[i] \in Touched =>
                            /\ SupersededSteps(row.steps)[i] = "succeeded"
                            /\ row.steps[i] = "succeeded"
    BY DEF SupersededSteps, Touched
  <2>3. Ordered(mode, SupersededSteps(row.steps))
    BY <2>2, Before DEF Ordered, RowOK, SupersededSteps, Touched
  <2>4. /\ Earned(SupersededSteps(row.steps), d) /\ NoneRuns(SupersededSteps(row.steps))
    BY <2>2 DEF Earned, RowOK, NoneRuns, Touched
  <2> QED BY <1>2, <2>1, <2>3, <2>4 DEF RowOK, Active
<1> QED BY <1>1, <1>2

-----------------------------------------------------------------------------
(* What a session holds.  Whatever it may still write over the table is worth
   as much as what it would overwrite; disp, dn and n stand for dispatch, done
   and last, so that the predicate has no state of its own. *)

DoneOf(dn, j) == {i \in Steps : <<j, i>> \in dn}

AssetOK(a, dn) == a.reg = "active" => \E j \in Jobs : \A i \in Steps : <<j, i>> \in dn

Roles(s, x, n) ==
    /\ s \in Threads /\ x.pc # "idle" => x.op = "run"
    /\ x.op = "run" => s \in Threads /\ x.step \in Steps /\ x.pc # "idle"
    /\ x.pc = "executing" => x.op = "run"
    /\ x.op \in {"run", "cancel", "delete"} => x.job \in Jobs /\ x.job <= n

Copies(x, disp) ==
    /\ x.pc \in {"loaded", "executing"} => x.mine = x.seen /\ x.amine = x.aseen
    /\ x.op \in {"run", "cancel"} =>
         \A j \in Jobs : j # x.job => x.mine[j] = x.seen[j]
    /\ x.op = "run" /\ x.pc = "loaded" =>
         x.step \in Selectable(disp[x.job],
                               Dispatch(disp[x.job], x.seen[x.job].steps))
    /\ x.op = "run" /\ x.pc \in {"executing", "writing"} =>
         OnlyRuns(x.seen[x.job].steps, x.step)
    /\ x.op \in {"run", "cancel"} /\ x.pc = "writing" =>
         NoneRuns(x.mine[x.job].steps)
    /\ \A j \in Jobs : /\ x.mine[j].status = "none" => x.seen[j].status = "none"
                       /\ x.mine[j].attached = x.seen[j].attached

Worth(x, disp, dn, n) ==
    /\ \A j \in Jobs :
         /\ RowOK(disp[j], x.seen[j], DoneOf(dn, j))
         /\ RowOK(disp[j], x.mine[j], DoneOf(dn, j))
         /\ j > n => x.seen[j] = NoRow /\ x.mine[j] = NoRow
    /\ AssetOK(x.aseen, dn) /\ AssetOK(x.amine, dn)

SessionOK(s, x, disp, dn, n) ==
    Roles(s, x, n) /\ Copies(x, disp) /\ Worth(x, disp, dn, n)

TableOK ==
    \A j \in Jobs :
        /\ RowOK(dispatch[j], table[j], DoneOf(done, j))
        /\ table[j].status = "none" => NoneRuns(table[j].steps)
        /\ j > last => table[j] = NoRow

IInv ==
    /\ TypeOK
    /\ TableOK
    /\ AssetOK(asset, done)
    /\ \A s \in Sessions : SessionOK(s, sess[s], dispatch, done, last)
    /\ RunningIsFollowed

LEMMA RowMore ==
    ASSUME NEW mode, NEW row, NEW d, NEW e, RowOK(mode, row, d), d \subseteq e
    PROVE  RowOK(mode, row, e)
BY DEF RowOK, Earned

LEMMA IdleOK ==
    ASSUME NEW s, NEW disp, NEW dn, NEW n PROVE SessionOK(s, Idle, disp, dn, n)
<1>1. Roles(s, Idle, n)
  BY DEF Roles, Idle
<1>2. Copies(Idle, disp)
  BY DEF Copies, Idle
<1>3. Worth(Idle, disp, dn, n)
  BY NoRowOK DEF Worth, Idle, NoAsset, AssetOK
<1> QED BY <1>1, <1>2, <1>3 DEF SessionOK

\* What others do takes nothing from a session: playbooks that end add to what
\* is done, a new job gets an id that the session does not hold.
LEMMA SessionStays ==
    ASSUME NEW s, NEW x \in Session, NEW disp, NEW dn, NEW n \in Nat,
           SessionOK(s, x, disp, dn, n),
           NEW disp2, NEW dn2, NEW n2 \in Nat, dn \subseteq dn2, n <= n2,
           \A j \in Jobs : j <= n => disp2[j] = disp[j]
    PROVE  SessionOK(s, x, disp2, dn2, n2)
<1> USE DEF SessionOK
<1>1. Roles(s, x, n2)
  BY DEF Roles, Jobs
<1>2. Copies(x, disp2)
  <2>1. x.op = "run" => disp2[x.job] = disp[x.job]
    BY DEF Roles
  <2> QED BY <2>1 DEF Copies
<1>3. Worth(x, disp2, dn2, n2)
  <2>1. AssetOK(x.aseen, dn2) /\ AssetOK(x.amine, dn2)
    BY DEF AssetOK, Worth
  <2>2. ASSUME NEW j \in Jobs
        PROVE  /\ RowOK(disp2[j], x.seen[j], DoneOf(dn2, j))
               /\ RowOK(disp2[j], x.mine[j], DoneOf(dn2, j))
               /\ j > n2 => x.seen[j] = NoRow /\ x.mine[j] = NoRow
    <3>1. DoneOf(dn, j) \subseteq DoneOf(dn2, j)
      BY DEF DoneOf
    <3>2. CASE j <= n
      <4>1. disp2[j] = disp[j]
        BY <3>2
      <4>2. RowOK(disp[j], x.seen[j], DoneOf(dn, j)) /\ RowOK(disp[j], x.mine[j], DoneOf(dn, j))
        BY DEF Worth
      <4> QED BY <3>1, <3>2, <4>1, <4>2, RowMore DEF Jobs
    <3>3. CASE ~(j <= n)
      <4>1. x.seen[j] = NoRow /\ x.mine[j] = NoRow
        BY <3>3, ProvisioningAssumption DEF Worth, Jobs
      <4> QED BY <4>1, NoRowOK
    <3> QED BY <3>2, <3>3
  <2> QED BY <2>1, <2>2 DEF Worth
<1> QED BY <1>1, <1>2, <1>3

\* A session that has just read rows holds what the table holds.
LEMMA LoadedOK ==
    ASSUME IInv, NEW js
    PROVE  \A op, j, k : Worth(Loaded(op, j, k, js), dispatch, done, last)
<1> SUFFICES ASSUME NEW op, NEW j, NEW k
             PROVE  Worth(Loaded(op, j, k, js), dispatch, done, last)
  OBVIOUS
<1> DEFINE rows == [i \in Jobs |-> IF i \in js THEN table[i] ELSE NoRow]
<1>1. /\ Loaded(op, j, k, js).seen = rows /\ Loaded(op, j, k, js).mine = rows
      /\ Loaded(op, j, k, js).aseen = asset /\ Loaded(op, j, k, js).amine = asset
  BY DEF Loaded
<1>2. ASSUME NEW i \in Jobs
      PROVE  /\ RowOK(dispatch[i], rows[i], DoneOf(done, i))
             /\ i > last => rows[i] = NoRow
  BY NoRowOK DEF IInv, TableOK
<1> QED BY <1>1, <1>2 DEF Worth, IInv

LEMMA FlushedOK ==
    ASSUME TypeOK, TableOK, NEW seen, NEW mine \in [Jobs -> Row], NEW j \in Jobs,
           RowOK(dispatch[j], mine[j], DoneOf(done, j)),
           j > last => mine[j] = NoRow,
           mine[j].status = "none" => seen[j].status = "none",
           \/ NoneRuns(mine[j].steps)
           \/ mine[j].steps = seen[j].steps
           \/ Exists(j) /\ mine[j].status # "none"
    PROVE  /\ RowOK(dispatch[j], Flushed(seen, mine)[j], DoneOf(done, j))
           /\ Flushed(seen, mine)[j].status = "none" =>
                NoneRuns(Flushed(seen, mine)[j].steps)
           /\ j > last => Flushed(seen, mine)[j] = NoRow
<1> DEFINE row == Flushed(seen, mine)[j]
<1>1. /\ row.status \in {mine[j].status, table[j].status}
      /\ row.steps \in {mine[j].steps, table[j].steps}
      /\ row.attached \in {mine[j].attached, table[j].attached}
      /\ row = [status |-> row.status, attached |-> row.attached, steps |-> row.steps]
  BY DEF Flushed
<1>2. RowOK(dispatch[j], row, DoneOf(done, j))
  BY <1>1 DEF RowOK, TableOK
<1>3. row.status = "none" => NoneRuns(row.steps)
  <2>1. \/ row.steps = mine[j].steps /\ mine[j].steps # seen[j].steps
        \/ row.steps = table[j].steps
    BY DEF Flushed
  <2>2. row.status = "none" => table[j].status = "none"
    BY DEF Flushed
  <2>3. row.status = "none" => mine[j].status = "none" \/ table[j].status = "none"
    BY DEF Flushed
  <2> QED BY <2>1, <2>2, <2>3 DEF TableOK, Exists
<1>4. j > last => row = NoRow
  BY <1>1 DEF TableOK, NoRow
<1> QED BY <1>2, <1>3, <1>4

-----------------------------------------------------------------------------
(* The invariant, step by step *)

Follows(x, j, i) ==
    x.pc \in {"executing", "writing"} /\ x.job = j /\ x.step = i

LEMMA SessionsStay ==
    ASSUME IInv, TypeOK', NEW s \in Sessions, NEW x,
           sess' = [sess EXCEPT ![s] = x],
           SessionOK(s, x, dispatch', done', last'),
           done \subseteq done', last <= last',
           \A j \in Jobs : j <= last => dispatch'[j] = dispatch[j]
    PROVE  \A u \in Sessions : SessionOK(u, sess'[u], dispatch', done', last')
<1> SUFFICES ASSUME NEW u \in Sessions
             PROVE  SessionOK(u, sess'[u], dispatch', done', last')
  OBVIOUS
<1>1. last \in Nat /\ last' \in Nat /\ sess[u] \in Session
  BY ProvisioningAssumption DEF IInv, TypeOK
<1>2. CASE u = s
  BY <1>2 DEF IInv, TypeOK
<1>3. CASE u # s
  <2>1. sess'[u] = sess[u] /\ SessionOK(u, sess[u], dispatch, done, last)
    BY <1>3 DEF IInv, TypeOK
  <2> QED BY <1>1, <2>1, SessionStays
<1> QED BY <1>2, <1>3

\* What is shown as running was so before, and the session that moves followed
\* nothing, or still does, or what it followed is settled.
LEMMA FollowedStays ==
    ASSUME IInv, NEW s \in Sessions, NEW x, sess' = [sess EXCEPT ![s] = x],
           stranded \subseteq stranded',
           \A j \in Jobs, i \in Steps : Shown(table'[j], i) =>
               \/ Shown(table[j], i) /\ ~(s \in Threads /\ Follows(sess[s], j, i))
               \/ s \in Threads /\ Follows(x, j, i)
               \/ j \in stranded'
    PROVE  RunningIsFollowed'
<1> SUFFICES ASSUME NEW j \in Jobs, NEW i \in Steps, Shown(table'[j], i)
             PROVE  \/ j \in stranded'
                    \/ \E t \in Threads : Follows(sess'[t], j, i)
  BY DEF RunningIsFollowed, Follows, Shown
<1>0. sess'[s] = x /\ \A u \in Sessions : u # s => sess'[u] = sess[u]
  BY DEF IInv, TypeOK
<1>1. CASE j \in stranded'
  BY <1>1
<1>2. CASE s \in Threads /\ Follows(x, j, i)
  BY <1>0, <1>2
<1>3. CASE Shown(table[j], i) /\ ~(s \in Threads /\ Follows(sess[s], j, i))
  <2>1. CASE j \in stranded
    BY <2>1
  <2>2. CASE \E t \in Threads : Follows(sess[t], j, i)
    <3>1. PICK t \in Threads : Follows(sess[t], j, i)
      BY <2>2
    <3>2. t # s /\ t \in Sessions
      BY <1>3, <3>1 DEF Sessions
    <3>3. Follows(sess'[t], j, i)
      BY <1>0, <3>1, <3>2
    <3> QED BY <3>3
  <2>3. j \in stranded \/ \E t \in Threads : Follows(sess[t], j, i)
    BY <1>3 DEF IInv, RunningIsFollowed, Follows, Shown
  <2> QED BY <2>1, <2>2, <2>3
<1> QED BY <1>1, <1>2, <1>3

\* A session that moves on without writing to the tables.
LEMMA MoveOK ==
    ASSUME IInv, NEW s \in Sessions, NEW x \in Session,
           sess' = [sess EXCEPT ![s] = x],
           SessionOK(s, x, dispatch, done', last),
           UNCHANGED <<table, dispatch, asset, last>>,
           runs' \in 0..MaxRuns, done \subseteq done', done' \subseteq Jobs \X Steps,
           stranded \subseteq stranded', stranded' \subseteq Jobs,
           \/ sess[s].pc \notin {"executing", "writing"}
           \/ s = Loop
           \/ sess[s].job \in stranded'
           \/ x.pc \in {"executing", "writing"} /\ x.job = sess[s].job
              /\ x.step = sess[s].step
           \/ \A i \in Steps : table[sess[s].job].steps[i] # "running"
    PROVE  IInv'
<1>1. TypeOK'
  BY DEF IInv, TypeOK
<1>2. TableOK'
  <2>1. ASSUME NEW j \in Jobs PROVE RowOK(dispatch[j], table[j], DoneOf(done', j))
    <3>1. DoneOf(done, j) \subseteq DoneOf(done', j)
      BY DEF DoneOf
    <3>2. RowOK(dispatch[j], table[j], DoneOf(done, j))
      BY DEF IInv, TableOK
    <3> QED BY <3>1, <3>2, RowMore
  <2> QED BY <2>1 DEF IInv, TableOK
<1>3. AssetOK(asset', done')
  BY DEF IInv, AssetOK
<1>4. \A u \in Sessions : SessionOK(u, sess'[u], dispatch', done', last')
  <2>1. last <= last'
    BY ProvisioningAssumption DEF IInv, TypeOK
  <2> QED BY <1>1, <2>1, SessionsStay
<1>5. RunningIsFollowed'
  <2> SUFFICES ASSUME NEW j \in Jobs, NEW i \in Steps, Shown(table[j], i),
                      s \in Threads, Follows(sess[s], j, i),
                      j \notin stranded'
               PROVE  Follows(x, j, i)
    BY FollowedStays
  <2> QED BY ProvisioningAssumption DEF Follows, Shown
<1> QED BY <1>1, <1>2, <1>3, <1>4, <1>5 DEF IInv

LEMMA InitOK == Init => IInv
<1> SUFFICES ASSUME Init PROVE IInv
  OBVIOUS
<1>1. TypeOK
  BY TypeInit
<1>2. TableOK
  BY NoRowOK DEF Init, TableOK
<1>3. AssetOK(asset, done)
  BY DEF Init, AssetOK
<1>4. \A s \in Sessions : SessionOK(s, sess[s], dispatch, done, last)
  BY IdleOK DEF Init
<1>5. RunningIsFollowed
  BY NoRowOK DEF Init, RunningIsFollowed, NoneRuns
<1> QED BY <1>1, <1>2, <1>3, <1>4, <1>5 DEF IInv

\* Reading rows: nothing is written, and the choice of a step is kept.
LEMMA LoadOK ==
    ASSUME IInv, NEW s \in Sessions, sess[s].pc = "idle",
           NEW op \in {"run", "cancel", "delete", "prepare", "register", "drop"},
           NEW j \in Jobs \cup {0}, NEW k \in Steps \cup {0}, NEW js,
           NEW mode \in Modes,
           sess' = [sess EXCEPT ![s] = [Loaded(op, j, k, js) EXCEPT !.mode = mode]],
           Roles(s, Loaded(op, j, k, js), last),
           op = "run" => /\ j \in js
                         /\ k \in Selectable(dispatch[j], Dispatch(dispatch[j], table[j].steps)),
           UNCHANGED <<table, dispatch, asset, last, done, stranded>>,
           runs' \in 0..MaxRuns
    PROVE  IInv'
<1> DEFINE y == Loaded(op, j, k, js)
           x == [y EXCEPT !.mode = mode]
<1>1. y \in Session
  BY LoadedType DEF IInv
<1>2. /\ x \in Session
      /\ x.pc = y.pc /\ x.op = y.op /\ x.job = y.job /\ x.step = y.step
      /\ x.seen = y.seen /\ x.mine = y.mine
      /\ x.aseen = y.aseen /\ x.amine = y.amine
  BY <1>1 DEF Session
<1>3. Roles(s, x, last)
  BY <1>2 DEF Roles
<1>4. Worth(x, dispatch, done, last)
  <2>1. Worth(y, dispatch, done, last)
    BY LoadedOK
  <2> QED BY <1>2, <2>1 DEF Worth
<1>5. Copies(x, dispatch)
  <2>1. /\ x.mine = x.seen /\ x.amine = x.aseen /\ x.pc = "loaded"
        /\ x.op = op /\ x.job = j /\ x.step = k
    BY <1>2 DEF Loaded
  <2>2. op = "run" => x.seen[j] = table[j]
    BY <1>2 DEF Loaded, Roles
  <2> QED BY <2>1, <2>2 DEF Copies
<1>6. SessionOK(s, x, dispatch, done, last)
  BY <1>3, <1>4, <1>5 DEF SessionOK
<1> QED BY <1>2, <1>6, MoveOK DEF IInv, TypeOK

LEMMA RunLoadOK ==
    ASSUME IInv, NEW t \in Threads, NEW j \in Jobs, NEW k \in Steps, RunLoad(t, j, k)
    PROVE  IInv'
<1>1. j <= last
  <2>1. table[j].status # "none"
    BY DEF RunLoad, Runnable
  <2> QED BY <2>1, ProvisioningAssumption DEF IInv, TableOK, TypeOK, NoRow, Jobs
<1>2. Loaded("run", j, k, {j}) = [Loaded("run", j, k, {j}) EXCEPT !.mode = "auto"]
  BY DEF Loaded
<1>3. Roles(t, Loaded("run", j, k, {j}), last)
  BY <1>1 DEF Roles, Loaded
<1>4. runs' \in 0..MaxRuns
  BY ProvisioningAssumption DEF RunLoad, IInv, TypeOK
<1>5. t \in Sessions
  BY DEF Sessions
<1> QED BY <1>2, <1>3, <1>4, <1>5, LoadOK, ProvisioningAssumption DEF RunLoad

\* The loads of the event loop.
LEMMA LoopLoadOK ==
    ASSUME IInv,
           \/ \E j \in Jobs : CancelLoad(j) \/ DeleteLoad(j)
           \/ \E mode \in Modes : PrepareLoad(mode)
           \/ RegisterLoad \/ DropLoad
    PROVE  IInv'
<1>0. Loop \in Sessions /\ Loop \notin Threads
  BY ProvisioningAssumption DEF Sessions
<1>1. runs' = runs => runs' \in 0..MaxRuns
  BY DEF IInv, TypeOK
<1>2. ASSUME NEW op \in {"cancel", "delete"}, NEW j \in Jobs, Exists(j),
             Begin(Loaded(op, j, 0, {j}))
      PROVE  IInv'
  <2>1. j <= last
    BY <1>2, ProvisioningAssumption DEF Exists, IInv, TableOK, TypeOK, NoRow, Jobs
  <2>2. Roles(Loop, Loaded(op, j, 0, {j}), last)
    BY <1>0, <2>1 DEF Roles, Loaded
  <2>3. Loaded(op, j, 0, {j}) = [Loaded(op, j, 0, {j}) EXCEPT !.mode = "auto"]
    BY DEF Loaded
  <2> QED BY <1>0, <1>1, <1>2, <2>2, <2>3, LoadOK, ProvisioningAssumption DEF Begin, LoopIdle
<1>3. ASSUME NEW op \in {"prepare", "register", "drop"}, NEW mode \in Modes, NEW js,
             Begin([Loaded(op, 0, 0, js) EXCEPT !.mode = mode])
      PROVE  IInv'
  <2>1. Roles(Loop, Loaded(op, 0, 0, js), last)
    BY <1>0 DEF Roles, Loaded
  <2> QED BY <1>0, <1>1, <1>3, <2>1, LoadOK DEF Begin, LoopIdle
<1>4. \A op, js : Loaded(op, 0, 0, js) = [Loaded(op, 0, 0, js) EXCEPT !.mode = "auto"]
  BY DEF Loaded
<1>5. ASSUME NEW j \in Jobs, CancelLoad(j) \/ DeleteLoad(j) PROVE IInv'
  BY <1>2, <1>5 DEF CancelLoad, DeleteLoad
<1>6. ASSUME NEW mode \in Modes, PrepareLoad(mode) PROVE IInv'
  BY <1>3, <1>6 DEF PrepareLoad
<1>7. CASE RegisterLoad \/ DropLoad
  <2>1. "auto" \in Modes
    BY ProvisioningAssumption
  <2>2. CASE RegisterLoad
    BY <1>3, <1>4, <2>1, <2>2 DEF RegisterLoad
  <2>3. CASE DropLoad
    BY <1>3, <1>4, <2>1, <2>3 DEF DropLoad
  <2> QED BY <1>7, <2>2, <2>3
<1> QED BY <1>5, <1>6, <1>7

\* A refresh says "active" only for a job that is in order.
LEMMA RegistrationOK ==
    ASSUME IInv, NEW statuses, NEW site, NEW dn, done \subseteq dn,
           NEW j \in Jobs, NEW own,
           own = "succeeded" => \A i \in Steps : <<j, i>> \in dn,
           statuses \subseteq {own} \cup {table[i].status : i \in Jobs},
           Registration(statuses, site) = "active"
    PROVE  \E i \in Jobs : \A k \in Steps : <<i, k>> \in dn
<1>1. "succeeded" \in statuses
  BY DEF Registration
<1>2. CASE own = "succeeded"
  BY <1>2
<1>3. CASE \E i \in Jobs : table[i].status = "succeeded"
  <2>1. PICK i \in Jobs : table[i].status = "succeeded"
    BY <1>3
  <2>2. \A k \in Steps : <<i, k>> \in done
    BY <2>1 DEF IInv, TableOK, RowOK, DoneOf
  <2> QED BY <2>2
<1> QED BY <1>1, <1>2, <1>3

LEMMA RefreshedOK ==
    ASSUME IInv, NEW s \in Sessions, NEW j \in Jobs, NEW own, NEW dn, done \subseteq dn,
           own = "succeeded" => \A i \in Steps : <<j, i>> \in dn
    PROVE  AssetOK(Refreshed(s, j, own), dn)
<1>1. AssetOK(sess[s].amine, dn)
  BY DEF IInv, SessionOK, Worth, AssetOK
<1>2. CASE ~sess[s].seen[j].attached
  BY <1>1, <1>2 DEF Refreshed
<1>3. CASE sess[s].seen[j].attached
  <2> DEFINE reg == Registration(StatusesFor(j, own), sess[s].aseen.site)
  <2>1. Refreshed(s, j, own).reg = reg
    BY <1>3 DEF Refreshed, IInv, TypeOK, Session, Asset
  <2>2. StatusesFor(j, own) \subseteq {own} \cup {table[i].status : i \in Jobs}
    BY DEF StatusesFor, JobsOfAsset
  <2>3. reg = "active" => \E i \in Jobs : \A k \in Steps : <<i, k>> \in dn
    BY <2>2, RegistrationOK
  <2> QED BY <2>1, <2>3 DEF AssetOK
<1> QED BY <1>2, <1>3

\* A session about to write one row.
LEMMA WritingOK ==
    ASSUME NEW x \in Session, NEW row, NEW disp, NEW dn, NEW n \in Nat,
           x.pc = "writing", x.op \in {"run", "cancel"},
           x.job \in Jobs, x.job <= n,
           x.mine = [x.seen EXCEPT ![x.job] = row],
           x.op = "run" => OnlyRuns(x.seen[x.job].steps, x.step),
           NoneRuns(row.steps), row.status # "none",
           row.attached = x.seen[x.job].attached,
           RowOK(disp[x.job], row, DoneOf(dn, x.job)),
           \A i \in Jobs : /\ RowOK(disp[i], x.seen[i], DoneOf(dn, i))
                           /\ i > n => x.seen[i] = NoRow,
           AssetOK(x.aseen, dn), AssetOK(x.amine, dn)
    PROVE  Copies(x, disp) /\ Worth(x, disp, dn, n)
<1>1. /\ x.seen \in [Jobs -> Row] /\ x.mine[x.job] = row
      /\ \A i \in Jobs : i # x.job => x.mine[i] = x.seen[i]
  BY DEF Session
<1>2. Copies(x, disp)
  BY <1>1 DEF Copies
<1>3. ASSUME NEW i \in Jobs
      PROVE  /\ RowOK(disp[i], x.seen[i], DoneOf(dn, i))
             /\ RowOK(disp[i], x.mine[i], DoneOf(dn, i))
             /\ i > n => x.seen[i] = NoRow /\ x.mine[i] = NoRow
  <2>1. CASE i = x.job
    BY <1>1, <2>1 DEF Jobs
  <2>2. CASE i # x.job
    BY <1>1, <2>2
  <2> QED BY <2>1, <2>2
<1> QED BY <1>2, <1>3 DEF Worth

LEMMA RunFinishOK ==
    ASSUME IInv, NEW t \in Threads, NEW ok \in BOOLEAN, RunFinish(t, ok)
    PROVE  IInv'
<1> DEFINE s == sess[t]
           j == s.job
           row == EndedRow(dispatch[j], s.seen[j], s.step, ok)
           asset2 == Refreshed(t, j, row.status)
           x == [s EXCEPT !.pc = "writing", !.mine[j] = row, !.amine = asset2]
<1>0. /\ t \in Sessions /\ s \in Session /\ s.pc = "executing" /\ s.op = "run"
      /\ j \in Jobs /\ j <= last /\ s.step \in Steps
      /\ s.seen \in [Jobs -> Row] /\ s.mine = s.seen
      /\ OnlyRuns(s.seen[j].steps, s.step)
      /\ RowOK(dispatch[j], s.seen[j], DoneOf(done, j))
  BY DEF IInv, TypeOK, Session, Sessions, RunFinish, SessionOK, Roles, Copies, Worth
<1>1. sess' = [sess EXCEPT ![t] = x]
  BY <1>0 DEF RunFinish, IInv, TypeOK, Session
<1>2. /\ RowOK(dispatch[j], row, DoneOf(done', j)) /\ NoneRuns(row.steps)
      /\ row.status \in {"succeeded", "failed", "running"}
  <2>1. DoneOf(done, j) \subseteq DoneOf(done', j)
    BY DEF DoneOf, RunFinish
  <2>2. ok => s.step \in DoneOf(done', j)
    BY <1>0 DEF DoneOf, RunFinish
  <2>3. s.seen[j] \in Row
    BY <1>0
  <2> QED BY <1>0, <2>1, <2>2, <2>3, EndedOK
<1>3. row \in Row /\ asset2 \in Asset
  <2>1. s.seen[j] \in Row
    BY <1>0
  <2> QED BY <1>0, <2>1, EndedRowType, RefreshedType DEF IInv
<1>4. AssetOK(asset2, done')
  <2>1. row.status = "succeeded" => \A i \in Steps : <<j, i>> \in done'
    BY <1>2 DEF RowOK, DoneOf
  <2>2. done \subseteq done'
    BY DEF RunFinish
  <2> QED BY <1>0, <2>1, <2>2, RefreshedOK
<1>5. x \in Session
  BY <1>0, <1>3 DEF Session
<1>6. /\ x.pc = "writing" /\ x.op = "run" /\ x.job = j /\ x.step = s.step
      /\ x.seen = s.seen /\ x.mine = [s.mine EXCEPT ![j] = row]
      /\ x.aseen = s.aseen /\ x.amine = asset2
  BY <1>0 DEF Session
<1>7. Roles(t, x, last)
  BY <1>0, <1>6 DEF Roles
<1>8. ASSUME NEW i \in Jobs
      PROVE  /\ RowOK(dispatch[i], x.seen[i], DoneOf(done', i))
             /\ i > last => x.seen[i] = NoRow
  <2>1. DoneOf(done, i) \subseteq DoneOf(done', i)
    BY DEF DoneOf, RunFinish
  <2>2. RowOK(dispatch[i], s.seen[i], DoneOf(done, i)) /\ (i > last => s.seen[i] = NoRow)
    BY <1>0 DEF IInv, SessionOK, Worth
  <2> QED BY <1>6, <2>1, <2>2, RowMore
<1>9. Copies(x, dispatch) /\ Worth(x, dispatch, done', last)
  <2>1. AssetOK(x.aseen, done')
    BY <1>0, <1>6 DEF IInv, SessionOK, Worth, AssetOK, RunFinish
  <2>2. last \in Nat /\ row.status # "none"
    BY <1>2, ProvisioningAssumption DEF IInv, TypeOK
  <2>3. row.attached = s.seen[j].attached
    BY <1>0 DEF EndedRow, Row
  <2> QED BY <1>0, <1>2, <1>4, <1>5, <1>6, <1>8, <2>1, <2>2, <2>3, WritingOK
<1>10. SessionOK(t, x, dispatch, done', last)
  BY <1>7, <1>9 DEF SessionOK
<1>11. done' \subseteq Jobs \X Steps /\ done \subseteq done' /\ runs' \in 0..MaxRuns
       /\ stranded' = stranded
  BY <1>0 DEF RunFinish, IInv, TypeOK
<1> QED BY <1>0, <1>1, <1>5, <1>6, <1>10, <1>11, MoveOK DEF RunFinish, IInv, TypeOK

LEMMA CancelRefreshOK == ASSUME IInv, CancelRefresh PROVE IInv'
<1> DEFINE s == sess[Loop]
           j == s.job
           steps == CancelledSteps(dispatch[j], s.seen[j].steps)
           row == [s.seen[j] EXCEPT !.status = "cancelled", !.steps = steps]
           asset2 == Refreshed(Loop, j, "cancelled")
           x == [s EXCEPT !.pc = "writing", !.mine[j] = row, !.amine = asset2]
<1>0. /\ Loop \in Sessions /\ s \in Session /\ s.pc = "loaded" /\ s.op = "cancel"
      /\ j \in Jobs /\ j <= last
      /\ s.seen \in [Jobs -> Row] /\ s.mine = s.seen
      /\ RowOK(dispatch[j], s.seen[j], DoneOf(done, j))
  BY DEF IInv, TypeOK, Session, Sessions, CancelRefresh, SessionOK, Roles, Copies, Worth
<1>1. sess' = [sess EXCEPT ![Loop] = x]
  BY <1>0 DEF CancelRefresh, IInv, TypeOK, Session
<1>2. steps \in [Steps -> StepStatus] /\ Ordered(dispatch[j], steps)
      /\ Earned(steps, DoneOf(done, j)) /\ NoneRuns(steps)
  <2>1. s.seen[j].steps \in [Steps -> StepStatus]
    BY <1>0 DEF Row
  <2> QED BY <1>0, <2>1, CancelledOK, CancelledStepsType DEF RowOK
<1>3. /\ row \in Row /\ row.status = "cancelled" /\ row.steps = steps
      /\ row.attached = s.seen[j].attached
  BY <1>0, <1>2 DEF Row, JobStatus
<1>4. asset2 \in Asset /\ AssetOK(asset2, done)
  BY <1>0, RefreshedType, RefreshedOK DEF IInv
<1>5. x \in Session
  BY <1>0, <1>3, <1>4 DEF Session
<1>6. /\ x.pc = "writing" /\ x.op = "cancel" /\ x.job = j
      /\ x.seen = s.seen /\ x.mine = [s.mine EXCEPT ![j] = row]
      /\ x.aseen = s.aseen /\ x.amine = asset2
  BY <1>0 DEF Session
<1>7. Roles(Loop, x, last)
  BY <1>0, <1>6, ProvisioningAssumption DEF Roles
<1>8. ASSUME NEW i \in Jobs
      PROVE  /\ RowOK(dispatch[i], x.seen[i], DoneOf(done, i))
             /\ i > last => x.seen[i] = NoRow
  BY <1>0, <1>6 DEF IInv, SessionOK, Worth
<1>9. Copies(x, dispatch) /\ Worth(x, dispatch, done, last)
  <2>1. AssetOK(x.aseen, done)
    BY <1>0, <1>6 DEF IInv, SessionOK, Worth
  <2>2. last \in Nat /\ row.status # "none" /\ x.op # "run"
    BY <1>3, <1>6, ProvisioningAssumption DEF IInv, TypeOK
  <2>3. RowOK(dispatch[j], row, DoneOf(done, j))
    BY <1>2, <1>3 DEF RowOK
  <2>4. /\ x.pc = "writing" /\ x.op \in {"run", "cancel"} /\ x.job \in Jobs /\ x.job <= last
        /\ x.mine = [x.seen EXCEPT ![x.job] = row] /\ NoneRuns(row.steps)
        /\ row.attached = x.seen[x.job].attached
        /\ RowOK(dispatch[x.job], row, DoneOf(done, x.job)) /\ AssetOK(x.amine, done)
    BY <1>0, <1>2, <1>3, <1>4, <1>6, <2>3
  <2> HIDE DEF x, row
  <2> QED BY <1>5, <1>8, <2>1, <2>2, <2>4, WritingOK
<1>10. SessionOK(Loop, x, dispatch, done, last)
  BY <1>7, <1>9 DEF SessionOK
<1> QED BY <1>0, <1>1, <1>5, <1>10, MoveOK DEF CancelRefresh, IInv, TypeOK

LEMMA DeleteRefreshOK == ASSUME IInv, DeleteRefresh PROVE IInv'
<1> DEFINE s == sess[Loop]
           left == {table[i].status : i \in JobsOfAsset \ {s.job}}
           reg == IF s.seen[s.job].attached /\ s.seen[s.job].status # "succeeded"
                  THEN Registration(left, s.aseen.site) ELSE s.aseen.reg
           x == [s EXCEPT !.pc = "writing", !.amine.reg = reg]
<1>0. /\ Loop \in Sessions /\ s \in Session /\ s.pc = "loaded" /\ s.op = "delete"
      /\ s.job \in Jobs /\ s.mine = s.seen /\ s.amine = s.aseen /\ s.aseen \in Asset
      /\ SessionOK(Loop, s, dispatch, done, last)
  BY DEF IInv, TypeOK, Session, Sessions, DeleteRefresh, SessionOK, Roles, Copies
<1>1. sess' = [sess EXCEPT ![Loop] = x]
  BY <1>0 DEF DeleteRefresh, IInv, TypeOK, Session
<1>2. reg \in Registrations
  BY <1>0, RegistrationType DEF Asset
<1>3. reg = "active" => \E i \in Jobs : \A k \in Steps : <<i, k>> \in done
  <2>1. ASSUME Registration(left, s.aseen.site) = "active"
        PROVE  \E i \in Jobs : \A k \in Steps : <<i, k>> \in done
    <3>1. "succeeded" \in left
      BY <2>1 DEF Registration
    <3>2. PICK i \in JobsOfAsset : table[i].status = "succeeded"
      BY <3>1
    <3>3. i \in Jobs /\ \A k \in Steps : <<i, k>> \in done
      BY <3>2 DEF JobsOfAsset, IInv, TableOK, RowOK, DoneOf
    <3> QED BY <3>3
  <2>3. s.aseen.reg = "active" => \E i \in Jobs : \A k \in Steps : <<i, k>> \in done
    BY <1>0 DEF SessionOK, Worth, AssetOK
  <2> QED BY <2>1, <2>3
<1>4. /\ x.pc = "writing" /\ x.op = "delete" /\ x.job = s.job
      /\ x.seen = s.seen /\ x.mine = s.mine
      /\ x.aseen = s.aseen /\ x.amine = [s.amine EXCEPT !.reg = reg]
  BY <1>0 DEF Session
<1>5. x.amine \in Asset /\ x.amine.reg = reg
  BY <1>0, <1>2, <1>4 DEF Asset
<1>6. x \in Session
  BY <1>0, <1>4, <1>5 DEF Session
<1>7. SessionOK(Loop, x, dispatch, done, last)
  <2>1. Roles(Loop, x, last)
    BY <1>0, <1>4, ProvisioningAssumption DEF SessionOK, Roles
  <2>2. Copies(x, dispatch)
    BY <1>0, <1>4 DEF SessionOK, Copies
  <2>3. Worth(x, dispatch, done, last)
    BY <1>0, <1>3, <1>4, <1>5 DEF SessionOK, Worth, AssetOK
  <2> QED BY <2>1, <2>2, <2>3 DEF SessionOK
<1> QED BY <1>0, <1>1, <1>6, <1>7, MoveOK DEF DeleteRefresh, IInv, TypeOK

\* A session that ends, having written or not.
LEMMA CloseOK ==
    ASSUME IInv, NEW s \in Sessions, Close(s),
           table' \in [Jobs -> Row], dispatch' \in [Jobs -> Modes], asset' \in Asset,
           last' \in 0..MaxJobs, last <= last',
           \A j \in Jobs : j <= last => dispatch'[j] = dispatch[j],
           runs' = runs, done' = done, stranded \subseteq stranded', stranded' \subseteq Jobs,
           TableOK', AssetOK(asset', done),
           \A j \in Jobs, i \in Steps : Shown(table'[j], i) =>
               \/ Shown(table[j], i) /\ ~(s \in Threads /\ Follows(sess[s], j, i))
               \/ j \in stranded'
    PROVE  IInv'
<1>1. TypeOK'
  BY IdleType DEF Close, IInv, TypeOK
<1>2. \A u \in Sessions : SessionOK(u, sess'[u], dispatch', done', last')
  BY <1>1, IdleOK, SessionsStay DEF Close
<1>3. RunningIsFollowed'
  BY FollowedStays DEF Close
<1> QED BY <1>1, <1>2, <1>3 DEF IInv

\* What a flush leaves running was running in the table or is in the copy; no
\* session that flushes attaches or detaches a job.
LEMMA FlushedSteps ==
    ASSUME NEW seen, NEW mine, NEW j \in Jobs, mine[j].attached = seen[j].attached
    PROVE  /\ Flushed(seen, mine)[j].attached = table[j].attached
           /\ \/ Flushed(seen, mine)[j].steps = mine[j].steps
                 /\ mine[j].steps # seen[j].steps
              \/ Flushed(seen, mine)[j].steps = table[j].steps
                 /\ mine[j].steps = seen[j].steps
BY DEF Flushed

LEMMA FlushedTable ==
    ASSUME IInv, NEW seen, NEW mine \in [Jobs -> Row],
           \A j \in Jobs :
               /\ RowOK(dispatch[j], mine[j], DoneOf(done, j))
               /\ j > last => mine[j] = NoRow
               /\ mine[j].status = "none" => seen[j].status = "none"
               /\ \/ NoneRuns(mine[j].steps)
                  \/ mine[j].steps = seen[j].steps
                  \/ Exists(j) /\ mine[j].status # "none",
           table' = Flushed(seen, mine), UNCHANGED <<dispatch, done, last>>
    PROVE  table' \in [Jobs -> Row] /\ TableOK'
<1>1. table' \in [Jobs -> Row]
  BY FlushedType DEF IInv
<1>2. ASSUME NEW j \in Jobs
      PROVE  /\ RowOK(dispatch[j], Flushed(seen, mine)[j], DoneOf(done, j))
             /\ Flushed(seen, mine)[j].status = "none" =>
                  NoneRuns(Flushed(seen, mine)[j].steps)
             /\ j > last => Flushed(seen, mine)[j] = NoRow
  BY FlushedOK DEF IInv
<1> QED BY <1>1, <1>2 DEF TableOK

LEMMA FlushedAssetOK ==
    ASSUME IInv, NEW aseen, NEW amine \in Asset, AssetOK(amine, done)
    PROVE  FlushedAsset(aseen, amine) \in Asset /\ AssetOK(FlushedAsset(aseen, amine), done)
BY FlushedAssetType DEF IInv, AssetOK, FlushedAsset

\* Nothing written: what the session followed is settled, or it followed nothing.
LEMMA AbandonOK ==
    ASSUME IInv, NEW s \in Sessions, Close(s),
           UNCHANGED <<table, dispatch, asset, last, runs, done>>,
           stranded \subseteq stranded', stranded' \subseteq Jobs,
           \/ sess[s].pc \notin {"executing", "writing"}
           \/ sess[s].job \in stranded'
           \/ NoneRuns(table[sess[s].job].steps)
    PROVE  IInv'
<1>1. Idle \in Session /\ SessionOK(s, Idle, dispatch, done', last)
  BY IdleType, IdleOK
<1>2. runs' \in 0..MaxRuns /\ done' \subseteq Jobs \X Steps /\ done \subseteq done'
  BY DEF IInv, TypeOK
<1> QED BY <1>1, <1>2, MoveOK DEF Close, NoneRuns

LEMMA RunGivenUpOK ==
    ASSUME IInv, NEW t \in Threads, RunRefused(t) \/ RunFlush(t)
    PROVE  IInv'
<1>1. t \in Sessions /\ sess[t].pc = "executing" /\ sess[t].job \in Jobs
  BY DEF Sessions, RunRefused, RunFlush, IInv, SessionOK, Roles
<1>2. stranded \subseteq Jobs
  BY DEF IInv, TypeOK
<1>3. CASE RunRefused(t)
  BY <1>1, <1>2, <1>3, AbandonOK DEF RunRefused
<1>4. CASE RunFlush(t)
  <2>1. NoneRuns(table[sess[t].job].steps)
    BY <1>1, <1>4 DEF RunFlush, Exists, IInv, TableOK
  <2> QED BY <1>1, <1>2, <1>4, <2>1, AbandonOK DEF RunFlush
<1> QED BY <1>3, <1>4

LEMMA RunStartOK == ASSUME IInv, NEW t \in Threads, RunStart(t) PROVE IInv'
<1> DEFINE s == sess[t]
           j == s.job
           row == StartedRow(dispatch[j], s.seen[j], s.step)
           mine == [s.mine EXCEPT ![j] = row]
           x == [s EXCEPT !.pc = "executing", !.seen = mine, !.mine = mine]
<1>0. /\ t \in Sessions /\ s \in Session /\ s.pc = "loaded" /\ s.op = "run"
      /\ j \in Jobs /\ j <= last /\ s.step \in Steps
      /\ s.seen \in [Jobs -> Row] /\ s.mine = s.seen /\ s.amine = s.aseen
      /\ s.step \in Selectable(dispatch[j], Dispatch(dispatch[j], s.seen[j].steps))
      /\ \A i \in Jobs : /\ RowOK(dispatch[i], s.seen[i], DoneOf(done, i))
                         /\ i > last => s.seen[i] = NoRow
      /\ AssetOK(s.aseen, done) /\ last \in Nat
  BY ProvisioningAssumption
     DEF IInv, TypeOK, Session, Sessions, RunStart, SessionOK, Roles, Copies, Worth
<1>1. CASE StaleData(s.seen, mine, s.aseen, s.amine)
  <2>1. Close(t) /\ UNCHANGED <<table, dispatch, asset, last, runs, done, stranded>>
    BY <1>1 DEF RunStart
  <2> QED BY <1>0, <2>1, AbandonOK DEF IInv, TypeOK
<1>2. CASE ~StaleData(s.seen, mine, s.aseen, s.amine)
  <2>1. /\ table' = Flushed(s.seen, mine) /\ sess' = [sess EXCEPT ![t] = x]
        /\ UNCHANGED <<runs, dispatch, asset, last, done, stranded>>
    BY <1>0, <1>2 DEF RunStart, IInv, TypeOK, Session
  <2>2. /\ row \in Row /\ RowOK(dispatch[j], row, DoneOf(done, j))
        /\ OnlyRuns(row.steps, s.step) /\ NoneRuns(s.seen[j].steps)
        /\ row.status = "running" /\ row.attached = s.seen[j].attached
    <3>1. s.seen[j] \in Row
      BY <1>0
    <3>2. row.attached = s.seen[j].attached
      BY <3>1 DEF StartedRow, Row
    <3> QED BY <1>0, <3>1, <3>2, StartedRowType, StartedOK
  <2>3. /\ mine \in [Jobs -> Row] /\ mine[j] = row
        /\ \A i \in Jobs : i # j => mine[i] = s.seen[i]
    BY <1>0, <2>2
  <2>4. Exists(j)
    <3>1. mine[j] # s.seen[j]
      BY <1>0, <2>2, <2>3 DEF OnlyRuns, NoneRuns
    <3> QED BY <1>0, <1>2, <3>1 DEF StaleData
  <2>5. \A i \in Jobs : /\ RowOK(dispatch[i], mine[i], DoneOf(done, i))
                        /\ i > last => mine[i] = NoRow
                        /\ mine[i].status = "none" => s.seen[i].status = "none"
    <3> SUFFICES ASSUME NEW i \in Jobs
                 PROVE  /\ RowOK(dispatch[i], mine[i], DoneOf(done, i))
                        /\ i > last => mine[i] = NoRow
                        /\ mine[i].status = "none" => s.seen[i].status = "none"
      OBVIOUS
    <3> HIDE DEF mine, row
    <3>1. CASE i = j
      <4>1. ~(j > last)
        BY <1>0 DEF Jobs
      <4>2. mine[i] = row /\ row.status # "none"
        BY <2>2, <2>3, <3>1
      <4> QED BY <2>2, <3>1, <4>1, <4>2
    <3>2. CASE i # j
      BY <1>0, <2>3, <3>2
    <3> QED BY <3>1, <3>2
  <2>6. table' \in [Jobs -> Row] /\ TableOK'
    <3>1. \A i \in Jobs : \/ mine[i].steps = s.seen[i].steps
                          \/ Exists(i) /\ mine[i].status # "none"
      BY <2>2, <2>3, <2>4
    <3> HIDE DEF mine
    <3> QED BY <2>1, <2>3, <2>5, <3>1, FlushedTable
  <2>7. x \in Session /\ x.pc = "executing" /\ x.op = "run" /\ x.job = j /\ x.step = s.step
        /\ x.seen = mine /\ x.mine = mine /\ x.aseen = s.aseen /\ x.amine = s.amine
    BY <1>0, <2>3 DEF Session
  <2>8. SessionOK(t, x, dispatch, done, last)
    <3>1. Roles(t, x, last)
      BY <1>0, <2>7 DEF Roles
    <3>2. Copies(x, dispatch)
      <4>1. OnlyRuns(x.seen[x.job].steps, x.step)
        BY <2>2, <2>3, <2>7
      <4> HIDE DEF x, mine, row
      <4> QED BY <1>0, <2>7, <4>1 DEF Copies
    <3>3. Worth(x, dispatch, done, last)
      BY <1>0, <2>5, <2>7 DEF Worth
    <3> QED BY <3>1, <3>2, <3>3 DEF SessionOK
  <2>9. TypeOK'
    BY <1>0, <2>1, <2>6, <2>7 DEF IInv, TypeOK
  <2>10. \A u \in Sessions : SessionOK(u, sess'[u], dispatch', done', last')
    <3>1. last <= last' /\ done \subseteq done'
      BY <1>0, <2>1
    <3> HIDE DEF x
    <3> QED BY <1>0, <2>1, <2>8, <2>9, <3>1, SessionsStay
  <2>11. RunningIsFollowed'
    <3> HIDE DEF mine, row, x
    <3>0. \A i \in Jobs : mine[i].attached = s.seen[i].attached
      BY <2>2, <2>3
    <3>1. ASSUME NEW i \in Jobs, NEW k \in Steps, Shown(table'[i], k)
          PROVE  \/ Shown(table[i], k) /\ ~Follows(s, i, k)
                 \/ Follows(x, i, k)
      <4>1. CASE i = j
        <5>1. mine[j].steps # s.seen[j].steps
          BY <1>0, <2>2, <2>3 DEF OnlyRuns, NoneRuns
        <5>2. table'[j].steps = row.steps
          BY <1>0, <2>1, <2>3, <3>0, <5>1, FlushedSteps
        <5>3. k = s.step
          BY <2>2, <3>1, <4>1, <5>2 DEF OnlyRuns, Shown
        <5> QED BY <2>7, <4>1, <5>3 DEF Follows
      <4>2. CASE i # j
        <5>1. table'[i] = Flushed(s.seen, mine)[i] /\ mine[i] = s.seen[i]
          BY <2>1, <2>3, <4>2
        <5>2. /\ Flushed(s.seen, mine)[i].steps = table[i].steps
              /\ Flushed(s.seen, mine)[i].attached = table[i].attached
          BY <5>1, FlushedSteps
        <5>3. Shown(table[i], k)
          BY <3>1, <5>1, <5>2 DEF Shown
        <5> QED BY <1>0, <5>3 DEF Follows
      <4> QED BY <4>1, <4>2
    <3> QED BY <1>0, <2>1, <3>1, FollowedStays
  <2> QED BY <2>1, <2>6, <2>9, <2>10, <2>11 DEF IInv
<1> QED BY <1>1, <1>2

\* The last commit of a thread, and the commit of a cancellation: one row.
LEMMA CommitOK ==
    ASSUME IInv, NEW s \in Sessions,
           sess[s].pc = "writing", sess[s].op \in {"run", "cancel"}, Close(s),
           table' = Flushed(sess[s].seen, sess[s].mine),
           asset' = FlushedAsset(sess[s].aseen, sess[s].amine),
           UNCHANGED <<runs, dispatch, last, done>>,
           stranded \subseteq stranded', stranded' \subseteq Jobs
    PROVE  IInv'
<1> DEFINE x == sess[s]
<1>0. /\ x \in Session /\ SessionOK(s, x, dispatch, done, last)
      /\ x.job \in Jobs /\ NoneRuns(x.mine[x.job].steps)
      /\ x.mine \in [Jobs -> Row] /\ x.amine \in Asset
      /\ \A j \in Jobs : j # x.job => x.mine[j] = x.seen[j]
      /\ \A j \in Jobs : x.mine[j].attached = x.seen[j].attached
  BY DEF IInv, TypeOK, Session, SessionOK, Roles, Copies
<1>1. table' \in [Jobs -> Row] /\ TableOK'
  <2>1. \A j \in Jobs :
          /\ RowOK(dispatch[j], x.mine[j], DoneOf(done, j))
          /\ j > last => x.mine[j] = NoRow
          /\ x.mine[j].status = "none" => x.seen[j].status = "none"
          /\ NoneRuns(x.mine[j].steps) \/ x.mine[j].steps = x.seen[j].steps
    BY <1>0 DEF SessionOK, Worth, Copies
  <2> QED BY <1>0, <2>1, FlushedTable
<1>2. asset' \in Asset /\ AssetOK(asset', done)
  BY <1>0, FlushedAssetOK DEF SessionOK, Worth
<1>3. ASSUME NEW j \in Jobs, NEW i \in Steps, Shown(table'[j], i)
      PROVE  Shown(table[j], i) /\ ~(s \in Threads /\ Follows(x, j, i))
  <2>1. /\ table'[j].steps = table[j].steps /\ x.mine[j].steps = x.seen[j].steps
        /\ table'[j].attached = table[j].attached
    <3>1. table'[j].steps[i] = "running" /\ x.mine[j].attached = x.seen[j].attached
      BY <1>0, <1>3 DEF Shown
    <3>2. NoneRuns(x.mine[j].steps) \/ x.mine[j].steps = x.seen[j].steps
      BY <1>0
    <3> QED BY <3>1, <3>2, FlushedSteps DEF NoneRuns
  <2>2. ASSUME s \in Threads, Follows(x, j, i) PROVE FALSE
    <3>1. x.op = "run" /\ j = x.job /\ i = x.step
      BY <1>0, <2>2 DEF SessionOK, Roles, Follows
    <3>2. OnlyRuns(x.seen[j].steps, i)
      BY <1>0, <3>1 DEF SessionOK, Copies
    <3> QED BY <1>0, <2>1, <3>1, <3>2 DEF OnlyRuns, NoneRuns
  <2> QED BY <1>3, <2>1, <2>2 DEF Shown
<1>4. last \in Nat /\ last' \in 0..MaxJobs /\ dispatch' \in [Jobs -> Modes]
  BY ProvisioningAssumption DEF IInv, TypeOK
<1>5. last <= last'
  BY <1>4
<1> HIDE DEF x
<1> QED BY <1>1, <1>2, <1>3, <1>4, <1>5, CloseOK DEF x

LEMMA RunCommitOK == ASSUME IInv, NEW t \in Threads, RunCommit(t) PROVE IInv'
<1>0. /\ t \in Sessions /\ sess[t].pc = "writing" /\ sess[t].op = "run"
      /\ sess[t].job \in Jobs /\ stranded \subseteq Jobs
  BY DEF Sessions, RunCommit, IInv, TypeOK, SessionOK, Roles
<1>1. CASE UNCHANGED <<table, asset>> /\ stranded' = stranded \cup {sess[t].job}
  BY <1>0, <1>1, AbandonOK DEF RunCommit
<1>2. CASE /\ table' = Flushed(sess[t].seen, sess[t].mine)
           /\ asset' = FlushedAsset(sess[t].aseen, sess[t].amine)
           /\ UNCHANGED stranded
  BY <1>0, <1>2, CommitOK DEF RunCommit
<1> QED BY <1>1, <1>2 DEF RunCommit

LEMMA CancelCommitOK == ASSUME IInv, CancelCommit PROVE IInv'
<1>1. Loop \in Sessions /\ stranded \subseteq Jobs
  BY DEF Sessions, IInv, TypeOK
<1> QED BY <1>1, CommitOK DEF CancelCommit

\* The rows that are gone, new or detached show nothing running; the others
\* lose at most a step that runs.
LEMMA LoopWriteOK ==
    ASSUME IInv, Close(Loop), table' \in [Jobs -> Row], TableOK',
           asset' \in Asset, AssetOK(asset', done),
           dispatch' \in [Jobs -> Modes], last' \in 0..MaxJobs, last <= last',
           \A j \in Jobs : j <= last => dispatch'[j] = dispatch[j],
           UNCHANGED <<runs, done, stranded>>,
           \A j \in Jobs, i \in Steps : Shown(table'[j], i) => Shown(table[j], i)
    PROVE  IInv'
<1>1. Loop \in Sessions /\ Loop \notin Threads /\ stranded \subseteq Jobs
  BY ProvisioningAssumption DEF Sessions, IInv, TypeOK
<1> QED BY <1>1, CloseOK

LEMMA RestIsTyped ==
    ASSUME IInv
    PROVE  /\ last \in Nat /\ last \in 0..MaxJobs /\ dispatch \in [Jobs -> Modes]
           /\ table \in [Jobs -> Row] /\ asset \in Asset /\ AssetOK(asset, done)
           /\ Loop \in Sessions /\ sess[Loop] \in Session
           /\ sess[Loop].amine \in Asset /\ sess[Loop].aseen \in Asset
           /\ SessionOK(Loop, sess[Loop], dispatch, done, last)
BY ProvisioningAssumption DEF IInv, TypeOK, Sessions, Session

LEMMA DeleteCommitOK == ASSUME IInv, DeleteCommit PROVE IInv'
<1> DEFINE j == sess[Loop].job
<1>0. j \in Jobs /\ table' = [table EXCEPT ![j] = NoRow]
  BY RestIsTyped DEF DeleteCommit, SessionOK, Roles
<1>1. /\ table' \in [Jobs -> Row] /\ table'[j] = NoRow
      /\ \A i \in Jobs : i # j => table'[i] = table[i]
  BY <1>0, RestIsTyped, NoRowType
<1>2. TableOK'
  <2>1. ASSUME NEW i \in Jobs
        PROVE  /\ RowOK(dispatch[i], table'[i], DoneOf(done, i))
               /\ table'[i].status = "none" => NoneRuns(table'[i].steps)
               /\ i > last => table'[i] = NoRow
    BY <1>1, NoRowOK DEF IInv, TableOK
  <2> QED BY <2>1 DEF TableOK, DeleteCommit
<1>3. asset' \in Asset /\ AssetOK(asset', done)
  BY RestIsTyped, FlushedAssetOK DEF DeleteCommit, SessionOK, Worth
<1>4. \A i \in Jobs, k \in Steps : Shown(table'[i], k) => Shown(table[i], k)
  BY <1>1, NoRowOK DEF NoneRuns, Shown
<1> QED BY <1>1, <1>2, <1>3, <1>4, RestIsTyped, LoopWriteOK DEF DeleteCommit

LEMMA RegisterCommitOK == ASSUME IInv, RegisterCommit PROVE IInv'
<1> DEFINE a == [sess[Loop].aseen EXCEPT !.site = TRUE, !.reg = "registered"]
<1>1. a \in Asset /\ AssetOK(a, done)
  BY RestIsTyped DEF Asset, AssetOK, Registrations
<1>2. asset' \in Asset /\ AssetOK(asset', done)
  BY <1>1, FlushedAssetOK DEF RegisterCommit
<1>3. TableOK'
  BY DEF RegisterCommit, IInv, TableOK
<1> QED BY <1>2, <1>3, RestIsTyped, LoopWriteOK DEF RegisterCommit

\* A deletion of the IPC detaches rows that exist, and leaves their steps as it
\* read them.
DropSees ==
    sess[Loop].op = "drop" => \A j \in Jobs : sess[Loop].seen[j].attached => Exists(j)

LEMMA DropCommitOK == ASSUME IInv, DropSees, DropCommit PROVE IInv'
<1> DEFINE s == sess[Loop]
<1>1. asset' \in Asset /\ AssetOK(asset', done)
  BY DEF DropCommit, NoAsset, Asset, AssetOK, Registrations
<1>2. ASSUME NEW j \in Jobs
      PROVE  /\ table'[j] \in Row
             /\ RowOK(dispatch[j], table'[j], DoneOf(done, j))
             /\ table'[j].status = "none" => NoneRuns(table'[j].steps)
             /\ j > last => table'[j] = NoRow
             /\ \A i \in Steps : Shown(table'[j], i) => Shown(table[j], i)
  <2>0. /\ table[j] \in Row /\ s.seen[j] \in Row
        /\ RowOK(dispatch[j], table[j], DoneOf(done, j))
        /\ table[j].status = "none" => NoneRuns(table[j].steps)
        /\ RowOK(dispatch[j], s.seen[j], DoneOf(done, j))
        /\ j > last => table[j] = NoRow /\ s.seen[j] = NoRow
    BY RestIsTyped DEF Session, SessionOK, Worth, IInv, TableOK
  <2>1. CASE ~s.seen[j].attached
    BY <2>0, <2>1 DEF DropCommit
  <2>2. CASE s.seen[j].attached
    <3>1. table'[j] = [table[j] EXCEPT !.attached = FALSE, !.steps = s.seen[j].steps]
      BY <2>2 DEF DropCommit
    <3>2. /\ table'[j] \in Row /\ table'[j].attached = FALSE
          /\ table'[j].steps = s.seen[j].steps /\ table'[j].status = table[j].status
      BY <2>0, <3>1 DEF Row
    <3>3. table[j].status # "none"
      BY <2>2 DEF DropSees, DropCommit, Exists
    <3>4. ~(j > last)
      BY <2>0, <2>2 DEF NoRow
    <3> QED BY <2>0, <3>2, <3>3, <3>4 DEF RowOK, Shown
  <2> QED BY <2>1, <2>2
<1>3. table' \in [Jobs -> Row]
  BY <1>2 DEF DropCommit
<1>4. TableOK'
  BY <1>2 DEF DropCommit, TableOK
<1>5. Close(Loop) /\ UNCHANGED <<runs, dispatch, last, done, stranded>>
  BY DEF DropCommit
<1>6. /\ dispatch' \in [Jobs -> Modes] /\ last' \in 0..MaxJobs /\ last <= last'
      /\ \A j \in Jobs : j <= last => dispatch'[j] = dispatch[j]
  BY <1>5, RestIsTyped
<1>7. \A j \in Jobs, i \in Steps : Shown(table'[j], i) => Shown(table[j], i)
  BY <1>2
<1> QED BY <1>1, <1>3, <1>4, <1>5, <1>6, <1>7, LoopWriteOK

LEMMA PrepareCommitOK == ASSUME IInv, PrepareCommit PROVE IInv'
<1> DEFINE s == sess[Loop]
           mine == [j \in Jobs |-> SupersededRow(s.seen[j])]
           steps == [i \in Steps |-> "none"]
           new == [status |-> "prepared", attached |-> TRUE,
                   steps |-> Dispatch(s.mode, steps)]
           flushed == Flushed(s.seen, mine)
           a == [s.aseen EXCEPT !.reg = "provisioning"]
<1>0. s.pc = "loaded" /\ s.seen \in [Jobs -> Row] /\ s.mode \in Modes
  BY RestIsTyped DEF PrepareCommit, Session
<1>1. ASSUME NEW j \in Jobs
      PROVE  /\ mine[j] \in Row /\ RowOK(dispatch[j], mine[j], DoneOf(done, j))
             /\ j > last => mine[j] = NoRow
             /\ mine[j].status = "none" => s.seen[j].status = "none"
             /\ mine[j].attached = s.seen[j].attached
             /\ NoneRuns(mine[j].steps) \/ mine[j].steps = s.seen[j].steps
  <2>1. /\ s.seen[j] \in Row /\ RowOK(dispatch[j], s.seen[j], DoneOf(done, j))
        /\ j > last => s.seen[j] = NoRow
    BY <1>0, RestIsTyped DEF SessionOK, Worth
  <2>2. SupersededRow(NoRow) = NoRow
    BY DEF SupersededRow, NoRow, Active
  <2>3. mine[j].attached = s.seen[j].attached
    BY <2>1 DEF SupersededRow, Row
  <2> QED BY <2>1, <2>2, <2>3, SupersededOK, SupersededRowType
<1>2. mine \in [Jobs -> Row] /\ flushed \in [Jobs -> Row]
  BY <1>1, FlushedType DEF IInv
<1>3. ASSUME NEW j \in Jobs
      PROVE  /\ RowOK(dispatch[j], flushed[j], DoneOf(done, j))
             /\ flushed[j].status = "none" => NoneRuns(flushed[j].steps)
             /\ j > last => flushed[j] = NoRow
             /\ \A i \in Steps : Shown(flushed[j], i) => Shown(table[j], i)
  <2> HIDE DEF mine
  <2>1. /\ RowOK(dispatch[j], flushed[j], DoneOf(done, j))
        /\ flushed[j].status = "none" => NoneRuns(flushed[j].steps)
        /\ j > last => flushed[j] = NoRow
    BY <1>1, <1>2, FlushedOK DEF IInv
  <2>2. \A i \in Steps : Shown(flushed[j], i) => Shown(table[j], i)
    BY <1>1, FlushedSteps DEF NoneRuns, Shown
  <2> QED BY <2>1, <2>2
<1>4. /\ new \in Row /\ NoneRuns(new.steps)
      /\ \A d : RowOK(s.mode, new, d)
  <2>1. steps \in [Steps -> StepStatus] /\ NoneRuns(steps) /\ Ordered(s.mode, steps)
        /\ \A d : Earned(steps, d)
    BY DEF StepStatus, NoneRuns, Ordered, Earned, Touched
  <2>2. Dispatch(s.mode, steps) \in [Steps -> StepStatus]
    BY <2>1, DispatchType
  <2>3. /\ NoneRuns(Dispatch(s.mode, steps)) /\ Ordered(s.mode, Dispatch(s.mode, steps))
        /\ \A d : Earned(Dispatch(s.mode, steps), d)
    BY <2>1, DispatchOK DEF NoneRuns
  <2>4. new.steps = Dispatch(s.mode, steps) /\ new.status = "prepared"
    OBVIOUS
  <2>5. new \in Row
    BY <2>2 DEF Row, JobStatus
  <2> HIDE DEF new
  <2> QED BY <2>3, <2>4, <2>5 DEF RowOK
<1>5. /\ table' = [flushed EXCEPT ![last + 1] = new]
      /\ dispatch' = [dispatch EXCEPT ![last + 1] = s.mode]
      /\ last' = last + 1
      /\ asset' = FlushedAsset(s.aseen, a)
      /\ Close(Loop) /\ UNCHANGED <<runs, done, stranded>>
  <2>1. table' = [flushed EXCEPT ![last + 1] = new]
    BY DEF PrepareCommit
  <2>2. dispatch' = [dispatch EXCEPT ![last + 1] = s.mode]
    BY DEF PrepareCommit
  <2>3. last' = last + 1
    BY DEF PrepareCommit
  <2>4. asset' = FlushedAsset(s.aseen, a)
    BY DEF PrepareCommit
  <2>5. Close(Loop) /\ UNCHANGED <<runs, done, stranded>>
    BY DEF PrepareCommit
  <2> QED BY <2>1, <2>2, <2>3, <2>4, <2>5
<1> HIDE DEF new, flushed
<1>6. last + 1 \in Jobs
  <2>1. last < MaxJobs
    BY DEF PrepareCommit
  <2> QED BY <2>1, RestIsTyped, ProvisioningAssumption DEF Jobs
<1>7. /\ table' \in [Jobs -> Row] /\ table'[last + 1] = new
      /\ \A j \in Jobs : j # last + 1 => table'[j] = flushed[j]
      /\ dispatch' \in [Jobs -> Modes] /\ dispatch'[last + 1] = s.mode
      /\ \A j \in Jobs : j # last + 1 => dispatch'[j] = dispatch[j]
  BY <1>0, <1>2, <1>4, <1>5, <1>6, RestIsTyped
<1>8. ASSUME NEW j \in Jobs
      PROVE  /\ RowOK(dispatch'[j], table'[j], DoneOf(done, j))
             /\ table'[j].status = "none" => NoneRuns(table'[j].steps)
             /\ j > last' => table'[j] = NoRow
             /\ \A i \in Steps : Shown(table'[j], i) => Shown(table[j], i)
  <2>1. CASE j = last + 1
    BY <1>4, <1>5, <1>7, <2>1, RestIsTyped DEF NoneRuns, Shown
  <2>2. CASE j # last + 1
    BY <1>3, <1>5, <1>7, <2>2, RestIsTyped DEF Jobs
  <2> QED BY <2>1, <2>2
<1>9. TableOK'
  BY <1>5, <1>8 DEF TableOK
<1>10. asset' \in Asset /\ AssetOK(asset', done)
  <2>1. a \in Asset /\ AssetOK(a, done)
    BY RestIsTyped DEF Asset, AssetOK, Registrations
  <2> QED BY <1>5, <2>1, FlushedAssetOK
<1>11. /\ last' \in 0..MaxJobs /\ last <= last'
       /\ \A j \in Jobs : j <= last => dispatch'[j] = dispatch[j]
  BY <1>5, <1>6, <1>7, RestIsTyped DEF Jobs
<1> QED BY <1>5, <1>7, <1>8, <1>9, <1>10, <1>11, LoopWriteOK

\* A restart leaves behind what the threads were running.
LEMMA RestartOK == ASSUME IInv, Restart PROVE IInv'
<1>1. stranded' \subseteq Jobs
  BY DEF Restart, IInv, TypeOK, SessionOK, Roles, Sessions
<1>2. TypeOK'
  BY <1>1, IdleType DEF Restart, IInv, TypeOK
<1>3. TableOK' /\ AssetOK(asset', done')
  BY DEF Restart, IInv, TableOK, AssetOK
<1>4. \A s \in Sessions : SessionOK(s, sess'[s], dispatch', done', last')
  BY IdleOK DEF Restart
<1>5. RunningIsFollowed'
  BY DEF Restart, IInv, RunningIsFollowed, Sessions
<1> QED BY <1>2, <1>3, <1>4, <1>5 DEF IInv

LEMMA NextOK == ASSUME IInv, DropSees, [Next]_vars PROVE IInv'
<1>1. ASSUME NEW t \in Threads, NEW j \in Jobs, NEW k \in Steps, RunLoad(t, j, k)
      PROVE  IInv'
  BY <1>1, RunLoadOK
<1>2. ASSUME NEW t \in Threads, RunEnds(t) PROVE IInv'
  BY <1>2, RunStartOK, RunGivenUpOK, RunCommitOK, RunFinishOK DEF RunEnds
<1>3. CASE \/ \E j \in Jobs : CancelLoad(j) \/ DeleteLoad(j)
           \/ \E mode \in Modes : PrepareLoad(mode)
           \/ RegisterLoad \/ DropLoad
  BY <1>3, LoopLoadOK
<1>4. CASE LoopEnds
  BY <1>4, CancelRefreshOK, CancelCommitOK, DeleteRefreshOK, DeleteCommitOK,
     PrepareCommitOK, RegisterCommitOK, DropCommitOK DEF LoopEnds
<1>5. CASE Restart
  BY <1>5, RestartOK
<1>6. CASE UNCHANGED vars
  BY <1>6 DEF vars, IInv, TypeOK, TableOK, AssetOK, RunningIsFollowed, Exists
<1> QED BY <1>1, <1>2, <1>3, <1>4, <1>5, <1>6 DEF Next

\* No session takes away a row that another has read, but the event loop's own.
LEMMA FlushedExists ==
    ASSUME NEW seen, NEW mine, NEW j \in Jobs, Exists(j),
           mine[j].status = "none" => seen[j].status = "none",
           table' = Flushed(seen, mine)
    PROVE  Exists(j)'
BY DEF Flushed, Exists

LEMMA RunKeepsRows ==
    ASSUME IInv, NEW t \in Threads, RunEnds(t), NEW j \in Jobs, Exists(j)
    PROVE  Exists(j)'
<1> DEFINE s == sess[t]
           mine == [s.mine EXCEPT ![s.job] =
                      StartedRow(dispatch[s.job], s.seen[s.job], s.step)]
<1>0. /\ t \in Sessions /\ s.mine \in [Jobs -> Row] /\ s.seen \in [Jobs -> Row]
      /\ Copies(s, dispatch) /\ Roles(t, s, last)
  BY DEF Sessions, IInv, TypeOK, Session, SessionOK
<1>1. CASE UNCHANGED table
  BY <1>1 DEF Exists
<1>2. CASE table' = Flushed(s.seen, s.mine)
  BY <1>0, <1>2, FlushedExists DEF Copies
<1>3. CASE RunStart(t) /\ table' = Flushed(s.seen, mine)
  <2>1. s.job \in Jobs /\ s.mine = s.seen
    BY <1>0, <1>3 DEF RunStart, Roles, Copies
  <2>2. StartedRow(dispatch[s.job], s.seen[s.job], s.step).status = "running"
    <3>1. s.seen[s.job] \in Row
      BY <1>0, <2>1
    <3> QED BY <3>1 DEF StartedRow, Row
  <2>3. mine[j].status = "none" => s.seen[j].status = "none"
    BY <1>0, <2>1, <2>2
  <2> HIDE DEF mine
  <2> QED BY <1>3, <2>3, FlushedExists
<1> QED BY <1>1, <1>2, <1>3
        DEF RunEnds, RunStart, RunFlush, RunRefused, RunFinish, RunCommit

LEMMA DropSeesOK == ASSUME IInv, DropSees, [Next]_vars PROVE DropSees'
<1>0. sess \in [Sessions -> Session] /\ Loop \in Sessions /\ Loop \notin Threads
  BY ProvisioningAssumption DEF IInv, TypeOK, Sessions
<1>1. CASE sess'[Loop] = sess[Loop] /\ \A j \in Jobs : Exists(j) => Exists(j)'
  BY <1>1 DEF DropSees
<1>2. CASE sess'[Loop].op # "drop"
  BY <1>2 DEF DropSees
<1>3. ASSUME NEW t \in Threads, RunEnds(t) PROVE DropSees'
  <2>1. sess'[Loop] = sess[Loop]
    BY <1>0, <1>3 DEF RunEnds, RunStart, RunFlush, RunRefused, RunFinish, RunCommit, Close
  <2> QED BY <1>1, <1>3, <2>1, RunKeepsRows
<1>4. ASSUME NEW t \in Threads, NEW j \in Jobs, NEW k \in Steps, RunLoad(t, j, k)
      PROVE  DropSees'
  BY <1>0, <1>1, <1>4 DEF RunLoad, Exists
<1>5. CASE \/ \E j \in Jobs : CancelLoad(j) \/ DeleteLoad(j)
           \/ \E mode \in Modes : PrepareLoad(mode)
           \/ RegisterLoad
  <2>1. \A j, k, js : /\ Loaded("cancel", j, k, js).op # "drop"
                      /\ Loaded("delete", j, k, js).op # "drop"
                      /\ Loaded("register", j, k, js).op # "drop"
    BY DEF Loaded
  <2>2. \A mode, js : [Loaded("prepare", 0, 0, js) EXCEPT !.mode = mode].op # "drop"
    BY DEF Loaded
  <2>3. ASSUME NEW x, Begin(x), x.op # "drop" PROVE sess'[Loop].op # "drop"
    BY <1>0, <2>3 DEF Begin
  <2>4. CASE \E j \in Jobs : CancelLoad(j) \/ DeleteLoad(j)
    BY <1>2, <2>1, <2>3, <2>4 DEF CancelLoad, DeleteLoad
  <2>5. CASE \E mode \in Modes : PrepareLoad(mode)
    BY <1>2, <2>2, <2>3, <2>5 DEF PrepareLoad
  <2>6. CASE RegisterLoad
    BY <1>2, <2>1, <2>3, <2>6 DEF RegisterLoad
  <2> QED BY <1>5, <2>4, <2>5, <2>6
<1>6. CASE DropLoad
  <2>1. /\ sess'[Loop].seen = [i \in Jobs |-> IF i \in JobsOfAsset THEN table[i] ELSE NoRow]
        /\ table' = table
    BY <1>0, <1>6 DEF DropLoad, Begin, Loaded
  <2> QED BY <2>1 DEF DropSees, JobsOfAsset, Exists, NoRow
<1>7. CASE CancelRefresh \/ DeleteRefresh
  <2>1. sess'[Loop].op = sess[Loop].op
    BY <1>0, <1>7 DEF CancelRefresh, DeleteRefresh, Session
  <2> QED BY <1>2, <1>7, <2>1 DEF CancelRefresh, DeleteRefresh
<1>8. CASE Close(Loop) \/ Restart
  BY <1>0, <1>2, <1>8 DEF Close, Restart, Idle
<1>9. CASE UNCHANGED vars
  BY <1>1, <1>9 DEF vars, Exists
<1> QED BY <1>3, <1>4, <1>5, <1>6, <1>7, <1>8, <1>9
        DEF Next, LoopEnds, CancelCommit, DeleteCommit, PrepareCommit, RegisterCommit,
            DropCommit

LEMMA IInvHolds == Spec => [](IInv /\ DropSees)
<1>1. Init => DropSees
  BY DEF Init, DropSees, Sessions, Idle
<1> QED BY <1>1, InitOK, NextOK, DropSeesOK, PTL DEF Spec

-----------------------------------------------------------------------------
(* Every row, every copy of a row and every session is of its type. *)
THEOREM TypeCorrect == Spec => []TypeOK
<1>1. IInv => TypeOK
  BY DEF IInv
<1> QED BY <1>1, IInvHolds, PTL

(* The playbooks of a job dispatched automatically succeed in the order of the
   workflow, for any number of steps, jobs and overlapping requests. *)
THEOREM WorkflowsInOrder == Spec => []StepsInOrder
<1>1. IInv => StepsInOrder
  BY DEF IInv, TableOK, RowOK, Ordered, Touched, StepsInOrder, InOrder
<1> QED BY <1>1, IInvHolds, PTL

(* A step that a job of the IPC shows as running is followed by a thread, or the
   job had a run cut off before its last commit. *)
THEOREM NoGhostSteps == Spec => []RunningIsFollowed
<1>1. IInv => RunningIsFollowed
  BY DEF IInv
<1> QED BY <1>1, IInvHolds, PTL

(* A job declared succeeded had every playbook of its workflow succeed. *)
THEOREM SuccessIsEarned == Spec => []SucceededIsDone
<1>1. IInv => SucceededIsDone
  BY DEF IInv, TableOK, RowOK, DoneOf, SucceededIsDone
<1> QED BY <1>1, IInvHolds, PTL

(* An IPC declared active went through a whole workflow. *)
THEOREM ActiveIsEarned == Spec => []ActiveIsProvisioned
<1>1. IInv => ActiveIsProvisioned
  BY DEF IInv, AssetOK, ActiveIsProvisioned
<1> QED BY <1>1, IInvHolds, PTL

-----------------------------------------------------------------------------
(* A job that is over.  Only a session that read the job before it was over
   may change its status. *)

Held(x) ==
    /\ x.op = "run" => x.seen[x.job].status \in Runnable
    /\ x.op = "cancel" => x.seen[x.job].status \notin Over \cup {"none"}

HeldInv == \A s \in Sessions : Held(sess[s])

LEMMA HeldStays ==
    ASSUME IInv, HeldInv, NEW s \in Sessions, NEW x,
           sess' = [sess EXCEPT ![s] = x], Held(x)
    PROVE  HeldInv'
<1> SUFFICES ASSUME NEW u \in Sessions PROVE Held(sess'[u])
  BY DEF HeldInv
<1>1. CASE u = s
  BY <1>1 DEF IInv, TypeOK
<1>2. CASE u # s
  BY <1>2 DEF IInv, TypeOK, HeldInv
<1> QED BY <1>1, <1>2

LEMMA HeldRun ==
    ASSUME IInv, HeldInv, NEW t \in Threads,
           RunEnds(t) \/ \E j \in Jobs, k \in Steps : RunLoad(t, j, k)
    PROVE  HeldInv'
<1> DEFINE s == sess[t]
<1>0. t \in Sessions /\ s \in Session /\ Held(s) /\ Held(Idle)
  BY DEF Sessions, HeldInv, IInv, TypeOK, Held, Idle
<1>1. CASE \E j \in Jobs, k \in Steps : RunLoad(t, j, k)
  <2>1. PICK j \in Jobs, k \in Steps : RunLoad(t, j, k)
    BY <1>1
  <2>2. Held(Loaded("run", j, k, {j}))
    BY <2>1 DEF Held, Loaded, RunLoad
  <2> QED BY <1>0, <2>1, <2>2, HeldStays DEF RunLoad
<1>2. CASE Close(t)
  BY <1>0, <1>2, HeldStays DEF Close
<1>3. CASE RunStart(t)
  <2> DEFINE mine == [s.mine EXCEPT ![s.job] =
                        StartedRow(dispatch[s.job], s.seen[s.job], s.step)]
             x == [s EXCEPT !.pc = "executing", !.seen = mine, !.mine = mine]
  <2>1. CASE sess' = [sess EXCEPT ![t].pc = "executing",
                                  ![t].seen = mine, ![t].mine = mine]
    <3>1. s.op = "run" /\ s.job \in Jobs /\ s.seen \in [Jobs -> Row] /\ s.mine \in [Jobs -> Row]
      BY <1>0, <1>3 DEF RunStart, IInv, SessionOK, Roles, Session
    <3>2. s.seen[s.job] \in Row
      BY <3>1
    <3>3. StartedRow(dispatch[s.job], s.seen[s.job], s.step).status = "running"
      BY <3>2 DEF StartedRow, Row
    <3>4. sess' = [sess EXCEPT ![t] = x]
      BY <1>0, <2>1 DEF IInv, TypeOK, Session
    <3>5. x.op = "run" /\ x.job = s.job /\ x.seen[s.job].status = "running"
      BY <1>0, <3>1, <3>3 DEF Session
    <3>6. Held(x)
      BY <3>5 DEF Held, Runnable
    <3> QED BY <1>0, <3>4, <3>6, HeldStays
  <2> QED BY <1>2, <1>3, <2>1 DEF RunStart
<1>4. ASSUME NEW ok \in BOOLEAN, RunFinish(t, ok) PROVE HeldInv'
  <2> DEFINE row == EndedRow(dispatch[s.job], s.seen[s.job], s.step, ok)
             x == [s EXCEPT !.pc = "writing", !.mine[s.job] = row,
                            !.amine = Refreshed(t, s.job, row.status)]
  <2>1. sess' = [sess EXCEPT ![t] = x]
    BY <1>0, <1>4 DEF RunFinish, IInv, TypeOK, Session
  <2>2. x.op = s.op /\ x.job = s.job /\ x.seen = s.seen
    BY <1>0 DEF Session
  <2>3. Held(x)
    BY <1>0, <2>2 DEF Held
  <2> QED BY <1>0, <2>1, <2>3, HeldStays
<1> QED BY <1>1, <1>2, <1>3, <1>4 DEF RunEnds, RunFlush, RunRefused, RunCommit

LEMMA HeldLoop ==
    ASSUME IInv, HeldInv,
           \/ \E j \in Jobs : CancelLoad(j) \/ DeleteLoad(j)
           \/ \E mode \in Modes : PrepareLoad(mode)
           \/ RegisterLoad \/ DropLoad \/ LoopEnds
    PROVE  HeldInv'
<1> DEFINE s == sess[Loop]
<1>0. Loop \in Sessions /\ s \in Session /\ Held(s) /\ Held(Idle)
  BY DEF Sessions, HeldInv, IInv, TypeOK, Held, Idle
<1>1. ASSUME NEW x, Begin(x), Held(x) PROVE HeldInv'
  BY <1>0, <1>1, HeldStays DEF Begin
<1>2. CASE Close(Loop)
  BY <1>0, <1>2, HeldStays DEF Close
<1>3. ASSUME NEW j \in Jobs, CancelLoad(j) PROVE HeldInv'
  <2>1. Held(Loaded("cancel", j, 0, {j}))
    BY <1>3 DEF Held, Loaded, CancelLoad, Exists
  <2> QED BY <1>1, <1>3, <2>1 DEF CancelLoad
<1>4. ASSUME NEW j \in Jobs, DeleteLoad(j) PROVE HeldInv'
  <2>1. Held(Loaded("delete", j, 0, {j}))
    BY DEF Held, Loaded
  <2> QED BY <1>1, <1>4, <2>1 DEF DeleteLoad
<1>5. ASSUME NEW mode \in Modes, PrepareLoad(mode) PROVE HeldInv'
  <2>1. Held([Loaded("prepare", 0, 0, JobsOfAsset) EXCEPT !.mode = mode])
    BY DEF Held, Loaded
  <2> QED BY <1>1, <1>5, <2>1 DEF PrepareLoad
<1>6. CASE RegisterLoad \/ DropLoad
  <2>1. Held(Loaded("register", 0, 0, {})) /\ Held(Loaded("drop", 0, 0, JobsOfAsset))
    BY DEF Held, Loaded
  <2> QED BY <1>1, <1>6, <2>1 DEF RegisterLoad, DropLoad
<1>7. ASSUME NEW x, sess' = [sess EXCEPT ![Loop] = x],
             x.op = s.op, x.job = s.job, x.seen = s.seen
      PROVE  HeldInv'
  <2>1. Held(x)
    BY <1>0, <1>7 DEF Held
  <2> QED BY <1>0, <1>7, <2>1, HeldStays
<1>8. CASE CancelRefresh
  <2> DEFINE row == [s.seen[s.job] EXCEPT
                  !.status = "cancelled",
                  !.steps = CancelledSteps(dispatch[s.job], s.seen[s.job].steps)]
             x == [s EXCEPT !.pc = "writing", !.mine[s.job] = row,
                            !.amine = Refreshed(Loop, s.job, "cancelled")]
  <2>1. sess' = [sess EXCEPT ![Loop] = x]
    BY <1>0, <1>8 DEF CancelRefresh, IInv, TypeOK, Session
  <2>2. x.op = s.op /\ x.job = s.job /\ x.seen = s.seen
    BY <1>0 DEF Session
  <2> HIDE DEF x
  <2> QED BY <1>7, <2>1, <2>2
<1>9. CASE DeleteRefresh
  <2> DEFINE left == {table[i].status : i \in JobsOfAsset \ {s.job}}
             reg == IF s.seen[s.job].attached /\ s.seen[s.job].status # "succeeded"
                    THEN Registration(left, s.aseen.site) ELSE s.aseen.reg
             x == [s EXCEPT !.pc = "writing", !.amine.reg = reg]
  <2>1. sess' = [sess EXCEPT ![Loop] = x]
    BY <1>0, <1>9 DEF DeleteRefresh, IInv, TypeOK, Session
  <2>2. x.op = s.op /\ x.job = s.job /\ x.seen = s.seen
    BY <1>0 DEF Session
  <2> HIDE DEF x
  <2> QED BY <1>7, <2>1, <2>2
<1> QED BY <1>2, <1>3, <1>4, <1>5, <1>6, <1>8, <1>9
        DEF LoopEnds, CancelCommit, DeleteCommit, PrepareCommit, RegisterCommit, DropCommit

LEMMA HeldHolds == Spec => []HeldInv
<1>1. Init => HeldInv
  BY DEF Init, HeldInv, Held, Idle
<1>2. IInv /\ HeldInv /\ [Next]_vars => HeldInv'
  <2> SUFFICES ASSUME IInv, HeldInv, [Next]_vars PROVE HeldInv'
    OBVIOUS
  <2>1. CASE Restart
    BY <2>1 DEF Restart, HeldInv, Held, Idle
  <2>2. CASE UNCHANGED vars
    BY <2>2 DEF vars, HeldInv
  <2> QED BY <2>1, <2>2, HeldRun, HeldLoop DEF Next
<1> QED BY <1>1, <1>2, IInvHolds, PTL DEF Spec

LEMMA OverStays ==
    ASSUME IInv, HeldInv, [Next]_vars, NEW j \in Jobs, table[j].status \in Over,
           \A s \in Sessions : sess[s].seen[j].status \in Over \cup {"none"}
    PROVE  table'[j].status = table[j].status \/ ~Exists(j)'
<1>1. ASSUME NEW s \in Sessions, sess[s].op \in {"run", "cancel"}
      PROVE  Flushed(sess[s].seen, sess[s].mine)[j].status = table[j].status
  <2>1. sess[s].job # j
    BY <1>1 DEF HeldInv, Held, Runnable, Over
  <2>2. sess[s].mine[j] = sess[s].seen[j]
    BY <1>1, <2>1 DEF IInv, SessionOK, Copies
  <2> QED BY <2>2 DEF Flushed
<1>2. ASSUME NEW t \in Threads, RunEnds(t) PROVE table'[j].status = table[j].status
  <2>1. t \in Sessions
    BY DEF Sessions
  <2>2. CASE UNCHANGED table
    BY <2>2
  <2>3. CASE RunStart(t)
    <3> DEFINE s == sess[t]
               mine == [s.mine EXCEPT ![s.job] =
                          StartedRow(dispatch[s.job], s.seen[s.job], s.step)]
    <3>1. s.op = "run" /\ s.job # j
      BY <2>1, <2>3 DEF RunStart, HeldInv, Held, Runnable, Over
    <3>2. mine[j] = s.seen[j]
      BY <2>1, <3>1 DEF IInv, TypeOK, Session, SessionOK, Copies
    <3> HIDE DEF mine
    <3>3. Flushed(s.seen, mine)[j].status = table[j].status
      BY <3>2 DEF Flushed
    <3> QED BY <2>3, <3>3 DEF RunStart, mine
  <2>4. CASE RunCommit(t)
    BY <1>1, <2>1, <2>4 DEF RunCommit
  <2> QED BY <1>2, <2>2, <2>3, <2>4 DEF RunEnds, RunFlush, RunRefused, RunFinish
<1>3. CASE LoopEnds
  <2>1. Loop \in Sessions
    BY DEF Sessions
  <2>2. CASE UNCHANGED table
    BY <2>2
  <2>3. CASE CancelCommit
    BY <1>1, <2>1, <2>3 DEF CancelCommit
  <2>4. CASE DeleteCommit
    BY <2>4, NoRowType DEF DeleteCommit, IInv, TypeOK, Exists, NoRow
  <2>5. CASE PrepareCommit
    <3> DEFINE s == sess[Loop]
               mine == [i \in Jobs |-> SupersededRow(s.seen[i])]
               flushed == Flushed(s.seen, mine)
    <3>1. j <= last
      BY <2>5, ProvisioningAssumption DEF IInv, TableOK, TypeOK, NoRow, Over, Jobs
    <3>2. mine[j] = s.seen[j]
      BY <2>1 DEF SupersededRow, Over, Active
    <3> HIDE DEF mine
    <3>3. flushed[j].status = table[j].status
      BY <3>2 DEF Flushed
    <3>4. table'[j] = flushed[j]
      <4>1. j # last + 1
        BY <3>1, RestIsTyped DEF Jobs
      <4>2. \E new : table' = [flushed EXCEPT ![last + 1] = new]
        BY <2>5 DEF PrepareCommit, mine
      <4>3. flushed = [i \in Jobs |-> flushed[i]]
        BY DEF Flushed
      <4> HIDE DEF flushed
      <4> QED BY <4>1, <4>2, <4>3
    <3> QED BY <3>3, <3>4
  <2>6. CASE DropCommit
    BY <2>6, RestIsTyped DEF DropCommit, Row
  <2> QED BY <1>3, <2>2, <2>3, <2>4, <2>5, <2>6
          DEF LoopEnds, CancelRefresh, DeleteRefresh, RegisterCommit
<1>4. CASE UNCHANGED table
  BY <1>4
<1> QED BY <1>2, <1>3, <1>4
        DEF Next, RunLoad, CancelLoad, DeleteLoad, PrepareLoad, RegisterLoad, DropLoad,
            Begin, Restart, vars

(* A job that is over stays over: no request that reads it then changes its
   status. *)
THEOREM JobsStayOver == Spec => OverIsFinal
<1>1. IInv /\ HeldInv /\ [Next]_vars =>
        [\A j \in Jobs :
           (/\ table[j].status \in Over
            /\ \A s \in Sessions : sess[s].seen[j].status \in Over \cup {"none"})
           => table'[j].status = table[j].status \/ ~Exists(j)']_vars
  BY OverStays
<1> QED BY <1>1, IInvHolds, HeldHolds, PTL DEF Spec, OverIsFinal
=============================================================================
