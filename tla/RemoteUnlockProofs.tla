------------------------- MODULE RemoteUnlockProofs -------------------------
(***************************************************************************)
(* What holds of the broker and of its clients for any number of dry runs, *)
(* of threads, of tries and of failures.                                   *)
(***************************************************************************)
EXTENDS RemoteUnlock, TLAPS

\* A challenge a secret was sent for is not remembered any more.
UsedUp == \A n \in 1..Len(sent) : sent[n] \notin known

\* No run holds a challenge that has expired.
Fresh == \A r \in Runs : run[r].id \notin expired

IInv == TypeOK /\ UsedUp /\ ReleasedOnce /\ Fresh /\ ChallengeKept

-----------------------------------------------------------------------------
(* Runs and threads.                                                       *)

LEMMA RestTypes ==
    /\ Off \in RunState /\ Failed \in RunState /\ Done \in RunState
    /\ Free \in HandlerState
    /\ Boot \in Runs /\ None \notin Runs
BY RemoteUnlockAssumption DEF Off, Failed, Done, Free, RunState, HandlerState, Runs

\* A failed try changes neither the challenge nor the place of a run that
\* goes on.
LEMMA RetriedIs ==
    ASSUME TypeOK, NEW clients
    PROVE  /\ Retried(clients) \in [Runs -> RunState]
           /\ \A r \in Runs : Retried(clients)[r] = Failed
                \/ /\ Retried(clients)[r].pc = run[r].pc
                   /\ Retried(clients)[r].id = run[r].id
<1> DEFINE after(r) == IF r \notin clients THEN run[r]
                       ELSE IF run[r].tries = 0 THEN Failed
                       ELSE [run[r] EXCEPT !.tries = @ - 1]
<1>1. ASSUME NEW r \in Runs
      PROVE  /\ after(r) \in RunState
             /\ after(r) = Failed \/ (after(r).pc = run[r].pc /\ after(r).id = run[r].id)
  <2>1. run[r] \in RunState
    BY DEF TypeOK
  <2>2. CASE r \in clients /\ run[r].tries # 0
    BY <2>1, <2>2, RemoteUnlockAssumption DEF RunState
  <2>3. CASE r \notin clients \/ run[r].tries = 0
    BY <2>1, <2>3, RestTypes
  <2> QED BY <2>2, <2>3
<1>2. Retried(clients) = [r \in Runs |-> after(r)]
  BY DEF Retried
<1> HIDE DEF after
<1> QED BY <1>1, <1>2

LEMMA UnansweredType ==
    ASSUME TypeOK, NEW r PROVE Unanswered(r) \in [Handlers -> HandlerState]
BY DEF TypeOK, Unanswered, HandlerState

\* The first challenge, and one more.
LEMMA NextIssued ==
    ASSUME NEW k \in Nat
    PROVE  k + 1 \in Nat /\ k + 1 \notin 1..k /\ 1..k \subseteq 1..(k + 1)
           /\ k + 1 \in 1..(k + 1)
OBVIOUS

-----------------------------------------------------------------------------
(* The steps, one by one.                                                  *)

\* The steps of a run.
Script(r) ==
    \/ Start(r) \/ Connect(r) \/ Request(r) \/ TimeOut(r) \/ Quote(r) \/ Open(r)
    \/ Mount(r) \/ Unreachable(r) \/ GiveUp(r) \/ Abort(r)

LEMMA StepCases ==
    ASSUME [Next]_vars
    PROVE  \/ \E r \in Runs : Script(r)
           \/ \E h \in Handlers, lost \in BOOLEAN :
                HandleChallenge(h, lost) \/ Release(h, lost)
           \/ \E h \in Handlers : CheckChallenge(h) \/ ReadVault(h) \/ VaultFails(h)
           \/ \E i \in 1..issued : Expire(i)
           \/ Stall \/ Reset \/ Reboot \/ BrokerRestart
           \/ UNCHANGED vars
BY Zenon DEF Next, Advance, Serve, Fail, Script

LEMMA FaultType ==
    ASSUME TypeOK, Fault PROVE faults' \in 0..MaxFaults
BY RemoteUnlockAssumption DEF TypeOK, Fault

LEMMA LeaveType ==
    ASSUME TypeOK, NEW clients, Leave(clients)
    PROVE  accepting' \in Runs \cup {None, Gone}
BY DEF TypeOK, Leave

\* What the script alone does keeps the types.
LEMMA ScriptTypes ==
    ASSUME TypeOK, NEW r \in Runs, Script(r)
    PROVE  TypeOK'
<1>0. run[r] \in RunState /\ MaxTries \in Nat
  BY RemoteUnlockAssumption DEF TypeOK
<1>1. CASE Start(r)
  <2>1. run' \in [Runs -> RunState]
    <3>1. [pc |-> "challenge", id |-> 0, tries |-> MaxTries] \in RunState
      BY <1>0 DEF RunState
    <3>2. \E s \in RunState : run' = [run EXCEPT ![r] = s]
      BY <1>1, <3>1, RestTypes DEF Start
    <3> QED BY <3>2 DEF TypeOK
  <2> QED BY <1>1, <2>1 DEF TypeOK, Start, brokerVars
<1>2. CASE Request(r)
  <2>1. handler' \in [Handlers -> HandlerState]
    <3>1. PICK h \in Handlers : handler' = [handler EXCEPT ![h] =
                                  [pc |-> run[r].pc, id |-> run[r].id, client |-> r]]
      BY <1>2 DEF Request
    <3>2. [pc |-> run[r].pc, id |-> run[r].id, client |-> r] \in HandlerState
      BY <1>0, <1>2 DEF Request, Asks, RunState, HandlerState
    <3> QED BY <3>1, <3>2 DEF TypeOK
  <2> QED BY <1>2, <2>1 DEF TypeOK, Request, ipcVars
<1>3. CASE Quote(r)
  <2>1. run' \in [Runs -> RunState]
    BY <1>3, <1>0 DEF Quote, TypeOK, RunState
  <2> QED BY <1>3, <2>1 DEF TypeOK, Quote, brokerVars
<1>4. CASE Open(r)
  <2>1. run' \in [Runs -> RunState]
    <3>1. CASE r = Boot
      <4>1. run' = [run EXCEPT ![r].pc = "mount"]
        BY <1>4, <3>1 DEF Open
      <4> QED BY <4>1, <1>0 DEF TypeOK, RunState
    <3>2. CASE r # Boot
      BY <1>4, <3>2, RestTypes DEF Open, TypeOK
    <3> QED BY <3>1, <3>2
  <2> QED BY <1>4, <2>1 DEF TypeOK, Open, brokerVars
<1>5. CASE Mount(r)
  <2>1. run' \in [Runs -> RunState]
    BY <1>5, RestTypes DEF Mount, TypeOK
  <2> QED BY <1>5, <2>1 DEF TypeOK, Mount, brokerVars
<1>6. CASE Unreachable(r)
  BY <1>6, RetriedIs, FaultType DEF TypeOK, Unreachable, brokerVars
<1>7. CASE GiveUp(r)
  BY <1>7, RetriedIs, UnansweredType, LeaveType, FaultType DEF TypeOK, GiveUp
<1>8. CASE Abort(r)
  <2>1. run' \in [Runs -> RunState]
    BY <1>8, RestTypes DEF Abort, TypeOK
  <2> QED BY <1>8, <2>1, UnansweredType, LeaveType, FaultType DEF TypeOK, Abort
<1>9. CASE Connect(r)
  BY <1>9 DEF TypeOK, Connect, ipcVars
<1>10. CASE TimeOut(r)
  BY <1>10, RetriedIs DEF TypeOK, TimeOut, brokerVars
<1> QED BY <1>1, <1>2, <1>3, <1>4, <1>5, <1>6, <1>7, <1>8, <1>9, <1>10 DEF Script

\* A challenge is issued.
LEMMA ChallengeTypes ==
    ASSUME TypeOK, NEW h \in Handlers, NEW lost \in BOOLEAN, HandleChallenge(h, lost)
    PROVE  TypeOK'
<1> DEFINE c == handler[h].client
<1>1. handler[h] \in HandlerState /\ c \in Runs \cup {None} /\ issued \in Nat
  BY DEF TypeOK, HandlerState
<1>2. issued' \in Nat /\ known' \subseteq 1..issued' /\ 1..issued \subseteq 1..issued'
  BY NextIssued DEF HandleChallenge, TypeOK
<1>3. expired' \subseteq 1..issued' /\ wiped' \subseteq 1..issued' /\ sent' \in Seq(1..issued')
  BY <1>2 DEF HandleChallenge, TypeOK
<1>4. handler' \in [Handlers -> HandlerState]
  BY RestTypes DEF HandleChallenge, TypeOK
<1>5. run' \in [Runs -> RunState]
  <2>1. CASE lost \/ c = None
    BY <2>1, RetriedIs DEF HandleChallenge
  <2>2. CASE ~(lost \/ c = None)
    <3>1. c \in Runs /\ run[c] \in RunState
      BY <1>1, <2>2 DEF TypeOK
    <3>2. run' = [run EXCEPT ![c].pc = "quote", ![c].id = issued + 1]
      BY <2>2 DEF HandleChallenge
    <3> DEFINE s == [run[c] EXCEPT !.pc = "quote", !.id = issued + 1]
    <3> HIDE DEF c
    <3>0. issued + 1 \in Nat
      BY <1>1
    <3>3. s \in RunState
      BY <3>1, <3>0 DEF RunState
    <3>4. run' = [run EXCEPT ![c] = s]
      BY <3>1, <3>2 DEF TypeOK
    <3> HIDE DEF s
    <3> QED BY <3>1, <3>3, <3>4 DEF TypeOK
  <2> QED BY <2>1, <2>2
<1>6. faults' \in 0..MaxFaults
  BY FaultType DEF HandleChallenge, TypeOK
<1> QED BY <1>2, <1>3, <1>4, <1>5, <1>6 DEF TypeOK, HandleChallenge

\* A secret is released, or not.
LEMMA ReleaseTypes ==
    ASSUME TypeOK, NEW h \in Handlers, NEW lost \in BOOLEAN, Release(h, lost)
    PROVE  TypeOK'
<1> DEFINE i == handler[h].id
           c == handler[h].client
<1>1. handler[h] \in HandlerState /\ c \in Runs \cup {None}
  BY DEF TypeOK, HandlerState
<1>2. handler' \in [Handlers -> HandlerState]
  BY RestTypes DEF Release, Refuse, TypeOK
<1>3. known' \subseteq 1..issued /\ sent' \in Seq(1..issued)
  <2>1. CASE i \in known
    <3>1. known' = known \ {i} /\ sent' = Append(sent, i)
      BY <2>1 DEF Release
    <3>2. i \in 1..issued
      BY <2>1 DEF TypeOK
    <3> HIDE DEF i
    <3> QED BY <3>1, <3>2 DEF TypeOK
  <2>2. CASE i \notin known
    BY <2>2 DEF Release, TypeOK
  <2> QED BY <2>1, <2>2
<1>4. run' \in [Runs -> RunState]
  <2>1. CASE i \notin known \/ lost \/ c = None
    BY <2>1, RetriedIs DEF Release, Refuse
  <2>2. CASE i \in known /\ ~(lost \/ c = None)
    <3>1. c \in Runs /\ run[c] \in RunState
      BY <1>1, <2>2 DEF TypeOK
    <3>2. run' = [run EXCEPT ![c].pc = "open"]
      BY <2>2 DEF Release
    <3> HIDE DEF c
    <3> QED BY <3>1, <3>2 DEF TypeOK, RunState
  <2> QED BY <2>1, <2>2
<1>5. faults' \in 0..MaxFaults
  BY FaultType DEF Release, TypeOK
<1> QED BY <1>2, <1>3, <1>4, <1>5 DEF TypeOK, Release

\* The other steps of the broker.
LEMMA BrokerTypes ==
    ASSUME TypeOK, NEW h \in Handlers, CheckChallenge(h) \/ ReadVault(h) \/ VaultFails(h)
    PROVE  TypeOK'
<1>0. handler[h] \in HandlerState
  BY DEF TypeOK
<1>1. CASE CheckChallenge(h)
  <2>1. CASE handler[h].id \in known \ expired
    <3>1. handler' \in [Handlers -> HandlerState]
      <4>1. handler' = [handler EXCEPT ![h].pc = "vault"]
        BY <1>1, <2>1 DEF CheckChallenge
      <4> QED BY <4>1, <1>0 DEF TypeOK, HandlerState
    <3> QED BY <1>1, <2>1, <3>1 DEF TypeOK, CheckChallenge
  <2>2. CASE handler[h].id \notin known \ expired
    <3>1. run' \in [Runs -> RunState] /\ handler' \in [Handlers -> HandlerState]
      BY <1>1, <2>2, RetriedIs, RestTypes DEF TypeOK, CheckChallenge, Refuse
    <3> QED BY <1>1, <2>2, <3>1 DEF TypeOK, CheckChallenge
  <2> QED BY <2>1, <2>2
<1>2. CASE ReadVault(h)
  <2>1. handler' \in [Handlers -> HandlerState]
    <3>1. handler' = [handler EXCEPT ![h].pc = "release"]
      BY <1>2 DEF ReadVault
    <3> QED BY <3>1, <1>0 DEF TypeOK, HandlerState
  <2> QED BY <1>2, <2>1 DEF TypeOK, ReadVault, ipcVars
<1>3. CASE VaultFails(h)
  <2>1. run' \in [Runs -> RunState] /\ handler' \in [Handlers -> HandlerState]
    BY <1>3, RetriedIs, RestTypes DEF TypeOK, VaultFails, Refuse
  <2> QED BY <1>3, <2>1, FaultType DEF TypeOK, VaultFails
<1> QED BY <1>1, <1>2, <1>3

LEMMA RebootType == ASSUME TypeOK, Reboot PROVE TypeOK'
<1>1. run' \in [Runs -> RunState]
  BY RestTypes DEF Reboot
<1>2. handler' \in [Handlers -> HandlerState]
  BY DEF Reboot, TypeOK, HandlerState
<1> QED BY <1>1, <1>2, LeaveType, FaultType DEF Reboot, TypeOK

LEMMA RestartType == ASSUME TypeOK, BrokerRestart PROVE TypeOK'
<1>1. run' \in [Runs -> RunState] /\ handler' \in [Handlers -> HandlerState]
  BY RetriedIs, RestTypes DEF BrokerRestart
<1> QED BY <1>1, FaultType DEF BrokerRestart, TypeOK

LEMMA TypeStep == ASSUME TypeOK, [Next]_vars PROVE TypeOK'
<1>1. ASSUME NEW i \in 1..issued, Expire(i) PROVE TypeOK'
  BY <1>1 DEF TypeOK, Expire, ipcVars
<1>2. ASSUME UNCHANGED vars PROVE TypeOK'
  BY <1>2 DEF vars, brokerVars, ipcVars, TypeOK
<1>3. ASSUME Stall \/ Reset PROVE TypeOK'
  BY <1>3, FaultType DEF TypeOK, Stall, Reset, ipcVars
<1> QED BY <1>1, <1>2, <1>3, StepCases, ScriptTypes, ChallengeTypes, ReleaseTypes,
          BrokerTypes, RebootType, RestartType

LEMMA TypeInit == ASSUME Init PROVE TypeOK
<1>1. run \in [Runs -> RunState] /\ handler \in [Handlers -> HandlerState]
  BY RestTypes DEF Init
<1>2. faults \in 0..MaxFaults /\ issued \in Nat
  BY RemoteUnlockAssumption DEF Init
<1>3. sent \in Seq(1..issued)
  BY DEF Init
<1> QED BY <1>1, <1>2, <1>3 DEF Init, TypeOK

\* Every run, every thread, every challenge is of its type, in every state.
THEOREM TypeCorrect == Spec => []TypeOK
<1>1. Spec => Init /\ [][Next]_vars
  BY DEF Spec
<1> QED BY <1>1, TypeInit, TypeStep, PTL

-----------------------------------------------------------------------------
(* Challenges.                                                             *)

\* What the broker remembers of the challenges, after a step.
LEMMA MemoryCases ==
    ASSUME TypeOK, [Next]_vars
    PROVE  \/ known' = known /\ UNCHANGED <<expired, issued, sent, wiped>>
           \/ /\ issued' = issued + 1 /\ known' = known \cup {issued + 1}
              /\ UNCHANGED <<expired, sent, wiped>>
           \/ \E i \in expired : known' = known \ {i} /\ UNCHANGED <<expired, issued, sent, wiped>>
           \/ \E i \in known : /\ known' = known \ {i} /\ sent' = Append(sent, i)
                               /\ UNCHANGED <<expired, issued, wiped>>
           \/ \E i \in 1..issued :
                /\ expired' = expired \cup {i} /\ \A r \in Runs : run[r].id # i
                /\ UNCHANGED <<known, issued, sent, wiped, run>>
           \/ known' = {} /\ wiped' = wiped \cup known /\ UNCHANGED <<expired, issued, sent>>
<1>1. ASSUME NEW r \in Runs, Script(r)
      PROVE  UNCHANGED <<known, expired, issued, sent, wiped>>
  BY <1>1 DEF Script, Start, Connect, Request, TimeOut, Quote, Open, Mount, Unreachable,
              GiveUp, Abort, brokerVars
<1>2. ASSUME NEW h \in Handlers, NEW lost \in BOOLEAN, HandleChallenge(h, lost)
      PROVE  /\ issued' = issued + 1 /\ known' = known \cup {issued + 1}
             /\ UNCHANGED <<expired, sent, wiped>>
  BY <1>2 DEF HandleChallenge
<1>3. ASSUME NEW h \in Handlers, NEW lost \in BOOLEAN, Release(h, lost)
      PROVE  \/ UNCHANGED <<known, expired, issued, sent, wiped>>
             \/ \E i \in known : /\ known' = known \ {i} /\ sent' = Append(sent, i)
                                 /\ UNCHANGED <<expired, issued, wiped>>
  BY <1>3 DEF Release
<1>4. ASSUME NEW h \in Handlers, CheckChallenge(h)
      PROVE  \/ UNCHANGED <<known, expired, issued, sent, wiped>>
             \/ \E i \in expired :
                  known' = known \ {i} /\ UNCHANGED <<expired, issued, sent, wiped>>
  <2> DEFINE i == handler[h].id
  <2>1. CASE i \in known \ expired
    BY <1>4, <2>1 DEF CheckChallenge
  <2>2. CASE i \in expired
    BY <1>4, <2>2 DEF CheckChallenge
  <2>3. CASE i \notin known
    <3>1. known' = known \ {i}
      BY <1>4, <2>3 DEF CheckChallenge
    <3> QED BY <1>4, <2>3, <3>1 DEF CheckChallenge
  <2> QED BY <2>1, <2>2, <2>3
<1>5. ASSUME NEW h \in Handlers, ReadVault(h) \/ VaultFails(h)
      PROVE  UNCHANGED <<known, expired, issued, sent, wiped>>
  BY <1>5 DEF ReadVault, VaultFails
<1>6. ASSUME NEW i \in 1..issued, Expire(i)
      PROVE  /\ expired' = expired \cup {i} /\ \A r \in Runs : run[r].id # i
             /\ UNCHANGED <<known, issued, sent, wiped, run>>
  BY <1>6 DEF Expire, ipcVars
<1>7. ASSUME Reboot \/ Stall \/ Reset PROVE UNCHANGED <<known, expired, issued, sent, wiped>>
  BY <1>7 DEF Reboot, Stall, Reset
<1>8. ASSUME BrokerRestart
      PROVE  known' = {} /\ wiped' = wiped \cup known /\ UNCHANGED <<expired, issued, sent>>
  BY <1>8 DEF BrokerRestart
<1>9. ASSUME UNCHANGED vars PROVE UNCHANGED <<known, expired, issued, sent, wiped>>
  BY <1>9 DEF vars, brokerVars
<1>10. CASE \E r \in Runs : Script(r)
  BY <1>1, <1>10
<1>11. CASE \E h \in Handlers, lost \in BOOLEAN : HandleChallenge(h, lost)
  BY <1>2, <1>11
<1>12. CASE \E h \in Handlers, lost \in BOOLEAN : Release(h, lost)
  BY <1>3, <1>12
<1>13. CASE \E h \in Handlers : CheckChallenge(h)
  BY <1>4, <1>13
<1>14. CASE \E h \in Handlers : ReadVault(h) \/ VaultFails(h)
  BY <1>5, <1>14
<1>15. CASE \E i \in 1..issued : Expire(i)
  BY <1>6, <1>15
<1> QED BY StepCases, <1>7, <1>8, <1>9, <1>10, <1>11, <1>12, <1>13, <1>14, <1>15

\* A secret is sent for a challenge that is remembered, which is then
\* forgotten; the next one issued is a new one.
LEMMA ReleaseStep ==
    ASSUME TypeOK, UsedUp, ReleasedOnce, [Next]_vars PROVE UsedUp' /\ ReleasedOnce'
<1>0. /\ issued \in Nat /\ sent \in Seq(1..issued) /\ known \subseteq 1..issued
      /\ \A n \in 1..Len(sent) : sent[n] \in 1..issued
  BY DEF TypeOK
<1>1. CASE sent' = sent /\ known' \subseteq known
  BY <1>1 DEF UsedUp, ReleasedOnce
<1>2. CASE sent' = sent /\ known' = known \cup {issued + 1}
  <2>1. issued + 1 \notin 1..issued
    BY <1>0
  <2> QED BY <1>0, <1>2, <2>1 DEF UsedUp, ReleasedOnce
<1>3. ASSUME NEW i \in known, known' = known \ {i}, sent' = Append(sent, i)
      PROVE  UsedUp' /\ ReleasedOnce'
  <2>1. /\ Len(sent') = Len(sent) + 1 /\ Len(sent) \in Nat
        /\ \A n \in 1..Len(sent) : sent'[n] = sent[n] /\ sent[n] # i
        /\ sent'[Len(sent) + 1] = i
    BY <1>0, <1>3 DEF UsedUp
  <2>2. \A n \in 1..Len(sent') : n \in 1..Len(sent) \/ n = Len(sent) + 1
    BY <2>1
  <2>3. UsedUp'
    BY <1>3, <2>1, <2>2 DEF UsedUp
  <2>4. ReleasedOnce'
    BY <2>1, <2>2 DEF ReleasedOnce
  <2> QED BY <2>3, <2>4
<1>4. \/ sent' = sent /\ known' \subseteq known
      \/ sent' = sent /\ known' = known \cup {issued + 1}
      \/ \E i \in known : known' = known \ {i} /\ sent' = Append(sent, i)
  <2> USE MemoryCases
  <2>1. CASE \E i \in known : known' = known \ {i} /\ sent' = Append(sent, i)
    BY <2>1
  <2>2. CASE ~\E i \in known : known' = known \ {i} /\ sent' = Append(sent, i)
    <3>1. sent' = sent
      BY <2>2
    <3>2. \/ known' = known \/ known' = known \cup {issued + 1}
          \/ \E i \in expired : known' = known \ {i}
          \/ known' = {}
      BY <2>2
    <3> QED BY <3>1, <3>2
  <2> QED BY <2>1, <2>2
<1>5. CASE \E i \in known : known' = known \ {i} /\ sent' = Append(sent, i)
  BY <1>3, <1>5
<1> QED BY <1>1, <1>2, <1>4, <1>5

\* No challenge gives two secrets, in every state.
THEOREM OneSecretPerChallenge == Spec => []ReleasedOnce
<1>1. Init => TypeOK /\ UsedUp /\ ReleasedOnce
  <2> SUFFICES ASSUME Init PROVE TypeOK /\ UsedUp /\ ReleasedOnce
    OBVIOUS
  <2>1. 1..Len(sent) = {}
    BY DEF Init
  <2> QED BY <2>1, TypeInit DEF UsedUp, ReleasedOnce
<1>2. TypeOK /\ UsedUp /\ ReleasedOnce /\ [Next]_vars => (TypeOK /\ UsedUp /\ ReleasedOnce)'
  BY TypeStep, ReleaseStep
<1>3. Spec => Init /\ [][Next]_vars
  BY DEF Spec
<1> QED BY <1>1, <1>2, <1>3, PTL

\* The challenge of a run, after a step: the one it had, if it still needs it,
\* or the one that was just issued.
LEMMA RunCases ==
    ASSUME TypeOK, [Next]_vars, NEW r \in Runs
    PROVE  \/ run'[r].pc \notin {"quote", "unlock"} /\ run'[r].id \in {0, run[r].id}
           \/ run[r].pc \in {"quote", "unlock"} /\ run'[r].id = run[r].id
           \/ /\ run'[r].id = issued + 1 /\ known' = known \cup {issued + 1}
              /\ UNCHANGED expired
<1> DEFINE Same == \/ run'[r].pc = run[r].pc /\ run'[r].id = run[r].id
                   \/ run'[r].pc = "failed" /\ run'[r].id = 0
<1>0. run \in [Runs -> RunState]
  BY DEF TypeOK
<1>1. ASSUME NEW clients, run' = Retried(clients) PROVE Same
  BY <1>1, RetriedIs DEF Failed
<1>2. ASSUME UNCHANGED run PROVE Same
  BY <1>2
<1>3. ASSUME NEW x \in Runs,
             Unreachable(x) \/ TimeOut(x) \/ GiveUp(x) \/ Connect(x) \/ Request(x)
      PROVE  Same
  BY <1>1, <1>2, <1>3 DEF Unreachable, TimeOut, GiveUp, Connect, Request, ipcVars
<1>4. ASSUME NEW x \in Runs, Start(x) \/ Mount(x) \/ Abort(x)
      PROVE  Same \/ (run'[r].pc \notin {"quote", "unlock"} /\ run'[r].id = 0)
  BY <1>0, <1>4 DEF Start, Mount, Abort, Done, Failed
<1>5. ASSUME NEW x \in Runs, Quote(x)
      PROVE  Same \/ (run[r].pc = "quote" /\ run'[r].id = run[r].id)
  BY <1>0, <1>5 DEF Quote, RunState
<1>6. ASSUME NEW x \in Runs, Open(x)
      PROVE  Same \/ (run'[r].pc \notin {"quote", "unlock"} /\ run'[r].id \in {0, run[r].id})
  <2>1. CASE x = Boot
    <3>1. run' = [run EXCEPT ![x].pc = "mount"]
      BY <1>6, <2>1 DEF Open
    <3> QED BY <1>0, <3>1 DEF RunState
  <2>2. CASE x # Boot
    BY <1>0, <1>6, <2>2 DEF Open, Done
  <2> QED BY <2>1, <2>2
<1>7. ASSUME NEW h \in Handlers, CheckChallenge(h) \/ ReadVault(h) \/ VaultFails(h)
      PROVE  Same
  BY <1>1, <1>2, <1>7 DEF CheckChallenge, ReadVault, VaultFails, Refuse, ipcVars
<1>8. ASSUME NEW h \in Handlers, NEW lost \in BOOLEAN, HandleChallenge(h, lost)
      PROVE  Same \/ (/\ run'[r].id = issued + 1 /\ known' = known \cup {issued + 1}
                      /\ UNCHANGED expired)
  <2> DEFINE c == handler[h].client
  <2>1. CASE lost \/ c = None
    BY <1>1, <1>8, <2>1 DEF HandleChallenge
  <2>2. CASE ~(lost \/ c = None)
    <3>1. run' = [run EXCEPT ![c].pc = "quote", ![c].id = issued + 1]
          /\ known' = known \cup {issued + 1} /\ UNCHANGED expired
      BY <1>8, <2>2 DEF HandleChallenge
    <3>2. c \in Runs /\ run[c] \in RunState
      BY <2>2 DEF TypeOK, HandlerState
    <3> HIDE DEF c
    <3>3. run'[r] = IF r = c THEN [run[c] EXCEPT !.pc = "quote", !.id = issued + 1] ELSE run[r]
      BY <1>0, <3>1, <3>2
    <3>4. CASE r = c
      <4>1. [run[c] EXCEPT !.pc = "quote", !.id = issued + 1].id = issued + 1
        BY <3>2 DEF RunState
      <4> QED BY <3>1, <3>3, <3>4, <4>1
    <3>5. CASE r # c
      BY <3>3, <3>5
    <3> QED BY <3>4, <3>5
  <2> QED BY <2>1, <2>2
<1>9. ASSUME NEW h \in Handlers, NEW lost \in BOOLEAN, Release(h, lost)
      PROVE  Same \/ (run'[r].pc = "open" /\ run'[r].id = run[r].id)
  <2> DEFINE c == handler[h].client
  <2>1. CASE handler[h].id \notin known \/ lost \/ c = None
    <3>1. run' = Retried({c})
      BY <1>9, <2>1 DEF Release, Refuse
    <3> QED BY <1>1, <3>1
  <2>2. CASE handler[h].id \in known /\ ~(lost \/ c = None)
    <3>1. run' = [run EXCEPT ![c].pc = "open"]
      BY <1>9, <2>2 DEF Release
    <3>2. c \in Runs /\ run[c] \in RunState
      BY <2>2 DEF TypeOK, HandlerState
    <3> HIDE DEF c
    <3> QED BY <1>0, <3>1, <3>2 DEF RunState
  <2> QED BY <2>1, <2>2
<1>10. ASSUME NEW i \in 1..issued, Expire(i) PROVE Same
  BY <1>2, <1>10 DEF Expire, ipcVars
<1>11. ASSUME Reboot
       PROVE  Same \/ (run'[r].pc \notin {"quote", "unlock"} /\ run'[r].id = 0)
  BY <1>11 DEF Reboot, Off, Failed
<1>12. ASSUME BrokerRestart PROVE Same
  BY <1>1, <1>12 DEF BrokerRestart
<1>13. ASSUME UNCHANGED vars \/ Stall \/ Reset PROVE Same
  BY <1>2, <1>13 DEF vars, Stall, Reset, ipcVars
<1>14. Same => \/ run'[r].pc \notin {"quote", "unlock"} /\ run'[r].id \in {0, run[r].id}
               \/ run[r].pc \in {"quote", "unlock"} /\ run'[r].id = run[r].id
  OBVIOUS
<1> HIDE DEF Same
<1>15. CASE \E x \in Runs : Script(x)
  <2> PICK x \in Runs : Script(x)
    BY <1>15
  <2>1. CASE Open(x)
    BY <2>1, <1>6, <1>14
  <2>2. CASE Quote(x)
    BY <2>2, <1>5, <1>14
  <2>3. CASE Start(x) \/ Mount(x) \/ Abort(x)
    BY <2>3, <1>4, <1>14
  <2>4. CASE Unreachable(x) \/ TimeOut(x) \/ GiveUp(x) \/ Connect(x) \/ Request(x)
    BY <2>4, <1>3, <1>14
  <2> QED BY <2>1, <2>2, <2>3, <2>4 DEF Script
<1>16. CASE \E h \in Handlers, lost \in BOOLEAN : HandleChallenge(h, lost) \/ Release(h, lost)
  <2> PICK h \in Handlers, lost \in BOOLEAN : HandleChallenge(h, lost) \/ Release(h, lost)
    BY <1>16
  <2>1. CASE HandleChallenge(h, lost)
    BY <2>1, <1>8, <1>14
  <2>2. CASE Release(h, lost)
    BY <2>2, <1>9, <1>14
  <2> QED BY <2>1, <2>2
<1> QED BY StepCases, <1>7, <1>10, <1>11, <1>12, <1>13, <1>14, <1>15, <1>16

\* A challenge that has not expired stays remembered, unless a secret is sent
\* for it or the broker restarts.
Kept(i) ==
    i \in known \/ i \in wiped \/ \E n \in 1..Len(sent) : sent[n] = i

LEMMA KeptStep ==
    ASSUME TypeOK, [Next]_vars, NEW i, i \notin expired, Kept(i)
    PROVE  i \in known' \/ i \in wiped' \/ \E n \in 1..Len(sent') : sent'[n] = i
<1>0. sent \in Seq(1..issued)
  BY DEF TypeOK
<1>1. CASE sent' = sent /\ wiped' = wiped /\ known \ expired \subseteq known'
  BY <1>1 DEF Kept
<1>2. ASSUME NEW j \in known, known' = known \ {j}, sent' = Append(sent, j), wiped' = wiped
      PROVE  i \in known' \/ i \in wiped' \/ \E n \in 1..Len(sent') : sent'[n] = i
  <2>1. /\ Len(sent') = Len(sent) + 1 /\ Len(sent) \in Nat /\ sent'[Len(sent) + 1] = j
        /\ \A n \in 1..Len(sent) : n \in 1..Len(sent') /\ sent'[n] = sent[n]
        /\ Len(sent) + 1 \in 1..Len(sent')
    BY <1>0, <1>2
  <2> QED BY <1>2, <2>1 DEF Kept
<1>3. CASE known' = {} /\ wiped' = wiped \cup known /\ sent' = sent
  BY <1>3 DEF Kept
<1>4. CASE \E j \in known : known' = known \ {j} /\ sent' = Append(sent, j) /\ wiped' = wiped
  BY <1>2, <1>4
<1> QED BY <1>1, <1>3, <1>4, MemoryCases

LEMMA ChallengeStep ==
    ASSUME IInv, [Next]_vars PROVE Fresh' /\ ChallengeKept'
<1>0. TypeOK /\ Fresh /\ TypeOK' /\ issued \in Nat /\ expired \subseteq 1..issued
  BY TypeStep DEF IInv, TypeOK
<1>1. \/ expired' = expired
      \/ \E i \in 1..issued : /\ expired' = expired \cup {i}
                              /\ \A r \in Runs : run[r].id # i /\ run'[r] = run[r]
  BY <1>0, MemoryCases
<1>2. ASSUME NEW r \in Runs PROVE run'[r].id \notin expired'
  <2>1. 0 \notin expired' /\ issued + 1 \notin expired
    BY <1>0 DEF TypeOK
  <2> QED BY <1>0, <1>1, <2>1, RunCases DEF Fresh
<1>3. ASSUME NEW r \in Runs, run'[r].pc \in {"quote", "unlock"}
      PROVE  \/ run'[r].id \in known' \/ run'[r].id \in wiped'
             \/ \E n \in 1..Len(sent') : sent'[n] = run'[r].id
  <2>1. CASE run[r].pc \in {"quote", "unlock"} /\ run'[r].id = run[r].id
    <3>1. Kept(run[r].id) /\ run[r].id \notin expired
      BY <2>1, <1>0 DEF IInv, ChallengeKept, Kept, Fresh
    <3>2. PICK i : i = run[r].id
      OBVIOUS
    <3>3. Kept(i) /\ i \notin expired
      BY <3>1, <3>2
    <3>4. i \in known' \/ i \in wiped' \/ \E n \in 1..Len(sent') : sent'[n] = i
      BY <1>0, <3>3, KeptStep
    <3> QED BY <2>1, <3>2, <3>4
  <2>2. CASE run'[r].id = issued + 1 /\ known' = known \cup {issued + 1}
    BY <2>2
  <2> QED BY <1>0, <1>3, <2>1, <2>2, RunCases
<1> QED BY <1>2, <1>3 DEF Fresh, ChallengeKept

\* A run that still needs its challenge finds it, unless a secret was sent
\* for it or the broker has restarted, in every state.
THEOREM ChallengesAreKept == Spec => []ChallengeKept
<1>1. Init => IInv
  <2> SUFFICES ASSUME Init PROVE IInv
    OBVIOUS
  <2>1. 1..Len(sent) = {} /\ \A r \in Runs : run[r] = Off
    BY DEF Init
  <2>2. expired = {}
    BY DEF Init
  <2> QED BY <2>1, <2>2, TypeInit DEF IInv, UsedUp, ReleasedOnce, Fresh, ChallengeKept, Off
<1>2. IInv /\ [Next]_vars => IInv'
  BY TypeStep, ReleaseStep, ChallengeStep DEF IInv
<1>3. IInv => ChallengeKept
  BY DEF IInv
<1>4. Spec => Init /\ [][Next]_vars
  BY DEF Spec
<1> QED BY <1>1, <1>2, <1>3, <1>4, PTL
=============================================================================
