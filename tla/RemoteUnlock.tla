---------------------------- MODULE RemoteUnlock ----------------------------
(***************************************************************************)
(* How an IPC gets the key of its data volume: the script run by systemd   *)
(* at boot (cascadya-unlock-data.sh) or by a playbook as a dry run, and    *)
(* the broker (remote_unlock_demo_broker.py), which hands out challenges   *)
(* and releases the secret kept in Vault against one of them.              *)
(*                                                                         *)
(* The broker takes one connection at a time, TLS handshake included and   *)
(* without a timeout (it wraps the socket it listens on), and then serves  *)
(* the request in a thread of its own; it keeps the challenges in memory,  *)
(* without a lock.  The script gives up a request after some time and      *)
(* sends it again, the same, while the thread of the first one goes on.    *)
(* Requests, answers, Vault, the broker and the IPC fail, at most          *)
(* MaxFaults times.                                                        *)
(*                                                                         *)
(* The clocks are left out: what fits in the retry window of a run (180 s) *)
(* is a number of tries, and a challenge (300 s) outlives the window of    *)
(* the run that asked for it, the time of its last try (20 s) included.    *)
(***************************************************************************)
EXTENDS Naturals, Sequences

CONSTANTS
    Boot,       \* the run of the script by systemd
    DryRuns,    \* the dry runs, by remote-unlock-validate.yml
    Handlers,   \* bound: the requests served at a time
    MaxTries,   \* bound: the tries that follow the first one in the window
    MaxFaults,  \* bound: the failures of all kinds
    None,       \* the client of a thread that nobody waits for
    Gone        \* a client that went in its handshake, and nothing tells so

ASSUME RemoteUnlockAssumption ==
    /\ Boot \notin DryRuns
    /\ None \notin DryRuns \cup {Boot}
    /\ Gone \notin DryRuns \cup {Boot, None}
    /\ MaxTries \in Nat
    /\ MaxFaults \in Nat

Runs == {Boot} \cup DryRuns

VARIABLES
    known,      \* CHALLENGES: the challenges the broker remembers
    expired,    \* those older than challenge_ttl_seconds
    issued,     \* the number of challenges ever issued, the last one's id
    accepting,  \* the client whose handshake the accept loop is in, or None
    handler,    \* the threads of the broker
    run,        \* the runs of the script
    mapper,     \* the volume is open (/dev/mapper/...)
    mounted,    \* and mounted
    sent,       \* history: the challenges answered with a secret, in order
    wiped,      \* history: the challenges lost when the broker stopped
    faults      \* the failures so far

brokerVars == <<known, expired, issued, accepting, handler, sent, wiped>>
ipcVars == <<run, mapper, mounted>>
vars == <<brokerVars, ipcVars, faults>>

Free == [pc |-> "free", id |-> 0, client |-> None]
Off == [pc |-> "off", id |-> 0, tries |-> 0]
Failed == [pc |-> "failed", id |-> 0, tries |-> 0]
Done == [pc |-> "done", id |-> 0, tries |-> 0]

Fault == faults < MaxFaults /\ faults' = faults + 1

\* Mutant: no deadline, the requests are repeated for ever.
RetriedForever(clients) == run

\* Mutant: the deadline is looked at after one try too many.
RetriedLate(clients) ==
    [r \in Runs |-> IF r \notin clients THEN run[r]
                    ELSE IF run[r].tries + 1 = 0 THEN Failed
                    ELSE [run[r] EXCEPT !.tries = @ - 1]]

\* What is left of the runs when the requests of some fail (set -e, and
\* curl_json_with_retry: another try, unless the window is over).
Retried(clients) ==
    [r \in Runs |-> IF r \notin clients THEN run[r]
                    ELSE IF run[r].tries = 0 THEN Failed
                    ELSE [run[r] EXCEPT !.tries = @ - 1]]

\* Clients that go in their handshake: accept() fails and the loop goes on when
\* the end of the connection reaches the broker; else it waits for them.
Leave(clients) ==
    IF accepting \in clients THEN accepting' \in {None, Gone}
                            ELSE UNCHANGED accepting

\* A run that ends closes its connection; the thread does not notice.
Unanswered(r) ==
    [h \in Handlers |-> IF handler[h].client = r
                        THEN [handler[h] EXCEPT !.client = None] ELSE handler[h]]

-----------------------------------------------------------------------------
(* The script *)

Asks(r) == run[r].pc \in {"challenge", "unlock"}
Waiting(r) == accepting = r \/ \E h \in Handlers : handler[h].client = r

\* systemd starts the service at boot and again when it has failed; an IPC
\* whose volume is mounted has nothing to do.  A dry run asks all the same.
Start(r) ==
    /\ run[r].pc \in IF r = Boot THEN {"off", "failed"} ELSE {"off"}
    /\ run' = [run EXCEPT ![r] =
                 IF r = Boot /\ mounted THEN Done
                 ELSE [pc |-> "challenge", id |-> 0, tries |-> MaxTries]]
    /\ UNCHANGED <<brokerVars, mapper, mounted, faults>>

\* A connection reaches the broker; the next one waits for its turn.
Connect(r) ==
    /\ Asks(r) /\ ~Waiting(r)
    /\ accepting = None
    /\ accepting' = r
    /\ UNCHANGED <<known, expired, issued, handler, sent, wiped, ipcVars, faults>>

\* The handshake ends, the request gets a thread.
Request(r) ==
    /\ Asks(r)
    /\ accepting = r
    /\ accepting' = None
    /\ \E h \in Handlers :
         /\ handler[h].pc = "free"
         /\ handler' = [handler EXCEPT ![h] =
                          [pc |-> run[r].pc, id |-> run[r].id, client |-> r]]
    /\ UNCHANGED <<known, expired, issued, sent, wiped, ipcVars, faults>>

\* --connect-timeout: the accept loop is with a client that is gone.
TimeOut(r) ==
    /\ Asks(r) /\ ~Waiting(r)
    /\ accepting = Gone
    /\ run' = Retried({r})
    /\ UNCHANGED <<brokerVars, mapper, mounted, faults>>

\* It does not: no route, no connection.
Unreachable(r) ==
    /\ Fault
    /\ Asks(r) /\ ~Waiting(r)
    /\ run' = Retried({r})
    /\ UNCHANGED <<brokerVars, mapper, mounted>>

\* --max-time: the script no longer waits, the thread goes on.
GiveUp(r) ==
    /\ Fault
    /\ Waiting(r)
    /\ Leave({r})
    /\ handler' = Unanswered(r)
    /\ run' = Retried({r})
    /\ UNCHANGED <<known, expired, issued, sent, wiped, mapper, mounted>>

Quote(r) ==
    /\ run[r].pc = "quote"
    /\ run' = [run EXCEPT ![r].pc = "unlock"]
    /\ UNCHANGED <<brokerVars, mapper, mounted, faults>>

\* The secret has come: a dry run stops here, cryptsetup opens the volume
\* unless an earlier run has.
Open(r) ==
    /\ run[r].pc = "open"
    /\ IF r = Boot
       THEN /\ mapper' = TRUE
            /\ run' = [run EXCEPT ![r].pc = "mount"]
       ELSE /\ run' = [run EXCEPT ![r] = Done]
            /\ UNCHANGED mapper
    /\ UNCHANGED <<brokerVars, mounted, faults>>

Mount(r) ==
    /\ run[r].pc = "mount"
    /\ mounted' = TRUE
    /\ run' = [run EXCEPT ![r] = Done]
    /\ UNCHANGED <<brokerVars, mapper, faults>>

\* A command of the script fails, or systemd stops it (TimeoutStartSec).
Abort(r) ==
    /\ Fault
    /\ run[r].pc \notin {"off", "failed", "done"}
    /\ run' = [run EXCEPT ![r] = Failed]
    /\ Leave({r})
    /\ handler' = Unanswered(r)
    /\ UNCHANGED <<known, expired, issued, sent, wiped, mapper, mounted>>

\* The IPC restarts.
Reboot ==
    /\ Fault
    /\ run' = [r \in Runs |-> IF r = Boot \/ run[r].pc = "off" THEN Off ELSE Failed]
    /\ Leave(Runs)
    /\ handler' = [h \in Handlers |-> [handler[h] EXCEPT !.client = None]]
    /\ mapper' = FALSE
    /\ mounted' = FALSE
    /\ UNCHANGED <<known, expired, issued, sent, wiped>>

-----------------------------------------------------------------------------
(* The broker *)

\* Another client of the broker, another IPC say, goes in its handshake.
Stall ==
    /\ Fault
    /\ accepting = None
    /\ accepting' = Gone
    /\ UNCHANGED <<known, expired, issued, handler, sent, wiped, ipcVars>>

\* TCP finds out that the client is gone, which it may never do.
Reset ==
    /\ accepting = Gone
    /\ accepting' = None
    /\ UNCHANGED <<known, expired, issued, handler, sent, wiped, ipcVars, faults>>

\* The thread answers with an error, which curl --fail makes a failed try.
Refuse(h) ==
    /\ run' = Retried({handler[h].client})
    /\ handler' = [handler EXCEPT ![h] = Free]

\* handle_challenge; the answer may be lost on its way.
HandleChallenge(h, lost) ==
    LET c == handler[h].client
    IN  /\ handler[h].pc = "challenge"
        /\ issued' = issued + 1
        /\ known' = known \cup {issued + 1}
        /\ IF lost THEN Fault ELSE UNCHANGED faults
        /\ run' = IF lost \/ c = None THEN Retried({c})
                  ELSE [run EXCEPT ![c].pc = "quote", ![c].id = issued + 1]
        /\ handler' = [handler EXCEPT ![h] = Free]
        /\ UNCHANGED <<expired, accepting, sent, wiped, mapper, mounted>>

\* Mutant: the challenge is deleted as soon as it is accepted.
CheckChallengeDeletes(h) ==
    LET i == handler[h].id
    IN  /\ handler[h].pc = "unlock"
        /\ IF i \in known \ expired
           THEN /\ handler' = [handler EXCEPT ![h].pc = "vault"]
                /\ UNCHANGED run
           ELSE Refuse(h)
        /\ known' = known \ {i}
        /\ UNCHANGED <<expired, issued, accepting, sent, wiped, mapper, mounted, faults>>

\* handle_unlock, up to the reading of Vault.  The script gives the nonce it
\* was given, under the name of its certificate.
CheckChallenge(h) ==
    LET i == handler[h].id
    IN  /\ handler[h].pc = "unlock"
        /\ IF i \in known \ expired
           THEN /\ handler' = [handler EXCEPT ![h].pc = "vault"]
                /\ UNCHANGED <<run, known>>
           ELSE /\ Refuse(h)
                /\ known' = known \ {i}
        /\ UNCHANGED <<expired, issued, accepting, sent, wiped, mapper, mounted, faults>>

\* vault_read_secret; an error leaves the challenge as it was.
ReadVault(h) ==
    /\ handler[h].pc = "vault"
    /\ handler' = [handler EXCEPT ![h].pc = "release"]
    /\ UNCHANGED <<known, expired, issued, accepting, sent, wiped, ipcVars, faults>>

VaultFails(h) ==
    /\ Fault
    /\ handler[h].pc = "vault"
    /\ Refuse(h)
    /\ UNCHANGED <<known, expired, issued, accepting, sent, wiped, mapper, mounted>>

\* Mutant: the challenge is deleted if it is still there (pop), and the secret
\* sent all the same.
ReleasePop(h, lost) ==
    LET i == handler[h].id
        c == handler[h].client
    IN  /\ handler[h].pc = "release"
        /\ known' = known \ {i}
        /\ sent' = Append(sent, i)
        /\ handler' = [handler EXCEPT ![h] = Free]
        /\ run' = IF lost \/ c = None THEN Retried({c})
                  ELSE [run EXCEPT ![c].pc = "open"]
        /\ IF lost THEN Fault ELSE UNCHANGED faults
        /\ UNCHANGED <<expired, issued, accepting, wiped, mapper, mounted>>

\* The rest of handle_unlock: the challenge is deleted, the secret sent.  A
\* thread that finds it deleted stops there (KeyError) and answers an error.
Release(h, lost) ==
    LET i == handler[h].id
        c == handler[h].client
    IN  /\ handler[h].pc = "release"
        /\ IF i \in known
           THEN /\ known' = known \ {i}
                /\ sent' = Append(sent, i)
                /\ handler' = [handler EXCEPT ![h] = Free]
                /\ run' = IF lost \/ c = None THEN Retried({c})
                          ELSE [run EXCEPT ![c].pc = "open"]
                /\ IF lost THEN Fault ELSE UNCHANGED faults
           ELSE /\ ~lost
                /\ Refuse(h)
                /\ UNCHANGED <<known, sent, faults>>
        /\ UNCHANGED <<expired, issued, accepting, wiped, mapper, mounted>>

\* challenge_ttl_seconds go by; the run that asked for the challenge is over.
Expire(i) ==
    /\ i \in 1..issued /\ i \notin expired
    /\ \A r \in Runs : run[r].id # i
    /\ expired' = expired \cup {i}
    /\ UNCHANGED <<known, issued, accepting, handler, sent, wiped, ipcVars, faults>>

\* The broker stops and starts again: its memory and its threads are gone.
BrokerRestart ==
    /\ Fault
    /\ known' = {}
    /\ wiped' = wiped \cup known
    /\ accepting' = None
    /\ handler' = [h \in Handlers |-> Free]
    /\ run' = Retried({r \in Runs : Waiting(r)})
    /\ UNCHANGED <<expired, issued, sent, mapper, mounted>>

-----------------------------------------------------------------------------
Init ==
    /\ known = {} /\ expired = {} /\ issued = 0
    /\ accepting = None
    /\ handler = [h \in Handlers |-> Free]
    /\ run = [r \in Runs |-> Off]
    /\ mapper = FALSE /\ mounted = FALSE
    /\ sent = <<>> /\ wiped = {} /\ faults = 0

Advance(r) ==
    Connect(r) \/ Request(r) \/ TimeOut(r) \/ Quote(r) \/ Open(r) \/ Mount(r)

Serve(h) ==
    \/ HandleChallenge(h, FALSE) \/ CheckChallenge(h) \/ ReadVault(h)
    \/ Release(h, FALSE)

Fail ==
    \/ \E r \in Runs : Unreachable(r) \/ GiveUp(r) \/ Abort(r)
    \/ \E h \in Handlers : HandleChallenge(h, TRUE) \/ VaultFails(h) \/ Release(h, TRUE)
    \/ Stall \/ Reboot \/ BrokerRestart

Next ==
    \/ \E r \in Runs : Start(r) \/ Advance(r)
    \/ \E h \in Handlers : Serve(h)
    \/ \E i \in 1..issued : Expire(i)
    \/ Reset \/ Fail

\* systemd starts the service and restarts it when it fails, the scripts, the
\* handshakes of clients that are there and the threads of the broker go on.
\* Nothing makes the accept loop leave a client that is gone.
Fairness ==
    /\ WF_vars(Start(Boot))
    /\ \A r \in Runs : WF_vars(Advance(r))
    /\ \A h \in Handlers : WF_vars(Serve(h))

Spec == Init /\ [][Next]_vars /\ Fairness

-----------------------------------------------------------------------------
RunState == [pc : {"off", "challenge", "quote", "unlock", "open", "mount",
                   "failed", "done"},
             id : Nat, tries : 0..MaxTries]
HandlerState == [pc : {"free", "challenge", "unlock", "vault", "release"},
                 id : Nat, client : Runs \cup {None}]

TypeOK ==
    /\ issued \in Nat
    /\ known \subseteq 1..issued /\ expired \subseteq 1..issued
    /\ wiped \subseteq 1..issued /\ sent \in Seq(1..issued)
    /\ accepting \in Runs \cup {None, Gone}
    /\ handler \in [Handlers -> HandlerState]
    /\ run \in [Runs -> RunState]
    /\ mapper \in BOOLEAN /\ mounted \in BOOLEAN
    /\ faults \in 0..MaxFaults

\* A challenge is good for one secret, although the script repeats its request
\* while the thread of the first one reads Vault (the broker contract asks for
\* challenges that bind one time): the threads race to delete it, and the one
\* that comes late fails.
ReleasedOnce ==
    \A m, n \in 1..Len(sent) : sent[m] = sent[n] => m = n

\* What goes wrong before the secret is sent costs a run nothing but a try:
\* the challenge of a run that still needs it is remembered, unless a secret
\* was sent for it (and lost) or the broker has restarted.
ChallengeKept ==
    \A r \in Runs : run[r].pc \in {"quote", "unlock"} =>
        \/ run[r].id \in known
        \/ run[r].id \in wiped
        \/ \E n \in 1..Len(sent) : sent[n] = run[r].id

\* Once nothing fails any more the data volume gets mounted and stays so,
\* unless the accept loop is left for ever in the handshake of a client that is
\* gone (build_unlock_server sets no timeout): a run whose challenge is used up
\* or forgotten, or whose tries ran out behind such a client, comes to an end,
\* and systemd starts another, which asks for a new one.
DataMounted == []<>(accepting # Gone) => <>[]mounted

=============================================================================
