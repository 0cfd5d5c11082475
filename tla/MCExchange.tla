----------------------------- MODULE MCExchange -----------------------------
(* Two adds of one identifier with two dates, an add of another one, the   *)
(* delete of the first identifier and the reset: every pair of kinds can   *)
(* meet in the registers.                                                  *)
EXTENDS Exchange

Electric == [ZeroBody EXCEPT !.profile = 3, !.elec = 60000]

At(i, t) == [id |-> i, time |-> t, body |-> Electric]

MCRequests == {At(1, 1), At(2, 0), [Empty EXCEPT !.id = 1]}

MCCommands ==
    {[kind |-> "add", block |-> At(1, 1)],
     [kind |-> "add", block |-> At(2, 0)],
     [kind |-> "delete", block |-> [Empty EXCEPT !.id = 1]],
     [kind |-> "reset", block |-> Empty]}
(* Adds only: what an answer to one add says of another.                   *)
MCAdds == {c \in MCCommands : c.kind = "add"}

(* Neither the consigne nor the full flag decides anything here, nor does  *)
(* the published clock but through PlcNow, nor a command once it is        *)
(* answered, but for what the answer was: the fingerprint leaves them out. *)
Handled == stage \in Stages \ {"idle"}

MCView ==
    <<registers, slots, crc, crcState, orders, thread, now, PlcNow, connected, stage,
      read, held, gone,
      IF Handled THEN <<command, fate>> ELSE <<reply = "ok" /\ fate = "pending">> >>
=============================================================================
