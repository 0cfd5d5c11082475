------------------------------ MODULE MCPlanner ------------------------------
(* Two slots and requests for three identifiers, so that the queue fills;  *)
(* two requests for one identifier, dates that come due together, and one  *)
(* that is too far off until the year changes (a year has one instant).    *)
EXTENDS Planner

Electric == [ZeroBody EXCEPT !.profile = 3, !.elec = 60000]
Unknown  == [ZeroBody EXCEPT !.profile = 7]

At(i, t) == [id |-> i, time |-> t, body |-> Electric]

MCRequests ==
    {At(1, 0), At(1, 2), At(2, 1), At(3, 1), [Empty EXCEPT !.id = 1],
     [At(2, 2) EXCEPT !.body = Unknown]}

(* Nothing reads the status words here: the fingerprint leaves them out.   *)
MCView == <<prep, trigger, published, memory, thread, clocks>>

(* A single request for the liveness run, refused when its date is past.   *)
MCFewRequests == {At(1, 1)}
=============================================================================
