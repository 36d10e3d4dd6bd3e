-------------------------- MODULE MCTimerThread --------------------------
(* Instances of TimerThread for TLC: the programs that the runs put        *)
(* together, with one client that does one thing and others that do        *)
(* another.                                                                *)
EXTENDS TimerThread

CONSTANTS c1

(* What the first client, the other ones and the callbacks call. *)
MCUse(one, others, callback) ==
  [client |-> [c \in Clients |-> IF c = c1 THEN one ELSE others], callback |-> callback]

(* Clients remove timers; callbacks remove their own and others. *)
MCLive == {MCUse({"add", "remove"}, {"add"}, {}),
           MCUse({"add"}, {}, {"remove", "removeself"})}

(* Timers are rescheduled and changed while they are removed, and while    *)
(* callbacks wait in Idle.                                                 *)
MCMaintain == {MCUse({"add", "remove", "reschedule"}, {"add"}, {"reschedule"}),
               MCUse({"add", "remove"}, {"add", "change"}, {"idle"}),
               MCUse({"add"}, {"reschedule", "change"},
                     {"add", "idle", "remove", "removeself"})}

MCSelfRemoval == {MCUse({"add", "remove"}, {}, {"removeself"})}
=============================================================================
