---------------------------- MODULE DuckMotion ----------------------------
(***************************************************************************)
(* What the daemon promises about who moves the duck as a job, without     *)
(* saying how: one driver at a time, and after the user's stop nothing the *)
(* duck starts on its own account until somebody asks for a job again      *)
(* (quack-nav/src/explore/mod.rs, ExploreHandle::user_stop).  JobControl   *)
(* implements it.                                                          *)
(***************************************************************************)
VARIABLES driver,   \* "none", "own" or "user": on whose account a job runs
          stopped   \* a user's stop was carried out, no job asked for since

vars == <<driver, stopped>>

Init == driver = "none" /\ stopped = FALSE

Start(who) ==
    /\ driver = "none"
    /\ who = "own" => ~stopped
    /\ driver' = who
    /\ UNCHANGED stopped

End  == driver # "none" /\ driver' = "none" /\ UNCHANGED stopped
Stop == stopped' = TRUE /\ UNCHANGED driver
Ask  == stopped' = FALSE /\ UNCHANGED driver

Next == (\E who \in {"own", "user"} : Start(who)) \/ End \/ Stop \/ Ask

Spec == Init /\ [][Next]_vars
=============================================================================
