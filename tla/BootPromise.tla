---------------------------- MODULE BootPromise ----------------------------
(***************************************************************************)
(* What somebody watching the appliance boot may count on, whatever the    *)
(* SPL, U-Boot and userspace do to keep it: a fast (Falcon) boot is only   *)
(* started when no earlier fast boot is still waiting to be confirmed, and *)
(* only a confirmed userspace, a slow boot begun afresh or a loss of power *)
(* settles that debt.                                                      *)
(***************************************************************************)
VARIABLES phase,   \* "down", "fast", "slow" or "up"
          debt     \* a fast boot was started and nobody has confirmed it

Init == phase = "down" /\ debt = FALSE

StartFast  == phase = "down" /\ ~debt /\ phase' = "fast" /\ debt' = TRUE
StartSlow  == phase = "down" /\ phase' = "slow" /\ debt' = FALSE
FallToSlow == phase = "fast" /\ phase' = "slow" /\ UNCHANGED debt
Confirm    == phase \in {"fast", "slow"} /\ phase' = "up" /\ debt' = FALSE
GoDown     == phase' = "down" /\ UNCHANGED debt
LosePower  == phase' = "down" /\ debt' = FALSE

Next == StartFast \/ StartSlow \/ FallToSlow \/ Confirm \/ GoDown \/ LosePower

Spec == Init /\ [][Next]_<<phase, debt>>
=============================================================================
