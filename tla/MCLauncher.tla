----------------------------- MODULE MCLauncher -----------------------------
(***************************************************************************)
(* The script's own MIN_OFF_S and SETTLE_MS, four ticks to the second, so  *)
(* that a detach falls anywhere in a second, and three kills, so that the  *)
(* script dies once before and once after each of two stamps.              *)
(***************************************************************************)
EXTENDS Launcher
=============================================================================
