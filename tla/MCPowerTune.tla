---------------------------- MODULE MCPowerTune ----------------------------
(***************************************************************************)
(* The rates measured on the board (DEVELOPMENT.md section 10); three      *)
(* writers of the mode (the boot run, usb-proxy's hook and one shell); two *)
(* clock errors, one to fail a transition and one to fail its rollback;    *)
(* and one run by hand, to overlap any phase of the hook's runs.           *)
(***************************************************************************)
EXTENDS PowerTune
=============================================================================
