--------------------------- MODULE MCEhciHandoff ---------------------------
(***************************************************************************)
(* The driver's own numbers (4 resets, 4 reclaims, 5 hub resets) and three *)
(* attachments, so that an episode meets both its own end and a replug.    *)
(***************************************************************************)
EXTENDS EhciHandoff
=============================================================================
