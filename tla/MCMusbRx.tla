------------------------------ MODULE MCMusbRx ------------------------------
(***************************************************************************)
(* Five packets, any of them short, into requests of two packets: enough   *)
(* for a packet to meet every phase of a request and of its requeue twice. *)
(***************************************************************************)
EXTENDS MusbRx
=============================================================================
