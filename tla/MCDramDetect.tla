---------------------------- MODULE MCDramDetect ----------------------------
(***************************************************************************)
(* The bits of the code: 11 to 16 rows, 2 or 3 banks, pages of 512 to 8192 *)
(* bytes (9 to 13), so every chip the driver can be asked about; up to     *)
(* three aliases unseen.                                                   *)
(***************************************************************************)
EXTENDS DramDetect

Bits(r, b, p) == [f \in {"row", "bank", "page"} |->
                    CASE f = "row" -> r [] f = "bank" -> b [] f = "page" -> p]
CodeLow == Bits(11, 2, 9)
CodeTop == Bits(16, 3, 13)
=============================================================================
