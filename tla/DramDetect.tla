----------------------------- MODULE DramDetect -----------------------------
(***************************************************************************)
(* Size detection of the DRAM controller driver (U-Boot patch 0001): how   *)
(* many row, bank and column bits the chip has.  For each field in turn    *)
(* the controller is configured with the most bits that field may have, a  *)
(* pattern is written at the base, and the field's bits are tried from the *)
(* least: a bit the chip does not have makes the pattern appear again at   *)
(* the offset of that bit.                                                 *)
(*                                                                         *)
(* An offset is a power of two here, so it is the number of an address     *)
(* bit.  The chip is external: it drops address bits it does not have, and *)
(* now and then the pattern is not seen where it should be.                *)
(***************************************************************************)
EXTENDS Naturals

CONSTANTS
  Low, Top,   \* the least and the most bits of each field: 11-16, 2-3, 9-13
  MaxMisses   \* how often an alias goes unseen

Fields == {"row", "bank", "page"}

ASSUME DramAssumption ==
  /\ Low \in [Fields -> Nat] /\ Top \in [Fields -> Nat]
  /\ \A f \in Fields : Low[f] <= Top[f]
  /\ MaxMisses \in Nat

VARIABLES
  chip,    \* the bits the chip has
  rank,    \* struct rank_para: what has been found so far
  cfg,     \* what the controller is configured with
  pass,    \* the field under test, or "done"
  step,    \* "prepare", "probe" or "restore"
  base,    \* what the words at the base hold: "data" or "pattern"
  buffer,  \* the words saved
  missed   \* history: aliases of each field that went unseen

vars == <<chip, rank, cfg, pass, step, base, buffer, missed>>

Init ==
  /\ chip \in {c \in [Fields -> UNION {Low[f] .. Top[f] : f \in Fields}] :
                 \A f \in Fields : c[f] \in Low[f] .. Top[f]}
  /\ rank = Low /\ cfg = Low
  /\ pass = "row" /\ step = "prepare"
  /\ base = "data" /\ buffer = "data"
  /\ missed = [f \in Fields |-> 0]

(***************************************************************************)
(* mctl_detect_prepare.                                                    *)
(***************************************************************************)
\* Mutant: the field under test keeps the bits it starts from.
NotRaised(f) == rank
Raised(f) == [rank EXCEPT ![f] = Top[f]]

\* Mutant: the words are saved when the pattern is there already.
SavedLate == "pattern"
Saved == base

Prepare ==
  /\ step = "prepare" /\ pass # "done"
  /\ cfg' = Raised(pass)
  /\ rank' = [rank EXCEPT ![pass] = Low[pass]]
  /\ buffer' = Saved /\ base' = "pattern"
  /\ step' = "probe"
  /\ UNCHANGED <<chip, pass, missed>>

(***************************************************************************)
(* mctl_check_pattern at the offset of a bit.                              *)
(***************************************************************************)
Bit == CASE pass = "row" -> rank["row"] + rank["bank"] + rank["page"]
         [] pass = "bank" -> rank["bank"] + rank["page"]
         [] OTHER -> rank["page"]

\* Column bits first, then bank, then row.
Field(k) == IF k < cfg["page"] THEN "page"
            ELSE IF k < cfg["page"] + cfg["bank"] THEN "bank" ELSE "row"
Index(k) == CASE Field(k) = "page" -> k
              [] Field(k) = "bank" -> k - cfg["page"]
              [] OTHER -> k - cfg["page"] - cfg["bank"]
Aliased(k) == Index(k) >= chip[Field(k)]

\* Mutant: the loop runs one bit too far.
UpToTop == rank[pass] <= Top[pass]
MoreBits == rank[pass] < Top[pass]
OneMore == rank' = [rank EXCEPT ![pass] = @ + 1]

ProbeSeen ==
  /\ step = "probe" /\ MoreBits /\ Aliased(Bit)
  /\ step' = "restore"
  /\ UNCHANGED <<chip, rank, cfg, pass, base, buffer, missed>>

ProbeNothing ==
  /\ step = "probe" /\ MoreBits /\ ~Aliased(Bit)
  /\ OneMore
  /\ UNCHANGED <<chip, cfg, pass, step, base, buffer, missed>>

ProbeMissed ==
  /\ step = "probe" /\ MoreBits /\ Aliased(Bit)
  /\ missed["row"] + missed["bank"] + missed["page"] < MaxMisses
  /\ missed' = [missed EXCEPT ![pass] = @ + 1]
  /\ OneMore
  /\ UNCHANGED <<chip, cfg, pass, step, base, buffer>>

LoopEnds ==
  /\ step = "probe" /\ ~MoreBits
  /\ step' = "restore"
  /\ UNCHANGED <<chip, rank, cfg, pass, base, buffer, missed>>

Restore ==
  /\ step = "restore"
  /\ base' = buffer
  /\ pass' = CASE pass = "row" -> "bank" [] pass = "bank" -> "page" [] OTHER -> "done"
  /\ step' = "prepare"
  /\ UNCHANGED <<chip, rank, cfg, buffer, missed>>

Next == Prepare \/ ProbeSeen \/ ProbeNothing \/ ProbeMissed \/ LoopEnds \/ Restore

Spec == Init /\ [][Next]_vars

-----------------------------------------------------------------------------
\* The type invariant: no field is ever taken to have more bits than it may.
TypeOK ==
  /\ chip \in [Fields -> Nat] /\ \A f \in Fields : chip[f] \in Low[f] .. Top[f]
  /\ rank \in [Fields -> Nat] /\ \A f \in Fields : rank[f] \in Low[f] .. Top[f]
  /\ cfg \in [Fields -> Nat]
  /\ pass \in Fields \cup {"done"} /\ step \in {"prepare", "probe", "restore"}
  /\ pass = "done" => step = "prepare"
  /\ base \in {"data", "pattern"} /\ buffer \in {"data", "pattern"}
  /\ missed \in [Fields -> Nat]

(***************************************************************************)
(* What is detected is the chip: each field has its bits, and one bit more *)
(* for every alias that went unseen, so a single miss is "double the real  *)
(* size" (patch 0001) and no miss is exact.  A field under test disturbs   *)
(* neither the ones found before nor the address the next one is tried at. *)
(***************************************************************************)
SizeIsRight == pass = "done" => \A f \in Fields : rank[f] = chip[f] + missed[f]

(***************************************************************************)
(* The words under the pattern survive the detection ("save/restore the    *)
(* overwritten words ... so ramoops/soft-reset data survives").            *)
(***************************************************************************)
MemoryKept == step = "prepare" => base = "data"
=============================================================================
