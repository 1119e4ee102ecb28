-------------------------- MODULE DramDetectProofs --------------------------
(***************************************************************************)
(* The detection is right for every chip, every range of the fields and    *)
(* any number of misses.  The inductive invariant says what each pass has  *)
(* established: Below is the field under test, Found a field that is done. *)
(***************************************************************************)
EXTENDS DramDetect, TLAPS

Found(f) == rank[f] = chip[f] + missed[f]
Untouched(f) == missed[f] = 0

\* A field under test: not all its bits yet and no alias met, or one bit
\* more for every alias missed.
Below(f) == (missed[f] = 0 /\ rank[f] <= chip[f]) \/ Found(f)

\* Where the controller is against what is being tried.
Probing ==
  step = "probe" => cfg = [rank EXCEPT ![pass] = Top[pass]]

\* What is known of the field under test at each step.
State(f) ==
  CASE step = "prepare" -> Untouched(f)
    [] step = "probe" -> Below(f)
    [] OTHER -> Found(f)

Passes ==
  /\ pass = "row" => State("row") /\ Untouched("bank") /\ Untouched("page")
                     /\ rank["bank"] = Low["bank"] /\ rank["page"] = Low["page"]
  /\ pass = "bank" => Found("row") /\ State("bank") /\ Untouched("page")
                     /\ rank["page"] = Low["page"]
  /\ pass = "page" => Found("row") /\ Found("bank") /\ State("page")
  /\ pass = "done" => Found("row") /\ Found("bank") /\ Found("page")

Kept == (step = "prepare" => base = "data") /\ (step # "prepare" => buffer = "data")

IInv == TypeOK /\ Probing /\ Passes /\ Kept

-----------------------------------------------------------------------------
(* The type invariant, on its own.                                         *)
LEMMA TypingInit == Init => TypeOK
  BY DramAssumption DEF Init, TypeOK, Fields

LEMMA TypingStep == TypeOK /\ [Next]_vars => TypeOK'
<1> SUFFICES ASSUME TypeOK, [Next]_vars PROVE TypeOK'
  OBVIOUS
<1> USE DramAssumption DEF TypeOK, Fields
<1>1. CASE Prepare
  BY <1>1 DEF Prepare, Raised, Saved
<1>2. CASE ProbeSeen
  BY <1>2 DEF ProbeSeen
<1>3. CASE ProbeNothing
  BY <1>3 DEF ProbeNothing, OneMore, MoreBits
<1>4. CASE ProbeMissed
  BY <1>4 DEF ProbeMissed, OneMore, MoreBits
<1>5. CASE LoopEnds
  BY <1>5 DEF LoopEnds
<1>6. CASE Restore
  BY <1>6 DEF Restore
<1>7. CASE UNCHANGED vars
  BY <1>7 DEF vars
<1>8. QED
  BY <1>1, <1>2, <1>3, <1>4, <1>5, <1>6, <1>7 DEF Next

(***************************************************************************)
(* The bit that is tried is the bit of that number in the field under      *)
(* test, so it aliases exactly when the chip does not have it: what is     *)
(* configured for the field does not shift it.                             *)
(***************************************************************************)
LEMMA ProbeTests ==
  ASSUME TypeOK, Probing, step = "probe", MoreBits
  PROVE  Aliased(Bit) <=> rank[pass] >= chip[pass]
<1> USE DramAssumption DEF TypeOK, Fields, Probing, MoreBits
<1>1. pass \in Fields
  OBVIOUS
<1>2. CASE pass = "row"
  <2>1. cfg["page"] = rank["page"] /\ cfg["bank"] = rank["bank"]
    BY <1>2
  <2>2. Bit = rank["row"] + rank["bank"] + rank["page"]
    BY <1>2 DEF Bit
  <2>3. Field(Bit) = "row" /\ Index(Bit) = rank["row"]
    BY <2>1, <2>2 DEF Field, Index
  <2>4. QED
    BY <1>2, <2>3 DEF Aliased
<1>3. CASE pass = "bank"
  <2>1. cfg["page"] = rank["page"] /\ cfg["bank"] = Top["bank"]
    BY <1>3
  <2>2. Bit = rank["bank"] + rank["page"] /\ rank["bank"] < Top["bank"]
    BY <1>3 DEF Bit
  <2>3. Field(Bit) = "bank" /\ Index(Bit) = rank["bank"]
    BY <2>1, <2>2 DEF Field, Index
  <2>4. QED
    BY <1>3, <2>3 DEF Aliased
<1>4. CASE pass = "page"
  <2>1. cfg["page"] = Top["page"]
    BY <1>4
  <2>2. Bit = rank["page"] /\ rank["page"] < Top["page"]
    BY <1>4 DEF Bit
  <2>3. Field(Bit) = "page" /\ Index(Bit) = rank["page"]
    BY <2>1, <2>2 DEF Field, Index
  <2>4. QED
    BY <1>4, <2>3 DEF Aliased
<1>5. QED
  BY <1>1, <1>2, <1>3, <1>4

LEMMA InvInit == Init => IInv
<1> SUFFICES ASSUME Init PROVE IInv
  OBVIOUS
<1>1. TypeOK
  BY TypingInit
<1>2. Probing /\ Kept
  BY DEF Init, Probing, Kept
<1>3. Passes
  BY DEF Init, Passes, State, Untouched, Fields
<1>4. QED
  BY <1>1, <1>2, <1>3 DEF IInv

LEMMA InvStep == IInv /\ [Next]_vars => IInv'
<1> SUFFICES ASSUME IInv, [Next]_vars PROVE IInv'
  OBVIOUS
<1>1. TypeOK /\ Probing /\ Passes /\ Kept
  BY DEF IInv
<1>2. TypeOK'
  BY <1>1, TypingStep
<1>3. Probing'
  <2> USE <1>1, DramAssumption DEF TypeOK, Fields, Probing
  <2>1. CASE Prepare
    BY <2>1 DEF Prepare, Raised
  <2>2. CASE ProbeSeen \/ LoopEnds \/ Restore
    BY <2>2 DEF ProbeSeen, LoopEnds, Restore
  <2>3. CASE ProbeNothing \/ ProbeMissed
    BY <2>3 DEF ProbeNothing, ProbeMissed, OneMore
  <2>4. CASE UNCHANGED vars
    BY <2>4 DEF vars
  <2>5. QED
    BY <2>1, <2>2, <2>3, <2>4 DEF Next
<1>4. Kept'
  <2> USE <1>1 DEF Kept
  <2>1. CASE Prepare
    BY <2>1 DEF Prepare, Saved
  <2>2. CASE Restore
    BY <2>2 DEF Restore
  <2>3. CASE ProbeSeen \/ ProbeNothing \/ ProbeMissed \/ LoopEnds \/ UNCHANGED vars
    BY <2>3 DEF ProbeSeen, ProbeNothing, ProbeMissed, LoopEnds, vars
  <2>4. QED
    BY <2>1, <2>2, <2>3 DEF Next
<1>5. Passes'
  <2> USE <1>1, DramAssumption DEF TypeOK, Fields, Passes, State, Found, Below, Untouched
  <2>1. CASE Prepare
    BY <2>1 DEF Prepare
  <2>2. CASE ProbeSeen
    <3>1. rank[pass] >= chip[pass]
      BY <2>2, ProbeTests DEF ProbeSeen
    <3>2. QED
      BY <2>2, <3>1 DEF ProbeSeen
  <2>3. CASE ProbeNothing
    <3>1. rank[pass] < chip[pass]
      BY <2>3, ProbeTests DEF ProbeNothing
    <3>2. QED
      BY <2>3, <3>1 DEF ProbeNothing, OneMore
  <2>4. CASE ProbeMissed
    <3>1. rank[pass] >= chip[pass]
      BY <2>4, ProbeTests DEF ProbeMissed
    <3>2. QED
      BY <2>4, <3>1 DEF ProbeMissed, OneMore
  <2>5. CASE LoopEnds
    BY <2>5 DEF LoopEnds, MoreBits
  <2>6. CASE Restore
    BY <2>6 DEF Restore
  <2>7. CASE UNCHANGED vars
    BY <2>7 DEF vars
  <2>8. QED
    BY <2>1, <2>2, <2>3, <2>4, <2>5, <2>6, <2>7 DEF Next
<1>6. QED
  BY <1>2, <1>3, <1>4, <1>5 DEF IInv

(***************************************************************************)
(* What the driver detects is the chip, but for the aliases it missed.     *)
(***************************************************************************)
THEOREM DetectsTheChip == Spec => []SizeIsRight
<1>1. Init => IInv
  BY InvInit
<1>2. IInv /\ [Next]_vars => IInv'
  BY InvStep
<1>3. IInv => SizeIsRight
  BY DEF IInv, Passes, SizeIsRight, Found, Fields
<1>4. QED
  BY <1>1, <1>2, <1>3, PTL DEF Spec

(***************************************************************************)
(* The words under the pattern are restored after every pass.              *)
(***************************************************************************)
THEOREM KeepsTheMemory == Spec => []MemoryKept
<1>1. Init => IInv
  BY InvInit
<1>2. IInv /\ [Next]_vars => IInv'
  BY InvStep
<1>3. IInv => MemoryKept
  BY DEF IInv, Kept, MemoryKept
<1>4. QED
  BY <1>1, <1>2, <1>3, PTL DEF Spec

(***************************************************************************)
(* No field ever leaves the range the driver allows it.                    *)
(***************************************************************************)
THEOREM Typing == Spec => []TypeOK
<1>1. Init => TypeOK
  BY TypingInit
<1>2. TypeOK /\ [Next]_vars => TypeOK'
  BY TypingStep
<1>3. QED
  BY <1>1, <1>2, PTL DEF Spec
=============================================================================
