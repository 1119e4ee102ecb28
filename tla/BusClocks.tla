----------------------------- MODULE BusClocks -----------------------------
(***************************************************************************)
(* The bus-clock policy driver: MBUS, AHB1 and APB1 are moved one by one   *)
(* between the rates found at probe ("active") and the idle rates, under a *)
(* mutex, and moved back when one of them cannot be set.  APB1 is divided  *)
(* down from AHB1, so it follows every change of AHB1.                     *)
(*                                                                         *)
(* Source: kernel patch 0006.  The clock framework is external: setting a  *)
(* rate succeeds, fails and changes nothing, or reports success on a rate  *)
(* that was rounded (what the driver's own check at the end looks for).    *)
(***************************************************************************)
EXTENDS Naturals

CONSTANTS
  Writers,              \* processes that write the mode attribute
  Nobody,               \* not a writer: the mutex is free
  BootMbus, BootAhb1,   \* MHz at probe
  IdleMbus, IdleAhb1,   \* MHz, from the device tree
  MaxErrors             \* how many clock changes go wrong

ASSUME RatesAssumption ==
  /\ Nobody \notin Writers
  /\ {BootMbus, BootAhb1, IdleMbus, IdleAhb1, MaxErrors} \subseteq Nat
  /\ BootMbus # IdleMbus /\ BootAhb1 # IdleAhb1 /\ 0 \notin {IdleMbus, IdleAhb1}

Modes == {"active", "idle"}

VARIABLES
  mbus, ahb1,  \* what the two clocks run at; 0 stands for a rounded rate
  idle,        \* policy->idle
  lock,        \* who holds policy->lock
  want,        \* want[w]: the mode w is writing, "none" when it is not
  step,        \* which clock set_idle or restore_rates touches next
  old,         \* the rates set_idle found
  errors,      \* budget
  spoiled      \* history: a rollback did not get every clock back

clockVars == <<mbus, ahb1, idle, lock, want, step, old, errors, spoiled>>

\* policy->idle_apb1 = idle_ahb1 / 2, and the divider the CCU boots with.
Rates(m, a) == [mbus |-> m, ahb1 |-> a, apb1 |-> a \div 2]
Running == Rates(mbus, ahb1)
Target(mode) == IF mode = "idle" THEN Rates(IdleMbus, IdleAhb1)
                                 ELSE Rates(BootMbus, BootAhb1)

ClockInit ==
  /\ mbus = BootMbus /\ ahb1 = BootAhb1
  /\ idle = FALSE
  /\ lock = Nobody /\ want = [w \in Writers |-> "none"]
  /\ step = "off" /\ old = Running
  /\ errors = MaxErrors /\ spoiled = FALSE

\* mode_store: write(2) parses the mode and blocks on the mutex.
Store(w, mode) ==
  /\ want[w] = "none"
  /\ want' = [want EXCEPT ![w] = mode]
  /\ UNCHANGED <<mbus, ahb1, idle, lock, step, old, errors, spoiled>>

\* ... which it holds for nothing when the policy is already in that mode.
AlreadyThere(w) == idle = (want[w] = "idle")

StoreNothing(w) ==
  /\ lock = Nobody /\ want[w] # "none" /\ AlreadyThere(w)
  /\ want' = [want EXCEPT ![w] = "none"]
  /\ UNCHANGED <<mbus, ahb1, idle, lock, step, old, errors, spoiled>>

StoreLocked(w) ==
  /\ lock = Nobody /\ want[w] # "none" /\ ~AlreadyThere(w)
  /\ lock' = w
  /\ old' = Running
  /\ step' = "mbus"
  /\ UNCHANGED <<mbus, ahb1, idle, want, errors, spoiled>>

(***************************************************************************)
(* clk_set_rate.  APB1's divider is 2 in both modes; it is another one only *)
(* while AHB1 runs at a rounded rate, and the request for APB1 that follows *)
(* every request for AHB1 puts it back.  So that request moves nothing.    *)
(***************************************************************************)
Error == errors > 0 /\ errors' = errors - 1

MbusTo(r) == mbus' = r /\ UNCHANGED ahb1
Ahb1To(r) == ahb1' = r /\ UNCHANGED mbus
KeepRates == UNCHANGED <<mbus, ahb1>>

SetAs(clock, rates) ==
  CASE clock = "mbus" -> MbusTo(rates.mbus)
    [] clock = "ahb1" -> Ahb1To(rates.ahb1)
    [] clock = "apb1" -> KeepRates

Rounded(clock) == SetAs(clock, Rates(0, 0))

NextClock == [mbus |-> "ahb1", ahb1 |-> "apb1", apb1 |-> "check"]
NextUndo  == [undoMbus |-> "undoAhb1", undoAhb1 |-> "undoApb1", undoApb1 |-> "done"]
Undoes    == [undoMbus |-> "mbus", undoAhb1 |-> "ahb1", undoApb1 |-> "apb1"]

\* Mutant: the function returns without mutex_unlock.
ReturnLocked == UNCHANGED lock /\ want' = [want EXCEPT ![lock] = "none"] /\ step' = "off"
Release == lock' = Nobody /\ want' = [want EXCEPT ![lock] = "none"] /\ step' = "off"

\* usbproxy_set_idle, one clock.
SetClock ==
  /\ step \in DOMAIN NextClock
  /\ SetAs(step, Target(want[lock])) /\ UNCHANGED errors
  /\ step' = NextClock[step]
  /\ UNCHANGED <<idle, lock, want, old, spoiled>>

SetClockRounds ==
  /\ step \in {"mbus", "ahb1"}
  /\ Rounded(step) /\ Error
  /\ step' = NextClock[step]
  /\ UNCHANGED <<idle, lock, want, old, spoiled>>

SetClockFails ==
  /\ step \in DOMAIN NextClock
  /\ KeepRates /\ Error
  /\ step' = "undoMbus"
  /\ UNCHANGED <<idle, lock, want, old, spoiled>>

\* The rates are read back; only then does the mode change.
\* Mutant: the return values of clk_set_rate are taken for the rates.
TrustsReturns == TRUE
ExactRates == Running = Target(want[lock])

CheckExact ==
  /\ step = "check" /\ ExactRates
  /\ idle' = (want[lock] = "idle")
  /\ Release
  /\ UNCHANGED <<mbus, ahb1, old, errors, spoiled>>

CheckOutOfRange ==
  /\ step = "check" /\ ~ExactRates
  /\ step' = "undoMbus"
  /\ UNCHANGED <<mbus, ahb1, idle, lock, want, old, errors, spoiled>>

\* usbproxy_restore_rates, one clock; a failure is only logged.
EndUndo ==
  IF NextUndo[step] = "done"
  THEN Release
  ELSE step' = NextUndo[step] /\ UNCHANGED <<lock, want>>

Undo ==
  /\ step \in DOMAIN NextUndo
  /\ SetAs(Undoes[step], old) /\ UNCHANGED errors
  /\ EndUndo
  /\ UNCHANGED <<idle, old, spoiled>>

UndoFails ==
  /\ step \in DOMAIN NextUndo
  /\ KeepRates \/ (step # "undoApb1" /\ Rounded(Undoes[step]))
  /\ Error
  /\ EndUndo
  /\ spoiled' = TRUE
  /\ UNCHANGED <<idle, old>>

SetIdle == SetClock \/ SetClockRounds \/ SetClockFails \/ CheckExact \/ CheckOutOfRange
           \/ Undo \/ UndoFails
Acquire(w) == StoreNothing(w) \/ StoreLocked(w)

ClockNext == SetIdle \/ \E w \in Writers : Acquire(w) \/ \E mode \in Modes : Store(w, mode)
ClockSpec == ClockInit /\ [][ClockNext]_clockVars

----------------------------------------------------------------------------
ClockTypeOK ==
  /\ mbus \in {0, BootMbus, IdleMbus} /\ ahb1 \in {0, BootAhb1, IdleAhb1}
  /\ idle \in BOOLEAN /\ spoiled \in BOOLEAN
  /\ lock \in Writers \cup {Nobody}
  /\ want \in [Writers -> Modes \cup {"none"}]
  /\ step \in {"off", "check"} \cup DOMAIN NextClock \cup DOMAIN NextUndo
  /\ errors \in 0 .. MaxErrors

(***************************************************************************)
(* Whatever fails on the way, the mode the driver reports (mode_show, the  *)
(* only thing its callers see) is the one the three clocks really run in   *)
(* ("rolls all clocks back if any change fails", DEVELOPMENT.md section    *)
(* 10), as long as no rollback has itself failed.                          *)
(***************************************************************************)
ModeIsHonest == lock = Nobody /\ ~spoiled => Running = Target(IF idle THEN "idle" ELSE "active")

\* Every write of the attribute returns, however the others and the clocks behave.
WritesReturn == \A w \in Writers : want[w] # "none" ~> want[w] = "none"

(***************************************************************************)
(* "the exact probe-time rates when active" (patch 0006): a write of       *)
(* `active` that returns success leaves them running.                      *)
(***************************************************************************)
ActiveIsExact ==
  [][\A w \in Writers : want[w] = "active" /\ StoreNothing(w) => Running = Target("active")]_clockVars
=============================================================================
