-------------------------- MODULE PowerTuneProofs --------------------------
(***************************************************************************)
(* power-tune runs the driver by its own rules, so what holds of the       *)
(* driver holds under power-tune; and the driver is honest, for any        *)
(* writers, rates and number of failing clocks.                            *)
(*                                                                         *)
(* The inductive invariant says what the holder of the mutex knows: that   *)
(* the mode is to change (Holder), which rates it found (FoundRates), and  *)
(* which clocks the rollback has brought back (RolledBack).                *)
(***************************************************************************)
EXTENDS PowerTune, TLAPS

Shown == Target(IF idle THEN "idle" ELSE "active")

Holder ==
  /\ (lock = Nobody) <=> (step = "off")
  /\ lock # Nobody => want[lock] \in Modes

FoundRates ==
  /\ \E m \in {0, BootMbus, IdleMbus}, a \in {0, BootAhb1, IdleAhb1} : old = Rates(m, a)
  /\ lock # Nobody /\ ~spoiled => old = Shown

RolledBack ==
  ~spoiled =>
    /\ step \in {"undoAhb1", "undoApb1"} => mbus = old.mbus
    /\ step = "undoApb1" => ahb1 = old.ahb1

ClockInv == ClockTypeOK /\ Holder /\ FoundRates /\ RolledBack /\ ModeIsHonest

-----------------------------------------------------------------------------
LEMMA TargetIs ==
  /\ Target("idle") = Rates(IdleMbus, IdleAhb1)
  /\ \A mode : mode # "idle" => Target(mode) = Rates(BootMbus, BootAhb1)
  BY DEF Target

LEMMA RatesAre ==
  ASSUME NEW m, NEW a
  PROVE  Rates(m, a).mbus = m /\ Rates(m, a).ahb1 = a /\ Rates(m, a).apb1 = a \div 2
  BY DEF Rates

LEMMA Steps ==
  /\ DOMAIN NextClock = {"mbus", "ahb1", "apb1"}
  /\ DOMAIN NextUndo = {"undoMbus", "undoAhb1", "undoApb1"}
  BY DEF NextClock, NextUndo

LEMMA NextSteps ==
  /\ NextClock["mbus"] = "ahb1" /\ NextClock["ahb1"] = "apb1" /\ NextClock["apb1"] = "check"
  /\ NextUndo["undoMbus"] = "undoAhb1" /\ NextUndo["undoAhb1"] = "undoApb1"
  /\ NextUndo["undoApb1"] = "done"
  /\ Undoes["undoMbus"] = "mbus" /\ Undoes["undoAhb1"] = "ahb1" /\ Undoes["undoApb1"] = "apb1"
  BY DEF NextClock, NextUndo, Undoes

LEMMA ClockInvInit == ClockInit => ClockInv
<1> SUFFICES ASSUME ClockInit PROVE ClockInv
  OBVIOUS
<1> USE RatesAssumption, TargetIs DEF ClockInit
<1>1. ClockTypeOK
  <2>1. want \in [Writers -> Modes \cup {"none"}] /\ errors \in 0 .. MaxErrors
    OBVIOUS
  <2>2. idle \in BOOLEAN /\ spoiled \in BOOLEAN
    OBVIOUS
  <2> QED
    BY <2>1, <2>2 DEF ClockTypeOK
<1>2. Holder
  BY DEF Holder
<1>3. FoundRates /\ ModeIsHonest
  BY DEF FoundRates, ModeIsHonest, Shown, Running
<1>4. RolledBack
  BY DEF RolledBack
<1> QED
  BY <1>1, <1>2, <1>3, <1>4 DEF ClockInv

-----------------------------------------------------------------------------
(* One clock is asked for: what it runs at then.                           *)
LEMMA ClockTypes ==
  ASSUME ClockInv, NEW clock \in {"mbus", "ahb1", "apb1"}, NEW rates,
         rates = old \/ rates = Rates(0, 0) \/ (\E mode \in Modes : rates = Target(mode)),
         SetAs(clock, rates)
  PROVE  mbus' \in {0, BootMbus, IdleMbus} /\ ahb1' \in {0, BootAhb1, IdleAhb1}
<1>1. rates.mbus \in {0, BootMbus, IdleMbus} /\ rates.ahb1 \in {0, BootAhb1, IdleAhb1}
  BY TargetIs, RatesAre DEF ClockInv, FoundRates
<1>2. mbus \in {0, BootMbus, IdleMbus} /\ ahb1 \in {0, BootAhb1, IdleAhb1}
  BY DEF ClockInv, ClockTypeOK
<1> QED
  BY <1>1, <1>2 DEF SetAs, MbusTo, Ahb1To, KeepRates

\* The last undo, or the check, gives the mutex back: the others find the
\* driver as they must.
LEMMA Released ==
  ASSUME ClockInv, lock # Nobody, Release, ClockTypeOK', UNCHANGED old, ModeIsHonest'
  PROVE  ClockInv'
<1>1. lock' = Nobody /\ step' = "off"
  BY DEF Release
<1>2. Holder'
  BY <1>1 DEF Holder
<1>3. FoundRates'
  BY <1>1 DEF ClockInv, FoundRates
<1>4. RolledBack'
  BY <1>1 DEF RolledBack
<1> QED
  BY <1>2, <1>3, <1>4 DEF ClockInv

\* Within the lock nothing is promised but the rollback.
LEMMA StillLocked ==
  ASSUME ClockInv, lock # Nobody, UNCHANGED <<idle, lock, want, old>>, ClockTypeOK',
         step' # "off", spoiled => spoiled', RolledBack'
  PROVE  ClockInv'
<1>1. Holder'
  BY DEF ClockInv, Holder
<1>2. FoundRates' /\ ModeIsHonest'
  BY DEF ClockInv, FoundRates, ModeIsHonest, Shown, Target
<1> QED
  BY <1>1, <1>2 DEF ClockInv

LEMMA SetIdleStep == ClockInv /\ SetIdle => ClockInv'
<1> SUFFICES ASSUME ClockInv, SetIdle PROVE ClockInv'
  OBVIOUS
<1> USE Steps, NextSteps, RatesAssumption
<1>1. lock # Nobody /\ lock \in Writers /\ want[lock] \in Modes /\ ClockTypeOK
  BY DEF SetIdle, SetClock, SetClockRounds, SetClockFails, CheckExact, CheckOutOfRange, Undo,
     UndoFails, ClockInv, Holder, ClockTypeOK
<1>2. CASE SetClock
  <2>1. mbus' \in {0, BootMbus, IdleMbus} /\ ahb1' \in {0, BootAhb1, IdleAhb1}
    BY <1>1, <1>2, ClockTypes DEF SetClock
  <2>2. step' \in {"ahb1", "apb1", "check"}
    BY <1>2 DEF SetClock
  <2>3. ClockTypeOK'
    BY <1>1, <1>2, <2>1, <2>2 DEF SetClock, ClockTypeOK
  <2> QED
    BY <1>1, <1>2, <2>2, <2>3, StillLocked DEF SetClock, RolledBack
<1>3. CASE SetClockRounds
  <2>1. mbus' \in {0, BootMbus, IdleMbus} /\ ahb1' \in {0, BootAhb1, IdleAhb1}
    BY <1>1, <1>3, ClockTypes DEF SetClockRounds, Rounded
  <2>2. step' \in {"ahb1", "apb1"} /\ errors' \in 0 .. MaxErrors
    BY <1>1, <1>3 DEF SetClockRounds, Error, ClockTypeOK
  <2>3. ClockTypeOK'
    BY <1>1, <1>3, <2>1, <2>2 DEF SetClockRounds, ClockTypeOK
  <2> QED
    BY <1>1, <1>3, <2>2, <2>3, StillLocked DEF SetClockRounds, RolledBack
<1>4. CASE SetClockFails
  <2>1. step' = "undoMbus" /\ errors' \in 0 .. MaxErrors
    BY <1>1, <1>4 DEF SetClockFails, Error, ClockTypeOK
  <2>2. ClockTypeOK'
    BY <1>1, <1>4, <2>1 DEF SetClockFails, KeepRates, ClockTypeOK
  <2> QED
    BY <1>1, <1>4, <2>1, <2>2, StillLocked DEF SetClockFails, RolledBack
<1>5. CASE CheckExact
  <2>1. Running' = Target(want[lock])
    BY <1>5 DEF CheckExact, ExactRates, Running, Rates
  <2>2. idle' = (want[lock] = "idle") /\ idle' \in BOOLEAN
    BY <1>5 DEF CheckExact
  <2>3. ModeIsHonest'
    BY <2>1, <2>2, TargetIs DEF ModeIsHonest, Target, Rates
  <2>4. ClockTypeOK'
    BY <1>1, <1>5, <2>2 DEF CheckExact, Release, ClockTypeOK
  <2> QED
    BY <1>1, <1>5, <2>3, <2>4, Released DEF CheckExact
<1>6. CASE CheckOutOfRange
  <2>1. ClockTypeOK'
    BY <1>1, <1>6 DEF CheckOutOfRange, ClockTypeOK
  <2> QED
    BY <1>1, <1>6, <2>1, StillLocked DEF CheckOutOfRange, RolledBack
<1>7. CASE Undo
  <2>1. mbus' \in {0, BootMbus, IdleMbus} /\ ahb1' \in {0, BootAhb1, IdleAhb1}
    BY <1>1, <1>7, ClockTypes DEF Undo
  <2>2. CASE step = "undoMbus"
    <3>1. step' = "undoAhb1" /\ mbus' = old'.mbus /\ UNCHANGED <<lock, want>>
      BY <1>7, <2>2 DEF Undo, EndUndo, SetAs, MbusTo
    <3>2. ClockTypeOK'
      BY <1>1, <1>7, <2>1, <3>1 DEF Undo, ClockTypeOK
    <3> QED
      BY <1>1, <1>7, <3>1, <3>2, StillLocked DEF Undo, RolledBack
  <2>3. CASE step = "undoAhb1"
    <3>1. step' = "undoApb1" /\ ahb1' = old'.ahb1 /\ UNCHANGED <<mbus, lock, want>>
      BY <1>7, <2>3 DEF Undo, EndUndo, SetAs, Ahb1To
    <3>2. ClockTypeOK'
      BY <1>1, <1>7, <2>1, <3>1 DEF Undo, ClockTypeOK
    <3>3. RolledBack'
      BY <1>7, <2>3, <3>1 DEF Undo, RolledBack, ClockInv
    <3> QED
      BY <1>1, <1>7, <3>1, <3>2, <3>3, StillLocked DEF Undo
  <2>4. CASE step = "undoApb1"
    <3>1. Release /\ KeepRates
      BY <1>7, <2>4 DEF Undo, EndUndo, SetAs
    <3>2. ~spoiled => mbus = old.mbus /\ ahb1 = old.ahb1
      BY <2>4 DEF ClockInv, RolledBack
    <3>3. ~spoiled => Running = old /\ old = Shown
      BY <1>1, <3>2, RatesAre DEF ClockInv, FoundRates, Running
    <3>4. ModeIsHonest'
      BY <1>7, <3>1, <3>3 DEF ModeIsHonest, Shown, Target, Running, Rates, Undo, KeepRates
    <3>5. ClockTypeOK'
      BY <1>1, <1>7, <2>1, <3>1 DEF Undo, Release, ClockTypeOK
    <3> QED
      BY <1>1, <1>7, <3>1, <3>4, <3>5, Released DEF Undo
  <2> QED
    BY <1>7, <2>2, <2>3, <2>4 DEF Undo
<1>8. CASE UndoFails
  <2>1. mbus' \in {0, BootMbus, IdleMbus} /\ ahb1' \in {0, BootAhb1, IdleAhb1}
    <3>1. CASE KeepRates
      BY <1>1, <3>1 DEF KeepRates, ClockTypeOK
    <3>2. CASE Rounded(Undoes[step])
      BY <1>8, <3>2, ClockTypes DEF UndoFails, Rounded
    <3> QED
      BY <1>8, <3>1, <3>2 DEF UndoFails
  <2>2. errors' \in 0 .. MaxErrors /\ spoiled' = TRUE
    BY <1>1, <1>8 DEF UndoFails, Error, ClockTypeOK
  <2>3. CASE step = "undoApb1"
    <3>1. Release
      BY <1>8, <2>3 DEF UndoFails, EndUndo
    <3>2. ClockTypeOK'
      BY <1>1, <1>8, <2>1, <2>2, <3>1 DEF UndoFails, Release, ClockTypeOK
    <3> QED
      BY <1>1, <1>8, <2>2, <3>1, <3>2, Released DEF UndoFails, ModeIsHonest
  <2>4. CASE step # "undoApb1"
    <3>1. step' \in {"undoAhb1", "undoApb1"} /\ UNCHANGED <<lock, want>>
      BY <1>8, <2>4 DEF UndoFails, EndUndo
    <3>2. ClockTypeOK'
      BY <1>1, <1>8, <2>1, <2>2, <3>1 DEF UndoFails, ClockTypeOK
    <3> QED
      BY <1>1, <1>8, <2>2, <3>1, <3>2, StillLocked DEF UndoFails, RolledBack
  <2> QED
    BY <2>3, <2>4
<1> QED
  BY <1>2, <1>3, <1>4, <1>5, <1>6, <1>7, <1>8 DEF SetIdle

LEMMA WritersStep ==
  ASSUME ClockInv, NEW w \in Writers, Acquire(w) \/ (\E mode \in Modes : Store(w, mode))
  PROVE  ClockInv'
<1> USE RatesAssumption DEF ClockInv
<1>1. ASSUME NEW mode \in Modes, Store(w, mode) PROVE ClockInv'
  <2>1. ClockTypeOK'
    BY <1>1 DEF Store, ClockTypeOK, Modes
  <2>2. lock # Nobody => want'[lock] = want[lock]
    BY <1>1 DEF Store, Holder, Modes, ClockTypeOK
  <2>3. Holder'
    BY <1>1, <2>2 DEF Store, Holder
  <2> QED
    BY <1>1, <2>1, <2>3 DEF Store, FoundRates, Shown, Target, RolledBack, ModeIsHonest, Running
<1>2. CASE StoreNothing(w)
  <2>1. ClockTypeOK'
    BY <1>2 DEF StoreNothing, ClockTypeOK
  <2>2. Holder'
    BY <1>2 DEF StoreNothing, Holder
  <2> QED
    BY <1>2, <2>1, <2>2 DEF StoreNothing, FoundRates, Shown, Target, RolledBack, ModeIsHonest, Running
<1>3. CASE StoreLocked(w)
  <2>1. want[w] \in Modes /\ w # Nobody
    BY <1>3 DEF StoreLocked, ClockTypeOK
  <2>2. ClockTypeOK'
    BY <1>3, Steps DEF StoreLocked, ClockTypeOK
  <2>3. Holder' /\ RolledBack'
    BY <1>3, <2>1 DEF StoreLocked, Holder, RolledBack
  <2>4. mbus \in {0, BootMbus, IdleMbus} /\ ahb1 \in {0, BootAhb1, IdleAhb1}
    BY DEF ClockTypeOK
  <2>5. old' = Rates(mbus, ahb1) /\ (~spoiled => old' = Shown)
    BY <1>3 DEF StoreLocked, Running, Shown, ModeIsHonest
  <2>6. Shown' = Shown /\ spoiled' = spoiled /\ lock' # Nobody
    BY <1>3, <2>1 DEF StoreLocked, Shown, Target
  <2>7. FoundRates'
    BY <2>4, <2>5, <2>6 DEF FoundRates
  <2>8. ModeIsHonest'
    BY <2>6 DEF ModeIsHonest
  <2> QED
    BY <2>2, <2>3, <2>7, <2>8
<1> QED
  BY <1>1, <1>2, <1>3 DEF Acquire

LEMMA ClockInvStep == ClockInv /\ [ClockNext]_clockVars => ClockInv'
<1> SUFFICES ASSUME ClockInv, [ClockNext]_clockVars PROVE ClockInv'
  OBVIOUS
<1>1. CASE SetIdle
  BY <1>1, SetIdleStep
<1>2. ASSUME NEW w \in Writers, Acquire(w) \/ (\E mode \in Modes : Store(w, mode))
      PROVE ClockInv'
  BY <1>2, WritersStep
<1>3. CASE UNCHANGED clockVars
  BY <1>3 DEF clockVars, ClockInv, ClockTypeOK, Holder, FoundRates, Shown, Target, RolledBack,
              ModeIsHonest, Running
<1> QED
  BY <1>1, <1>2, <1>3 DEF ClockNext

(***************************************************************************)
(* power-tune and its hooks move the clocks only the way the driver lets   *)
(* a writer of the attribute move them.                                    *)
(***************************************************************************)
THEOREM UsesTheDriver == Spec => ClockSpec
<1>1. Init => ClockInit
  BY DEF Init
<1>2. [Next]_vars => [ClockNext]_clockVars
  <2> SUFFICES ASSUME [Next]_vars PROVE [ClockNext]_clockVars
    OBVIOUS
  <2>1. CASE Driver
    BY <2>1 DEF Driver, ClockNext
  <2>2. CASE Hooks \/ Traffic
    BY <2>2 DEF Hooks, HookIdle, HookActive, Traffic
  <2>3. ASSUME NEW w \in Writers, Run(w) PROVE [ClockNext]_clockVars
    BY <2>3 DEF Run, WriteMode, WriteCeiling, WriteOnline, ClockNext, Modes
  <2>4. ASSUME NEW w \in Shells, RunByHand(w) PROVE [ClockNext]_clockVars
    BY <2>4 DEF RunByHand
  <2>5. CASE UNCHANGED vars
    BY <2>5 DEF vars
  <2> QED
    BY <2>1, <2>2, <2>3, <2>4, <2>5 DEF Next
<1> QED
  BY <1>1, <1>2, PTL DEF Spec, ClockSpec

(***************************************************************************)
(* The mode the driver shows is the one its clocks run in, whatever fails  *)
(* short of a rollback.                                                    *)
(***************************************************************************)
THEOREM Honest == Spec => []ModeIsHonest
<1>1. ClockInit => ClockInv
  BY ClockInvInit
<1>2. ClockInv /\ [ClockNext]_clockVars => ClockInv'
  BY ClockInvStep
<1>3. ClockSpec => []ClockInv
  BY <1>1, <1>2, PTL DEF ClockSpec
<1>4. ClockInv => ModeIsHonest
  BY DEF ClockInv
<1> QED
  BY <1>3, <1>4, UsesTheDriver, PTL

-----------------------------------------------------------------------------
(* What a run has left to do, and how far the board is wound by then.      *)
Left == {<< >>, WindUp, <<"high", "online">>, <<"online">>,
         WindDown, <<"low", "busIdle">>, <<"busIdle">>}

Reached(w) ==
  /\ todo[w] = <<"online">> => ceiling = "high"
  /\ todo[w] \in {<<"low", "busIdle">>, <<"busIdle">>} => ~cpu1

\* The hook starts after the boot run, and the shells not at all.
OneRun ==
  /\ \A w \in Shells : todo[w] = << >>
  /\ todo[Boot] = << >> \/ (todo[Hook] = << >> /\ policy = "active")

TuneInv ==
  /\ todo \in [Writers -> Left] /\ byHand \in 0 .. MaxByHand
  /\ cpu1 \in BOOLEAN /\ ceiling \in {"high", "low"} /\ policy \in Modes /\ quiet \in BOOLEAN
  /\ NoneByHand => OneRun /\ SpareCoreIsFast /\ Reached(Boot) /\ Reached(Hook)

LEMMA Commands ==
  ASSUME NEW s \in Left, s # << >>
  PROVE  \/ s = WindUp /\ Head(s) = "busActive" /\ Tail(s) = <<"high", "online">>
         \/ s = <<"high", "online">> /\ Head(s) = "high" /\ Tail(s) = <<"online">>
         \/ s = <<"online">> /\ Head(s) = "online" /\ Tail(s) = << >>
         \/ s = WindDown /\ Head(s) = "offline" /\ Tail(s) = <<"low", "busIdle">>
         \/ s = <<"low", "busIdle">> /\ Head(s) = "low" /\ Tail(s) = <<"busIdle">>
         \/ s = <<"busIdle">> /\ Head(s) = "busIdle" /\ Tail(s) = << >>
<1>1. CASE s = WindUp
  BY <1>1 DEF WindUp
<1>2. CASE s = <<"high", "online">>
  BY <1>2
<1>3. CASE s = <<"online">>
  BY <1>3
<1>4. CASE s = WindDown
  BY <1>4 DEF WindDown
<1>5. CASE s = <<"low", "busIdle">>
  BY <1>5
<1>6. CASE s = <<"busIdle">>
  BY <1>6
<1> QED
  BY <1>1, <1>2, <1>3, <1>4, <1>5, <1>6 DEF Left

LEMMA Apart ==
  /\ << >> \notin {<<"online">>, <<"low", "busIdle">>, <<"busIdle">>}
  /\ WindUp \notin {<<"online">>, <<"low", "busIdle">>, <<"busIdle">>}
  /\ WindDown \notin {<<"online">>, <<"low", "busIdle">>, <<"busIdle">>}
  /\ <<"high", "online">> \notin {<<"online">>, <<"low", "busIdle">>, <<"busIdle">>}
  /\ <<"online">> \notin {<<"low", "busIdle">>, <<"busIdle">>}
  /\ {WindUp, WindDown} \subseteq Left
  BY DEF Left, WindUp, WindDown

LEMMA Runners == Writers = Shells \cup {Boot, Hook} /\ Boot \notin Shells /\ Hook \notin Shells
                 /\ Boot # Hook
  BY RunsAssumption DEF Shells

LEMMA TuneInvInit == Init => TuneInv
<1> SUFFICES ASSUME Init PROVE TuneInv
  OBVIOUS
<1>1. todo \in [Writers -> Left] /\ todo[Boot] = WindUp /\ todo[Hook] = << >>
      /\ \A w \in Shells : todo[w] = << >>
  BY Runners, Apart DEF Init, Left
<1>2. SpareCoreIsFast /\ Reached(Boot) /\ Reached(Hook) /\ OneRun
  BY <1>1, Apart DEF Init, SpareCoreIsFast, Reached, OneRun
<1>3. cpu1 \in BOOLEAN /\ quiet \in BOOLEAN
  BY DEF Init
<1>4. byHand \in 0 .. MaxByHand /\ ceiling \in {"high", "low"} /\ policy \in Modes
  BY RunsAssumption DEF Init, Modes
<1> QED
  BY <1>1, <1>2, <1>3, <1>4 DEF TuneInv

\* One command of run w, and the run at the end of it.
LEMMA RunStep == ASSUME TuneInv, NEW w \in Writers, Run(w) PROVE TuneInv'
<1>1. todo[w] # << >> /\ todo[w] \in Left /\ todo \in [Writers -> Left]
      /\ todo' = [todo EXCEPT ![w] = Tail(todo[w])] /\ UNCHANGED <<policy, quiet, byHand>>
  BY DEF TuneInv, Run, WriteMode, WriteCeiling, WriteOnline, Next1
<1>2. Tail(todo[w]) \in Left
  BY <1>1, Commands DEF Left
<1>3. todo' \in [Writers -> Left] /\ todo'[w] = Tail(todo[w])
      /\ \A v \in Writers : v # w => todo'[v] = todo[v]
  BY <1>1, <1>2
<1>4. cpu1' \in BOOLEAN
  BY DEF TuneInv, Run, WriteMode, WriteCeiling, WriteOnline
<1>5. ceiling' \in {"high", "low"}
  BY DEF TuneInv, Run, WriteMode, WriteCeiling, WriteOnline
<1>6. ASSUME NoneByHand' PROVE OneRun' /\ SpareCoreIsFast' /\ Reached(Boot)' /\ Reached(Hook)'
  <2>1. NoneByHand /\ OneRun /\ (cpu1 => ceiling = "high") /\ Reached(w)
        /\ w \in {Boot, Hook}
    BY <1>1, <1>6, Runners DEF TuneInv, NoneByHand, SpareCoreIsFast, OneRun
  <2>2. OneRun'
    BY <1>1, <1>3, <2>1, Runners DEF OneRun
  <2>3. \A v \in {Boot, Hook} : v # w => todo[v] = << >> /\ todo'[v] = << >>
    BY <1>1, <1>3, <2>1, Runners DEF OneRun
  <2>4. (cpu1' => ceiling' = "high") /\ Reached(w)'
    <3>1. CASE Head(todo[w]) = "busActive"
      <4>1. UNCHANGED <<cpu1, ceiling>>
        BY <3>1 DEF Run, WriteMode, WriteCeiling, WriteOnline, Next1
      <4>2. todo'[w] = <<"high", "online">>
        BY <1>1, <1>3, <3>1, Commands
      <4> QED
        BY <2>1, <4>1, <4>2, Apart DEF Reached
    <3>2. CASE Head(todo[w]) = "high"
      <4>1. cpu1' = cpu1 /\ ceiling' = "high"
        BY <3>2 DEF Run, WriteMode, WriteCeiling, WriteOnline, Next1
      <4>2. todo'[w] = <<"online">>
        BY <1>1, <1>3, <3>2, Commands
      <4> QED
        BY <4>1, <4>2, Apart DEF Reached
    <3>3. CASE Head(todo[w]) = "online"
      <4>1. ceiling' = ceiling /\ todo[w] = <<"online">>
        BY <1>1, <3>3, Commands DEF Run, WriteMode, WriteCeiling, WriteOnline, Next1
      <4>2. todo'[w] = << >> /\ ceiling = "high"
        BY <1>1, <1>3, <2>1, <3>3, <4>1, Commands DEF Reached
      <4> QED
        BY <4>1, <4>2, Apart DEF Reached
    <3>4. CASE Head(todo[w]) = "offline"
      <4>1. ~cpu1' /\ ceiling' = ceiling
        BY <3>4 DEF Run, WriteMode, WriteCeiling, WriteOnline, Next1
      <4>2. todo'[w] = <<"low", "busIdle">>
        BY <1>1, <1>3, <3>4, Commands
      <4> QED
        BY <4>1, <4>2, Apart DEF Reached
    <3>5. CASE Head(todo[w]) = "low"
      <4>1. cpu1' = cpu1 /\ ~cpu1
        BY <1>1, <2>1, <3>5, Commands
        DEF Reached, Run, WriteMode, WriteCeiling, WriteOnline, Next1
      <4>2. todo'[w] = <<"busIdle">>
        BY <1>1, <1>3, <3>5, Commands
      <4> QED
        BY <4>1, <4>2, Apart DEF Reached
    <3>6. CASE Head(todo[w]) = "busIdle"
      <4>1. UNCHANGED <<cpu1, ceiling>>
        BY <3>6 DEF Run, WriteMode, WriteCeiling, WriteOnline, Next1
      <4>2. todo'[w] = << >>
        BY <1>1, <1>3, <3>6, Commands
      <4> QED
        BY <2>1, <4>1, <4>2, Apart DEF Reached
    <3> QED
      BY <1>1, <3>1, <3>2, <3>3, <3>4, <3>5, <3>6, Commands
  <2>5. \A v \in {Boot, Hook} : Reached(v)'
    BY <2>3, <2>4, Apart DEF Reached
  <2> QED
    BY <2>2, <2>4, <2>5 DEF SpareCoreIsFast
<1>7. byHand' \in 0 .. MaxByHand /\ policy' \in Modes
  BY <1>1 DEF TuneInv
<1>8. quiet' \in BOOLEAN
  BY <1>1 DEF TuneInv
<1> QED
  BY <1>3, <1>4, <1>5, <1>6, <1>7, <1>8 DEF TuneInv

\* A run begins: nothing of the board has moved yet.
LEMMA HooksStep == ASSUME TuneInv, Hooks PROVE TuneInv'
<1>1. PICK script \in {WindUp, WindDown} : todo' = [todo EXCEPT ![Hook] = script]
  BY DEF Hooks, HookIdle, HookActive, Start
<1>2. UNCHANGED <<cpu1, ceiling, quiet, byHand>> /\ policy' \in Modes
  BY DEF Hooks, HookIdle, HookActive, Modes
<1>3. todo' \in [Writers -> Left] /\ todo'[Hook] = script
      /\ \A v \in Writers : v # Hook => todo'[v] = todo[v]
  BY <1>1, Apart, Runners DEF TuneInv
<1>4. ASSUME NoneByHand PROVE todo[Boot] = << >>
  BY <1>4, Runners DEF TuneInv, OneRun, Hooks, HookIdle, HookActive, Done
<1>5. NoneByHand' => OneRun' /\ SpareCoreIsFast' /\ Reached(Boot)' /\ Reached(Hook)'
  BY <1>2, <1>3, <1>4, Runners, Apart DEF TuneInv, NoneByHand, OneRun, SpareCoreIsFast, Reached
<1>6. cpu1' \in BOOLEAN /\ quiet' \in BOOLEAN
  BY <1>2 DEF TuneInv
<1>7. byHand' \in 0 .. MaxByHand /\ ceiling' \in {"high", "low"}
  BY <1>2 DEF TuneInv
<1> QED
  BY <1>2, <1>3, <1>5, <1>6, <1>7 DEF TuneInv

LEMMA ByHandStep == ASSUME TuneInv, NEW w \in Shells, RunByHand(w) PROVE TuneInv'
<1>1. PICK script \in {WindUp, WindDown} : todo' = [todo EXCEPT ![w] = script]
  BY DEF RunByHand, Start
<1>2. todo' \in [Writers -> Left]
  BY <1>1, Apart, Runners DEF TuneInv
<1>3. byHand' \in 0 .. MaxByHand /\ ~NoneByHand'
  BY RunsAssumption DEF RunByHand, TuneInv, NoneByHand
<1> QED
  BY <1>2, <1>3 DEF RunByHand, TuneInv

LEMMA TuneInvStep == TuneInv /\ [Next]_vars => TuneInv'
<1> SUFFICES ASSUME TuneInv, [Next]_vars PROVE TuneInv'
  OBVIOUS
<1>1. ASSUME UNCHANGED tuneVars PROVE TuneInv'
  BY <1>1 DEF tuneVars, TuneInv, NoneByHand, OneRun, SpareCoreIsFast, Reached
<1>2. CASE Traffic
  <2>1. quiet' \in BOOLEAN
    BY <1>2 DEF Traffic, TuneInv
  <2> QED
    BY <1>2, <2>1 DEF Traffic, TuneInv, NoneByHand, OneRun, SpareCoreIsFast, Reached
<1> QED
  BY <1>1, <1>2, RunStep, HooksStep, ByHandStep DEF Next, Driver, vars

(***************************************************************************)
(* The spare core never runs at the low operating point, as long as nobody *)
(* runs power-tune by hand: at every point between two commands of the     *)
(* boot run and of the hook's.                                             *)
(***************************************************************************)
THEOREM SpareCore == Spec => []SpareCoreIsFast
<1>1. Init => TuneInv
  BY TuneInvInit
<1>2. TuneInv /\ [Next]_vars => TuneInv'
  BY TuneInvStep
<1>3. TuneInv => SpareCoreIsFast
  BY DEF TuneInv, SpareCoreIsFast
<1> QED
  BY <1>1, <1>2, <1>3, PTL DEF Spec

(***************************************************************************)
(* The type invariant of power-tune over its driver.                       *)
(***************************************************************************)
THEOREM Typing == Spec => []TypeOK
<1>1. Init => TuneInv
  BY TuneInvInit
<1>2. TuneInv /\ [Next]_vars => TuneInv'
  BY TuneInvStep
<1>3. Spec => []ClockInv
  <2>1. ClockInit => ClockInv
    BY ClockInvInit
  <2>2. ClockInv /\ [ClockNext]_clockVars => ClockInv'
    BY ClockInvStep
  <2> QED
    BY <2>1, <2>2, UsesTheDriver, PTL DEF ClockSpec
<1>4. TuneInv /\ ClockInv => TypeOK
  <2> SUFFICES ASSUME TuneInv, ClockInv PROVE TypeOK
    OBVIOUS
  <2>1. \A s \in Left : Len(s) \in 0 .. 3
    <3>1. Len(WindUp) \in 0 .. 3 /\ Len(WindDown) \in 0 .. 3
      BY DEF WindUp, WindDown
    <3>2. Len(<< >>) \in 0 .. 3 /\ Len(<<"high", "online">>) \in 0 .. 3
          /\ Len(<<"online">>) \in 0 .. 3 /\ Len(<<"low", "busIdle">>) \in 0 .. 3
          /\ Len(<<"busIdle">>) \in 0 .. 3
      OBVIOUS
    <3> QED
      BY <3>1, <3>2, Zenon DEF Left
  <2>2. \A w \in Writers : Len(todo[w]) \in 0 .. 3
    BY <2>1 DEF TuneInv
  <2>3. cpu1 \in BOOLEAN /\ quiet \in BOOLEAN
    BY DEF TuneInv
  <2> QED
    BY <2>2, <2>3 DEF TuneInv, ClockInv, TypeOK
<1> QED
  BY <1>1, <1>2, <1>3, <1>4, PTL DEF Spec
=============================================================================
