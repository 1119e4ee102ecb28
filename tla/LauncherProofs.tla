--------------------------- MODULE LauncherProofs ---------------------------
(***************************************************************************)
(* The gadget stays off across MIN_OFF_S seconds of the clock, and only    *)
(* the first instance takes a young device, for every resolution of the    *)
(* time, every setting and any number of kills.                            *)
(*                                                                         *)
(* The stamp never claims more than what has passed since the gadget was   *)
(* dropped (Stamped); the sleep covers the seconds the stamp leaves open,  *)
(* a boundary of the clock for each (Sleeps); what the first instance is   *)
(* excused from rests on the mark being made before exec (Marked).         *)
(***************************************************************************)
EXTENDS Launcher, TLAPS

Stamped ==
  /\ stamp # NoStamp => stamp <= crossed
  /\ pc \in {"udc", "debounce"} => stamp # NoStamp
  /\ pc \in {"exec", "proxy"} => stamp = NoStamp

Sleeps ==
  /\ pc = "mark" => (MIN_OFF_S - crossed) * TicksPerSecond <= phase + wake
  /\ pc \in {"unstamp", "exec", "proxy"} /\ ~gadget => crossed = MIN_OFF_S

Marked ==
  /\ ~started => first /\ crossed = MIN_OFF_S /\ pc \notin {"unstamp", "exec", "proxy"}
  /\ pc \in {"mark", "unstamp", "exec", "proxy"} => first \/ settle = SettleTicks

OnlyProxyAttaches == gadget => pc = "proxy"

IInv == TypeOK /\ Stamped /\ Sleeps /\ Marked /\ OnlyProxyAttaches

-----------------------------------------------------------------------------
(* What the provers need of products.                                      *)
LEMMA Times == ASSUME NEW a \in Nat, NEW b \in Nat PROVE a * b \in Nat
  OBVIOUS

LEMMA TimesMonotone ==
  ASSUME NEW a \in Nat, NEW b \in Nat, NEW c \in Nat, a <= b
  PROVE  a * c <= b * c
<1>1. (b - a) * c \in Nat
  BY Times
<1>2. (b - a) * c = b * c - a * c
  OBVIOUS
<1> QED
  BY <1>1, <1>2, Times

LEMMA TimesOneLess ==
  ASSUME NEW a \in Nat \ {0}, NEW c \in Nat PROVE (a - 1) * c = a * c - c
  OBVIOUS

\* Less than a second's worth of ticks leaves no second open.
LEMMA NoneOpen ==
  ASSUME NEW a \in Nat, NEW c \in Nat \ {0}, NEW p \in 0 .. c - 1, a * c <= p
  PROVE  a = 0
<1>1. SUFFICES ASSUME 1 <= a PROVE FALSE
  OBVIOUS
<1>2. 1 * c <= a * c
  BY <1>1, TimesMonotone
<1> QED
  BY <1>2, Times

\* A sleep one shorter and a clock one further cover the same.
LEMMA Onward ==
  ASSUME NEW n \in Nat, NEW p \in Nat, NEW w \in Nat, NEW w1 \in Nat,
         n <= p + w, w <= w1 + 1
  PROVE  n <= (p + 1) + w1
  OBVIOUS

LEMMA Turn ==
  ASSUME NEW n \in Nat, NEW c \in Nat, NEW w1 \in Nat, n <= c + w1
  PROVE  n - c <= 0 + w1
  OBVIOUS

LEMMA SettleNat == SettleTicks \in Nat
<1>1. SETTLE_MS * TicksPerSecond \in Nat
  BY LauncherAssumption, Times
<1> QED
  BY <1>1 DEF SettleTicks

LEMMA Sizes ==
  /\ SettleTicks \in Nat /\ Gone \in Nat /\ Gone = SettleTicks + 1
  /\ MinOff \in Nat /\ MIN_OFF_S \in Nat \ {0} /\ TicksPerSecond \in Nat \ {0}
  /\ NoStamp = MIN_OFF_S + 1 /\ MaxKills \in Nat
  BY SettleNat, Times, LauncherAssumption DEF Gone, MinOff, NoStamp

LEMMA LongestCovers ==
  /\ Longest \in Nat /\ 2 * TicksPerSecond <= Longest
  /\ \A n \in 0 .. MIN_OFF_S : n * TicksPerSecond \in Nat /\ n * TicksPerSecond <= Longest
<1> DEFINE most == IF MIN_OFF_S > 2 THEN MIN_OFF_S ELSE 2
<1>1. most \in Nat /\ 2 <= most /\ MIN_OFF_S <= most
  BY Sizes
<1>2. \A n \in 0 .. most : n * TicksPerSecond \in Nat /\ n * TicksPerSecond <= most * TicksPerSecond
  BY <1>1, Sizes, Times, TimesMonotone
<1>3. Longest = most * TicksPerSecond
  BY DEF Longest
<1> QED
  BY <1>1, <1>2, <1>3, Sizes, Times

-----------------------------------------------------------------------------
(* The type invariant.                                                     *)
LEMMA TypingInit == Init => TypeOK
<1> SUFFICES ASSUME Init PROVE TypeOK
  OBVIOUS
<1>1. gadget \in BOOLEAN /\ orphan \in BOOLEAN
  BY DEF Init, NeverDropped
<1>2. off \in 0 .. MinOff /\ crossed \in 0 .. MIN_OFF_S
  BY Sizes DEF Init, NeverDropped
<1>3. started \in BOOLEAN /\ udc \in BOOLEAN /\ first \in BOOLEAN
  BY DEF Init
<1> QED
  BY <1>1, <1>2, <1>3, Sizes, LongestCovers DEF Init, TypeOK

LEMMA TypingStep == TypeOK /\ [Next]_vars => TypeOK'
<1> SUFFICES ASSUME TypeOK, [Next]_vars PROVE TypeOK'
  OBVIOUS
<1> USE Sizes, LongestCovers DEF TypeOK, Step, mac, UpTo
<1> DEFINE Dropped == gadget' \in BOOLEAN /\ orphan' \in BOOLEAN
                      /\ off' \in 0 .. MinOff /\ crossed' \in 0 .. MIN_OFF_S
<1>0. Drop => Dropped
  <2> SUFFICES ASSUME Drop PROVE Dropped
    OBVIOUS
  <2>1. gadget' \in BOOLEAN /\ orphan' \in BOOLEAN
    BY DEF Drop
  <2>2. off' \in 0 .. MinOff /\ crossed' \in 0 .. MIN_OFF_S
    BY DEF Drop
  <2> QED
    BY <2>1, <2>2
<1>1. CASE Tick
  BY <1>1 DEF Tick
<1>2. CASE Respawn
  BY <1>2 DEF Respawn
<1>3. CASE Touch
  BY <1>3 DEF Touch
<1>4. CASE NeedUdc
  BY <1>4 DEF NeedUdc
<1>5. CASE NoUdc
  BY <1>5 DEF NoUdc, LeaveToInit
<1>6. CASE Debounce
  <2>1. wake' \in 0 .. Longest
    <3>1. CASE started /\ stamp < MIN_OFF_S
      <4>1. MIN_OFF_S - stamp \in 0 .. MIN_OFF_S
        BY <3>1
      <4> QED
        BY <1>6, <3>1, <4>1 DEF Debounce
    <3>2. CASE ~(started /\ stamp < MIN_OFF_S)
      BY <1>6, <3>2 DEF Debounce
    <3> QED
      BY <3>1, <3>2
  <2> QED
    BY <1>6, <2>1 DEF Debounce
<1>7. CASE Mark
  BY <1>7 DEF Mark, MarkStarted
<1>8. CASE Unstamp
  BY <1>8 DEF Unstamp, ClearStamp
<1>9. CASE Exec
  BY <1>9 DEF Exec
<1>10. CASE Attach
  BY <1>10 DEF Attach, script
<1>11. CASE DeviceLeft
  <2>1. Dropped
    BY <1>0, <1>11 DEF DeviceLeft
  <2> QED
    BY <1>11, <2>1 DEF DeviceLeft
<1>12. CASE Kill
  <2>1. Dropped
    BY <1>0, <1>12 DEF Kill
  <2>2. first' \in BOOLEAN
    BY <1>12 DEF Kill
  <2> QED
    BY <1>12, <2>1, <2>2 DEF Kill
<1>13. CASE Plug
  BY <1>13 DEF Plug, script
<1>14. CASE Unplug
  BY <1>14 DEF Unplug, script
<1>15. CASE UdcProbed
  BY <1>15 DEF UdcProbed, script
<1>16. CASE UNCHANGED vars
  BY <1>16 DEF vars, script
<1> QED
  BY <1>1, <1>2, <1>3, <1>4, <1>5, <1>6, <1>7, <1>8, <1>9, <1>10, <1>11, <1>12, <1>13,
     <1>14, <1>15, <1>16 DEF Next, Script, Proxy

(***************************************************************************)
(* The script, the clock and the device stay within their ranges for every *)
(* resolution of the time and every setting.                               *)
(***************************************************************************)
THEOREM Typing == Spec => []TypeOK
<1>1. Init => TypeOK
  BY TypingInit
<1>2. TypeOK /\ [Next]_vars => TypeOK'
  BY TypingStep
<1> QED
  BY <1>1, <1>2, PTL DEF Spec

-----------------------------------------------------------------------------
(* The inductive invariant.                                                *)
LEMMA InvInit == Init => IInv
<1> SUFFICES ASSUME Init PROVE IInv
  OBVIOUS
<1>1. ~gadget /\ crossed = MIN_OFF_S
  BY DEF Init, NeverDropped
<1>2. pc = "dead" /\ stamp = NoStamp /\ ~started /\ first
  BY DEF Init
<1> QED
  BY <1>1, <1>2, TypingInit DEF IInv, Stamped, Sleeps, Marked, OnlyProxyAttaches

\* A tick takes one from the sleep and moves the clock; a boundary opens a second.
LEMMA SleepsTick == ASSUME IInv, Tick PROVE Sleeps'
<1>1. pc' = pc /\ gadget' = gadget
  BY DEF Tick
<1>2. TypeOK /\ Sleeps
  BY DEF IInv
<1>3. CASE pc = "mark"
  <2> DEFINE open == MIN_OFF_S - crossed
  <2>1. open \in Nat
    BY <1>2, Sizes DEF TypeOK
  <2>2. PICK need \in Nat : need = open * TicksPerSecond /\ need <= phase + wake
    BY <1>2, <1>3, <2>1, Sizes, Times DEF Sleeps
  <2>3. phase \in Nat /\ wake' \in Nat /\ phase' \in Nat /\ wake <= wake' + 1 /\ wake \in Nat
    BY <1>2, Sizes, LongestCovers DEF TypeOK, Tick
  <2>4. SUFFICES (MIN_OFF_S - crossed') * TicksPerSecond <= phase' + wake'
    BY <1>1, <1>3 DEF Sleeps
  <2>5. CASE phase = TicksPerSecond - 1 /\ open # 0
    <3>0. need \in Nat /\ need <= phase + wake
      BY <2>2
    <3>1. phase' = 0 /\ MIN_OFF_S - crossed' = open - 1
      BY <1>2, <2>5, Sizes DEF TypeOK, Tick, UpTo
    <3>2. (open - 1) * TicksPerSecond = need - TicksPerSecond
      BY <2>1, <2>2, <2>5, Sizes, TimesOneLess
    <3>3. phase = TicksPerSecond - 1
      BY <2>5
    <3>4. need - TicksPerSecond <= phase' + wake'
      <4>1. need <= (phase + 1) + wake'
        BY <2>3, <3>0, Onward
      <4>2. phase + 1 = TicksPerSecond
        BY <3>3, Sizes
      <4>3. need <= TicksPerSecond + wake'
        BY <4>1, <4>2
      <4> QED
        BY <2>3, <3>0, <3>1, <4>3, Sizes, Turn
    <3> QED
      BY <3>1, <3>2, <3>4
  <2>6. CASE phase # TicksPerSecond - 1 /\ open # 0
    <3>1. phase' = phase + 1 /\ crossed' = crossed
      BY <1>2, <2>6, Sizes DEF TypeOK, Tick
    <3>2. need \in Nat /\ need <= phase + wake
      BY <2>2
    <3>3. need <= phase' + wake'
      BY <2>3, <3>1, <3>2, Onward
    <3> QED
      BY <2>2, <3>1, <3>3
  <2>7. CASE open = 0
    <3>1. MIN_OFF_S - crossed' = 0
      BY <1>2, <2>7, Sizes DEF TypeOK, Tick, UpTo
    <3>2. 0 * TicksPerSecond = 0
      BY Sizes
    <3> QED
      BY <2>3, <3>1, <3>2
  <2> QED
    BY <2>5, <2>6, <2>7
<1>4. CASE pc # "mark"
  BY <1>1, <1>2, <1>4, Sizes DEF TypeOK, Sleeps, Tick, UpTo
<1> QED
  BY <1>3, <1>4

\* The sleep that Debounce chooses, from a stamp that is no older than the drop.
LEMMA SleepsDebounce == ASSUME IInv, Debounce PROVE Sleeps'
<1> USE Sizes DEF TypeOK, IInv, Debounce, Step
<1>1. pc = "debounce" /\ pc' = "mark" /\ phase' = phase /\ crossed' = crossed
  BY DEF mac
<1>2. stamp <= crossed /\ stamp \in Nat /\ phase \in Nat
  BY <1>1 DEF Stamped
<1>3. CASE started /\ stamp < MIN_OFF_S
  <2>1. MIN_OFF_S - crossed \in Nat /\ MIN_OFF_S - stamp \in Nat
        /\ MIN_OFF_S - crossed <= MIN_OFF_S - stamp
    BY <1>2, <1>3
  <2>2. (MIN_OFF_S - crossed) * TicksPerSecond <= (MIN_OFF_S - stamp) * TicksPerSecond
    BY <2>1, TimesMonotone
  <2>3. wake' = (MIN_OFF_S - stamp) * TicksPerSecond
    BY <1>3
  <2>4. (MIN_OFF_S - crossed) * TicksPerSecond \in Nat /\ wake' \in Nat
    BY <2>1, <2>3, Times
  <2>5. (MIN_OFF_S - crossed') * TicksPerSecond <= phase' + wake'
    BY <1>1, <1>2, <2>2, <2>3, <2>4
  <2> QED
    BY <1>1, <2>5 DEF Sleeps
<1>4. CASE ~(started /\ stamp < MIN_OFF_S)
  <2>1. crossed = MIN_OFF_S /\ wake' = 0
    BY <1>2, <1>4 DEF Marked
  <2>2. (MIN_OFF_S - crossed') * TicksPerSecond = 0
    BY <1>1, <2>1
  <2>3. (MIN_OFF_S - crossed') * TicksPerSecond <= phase' + wake'
    BY <1>1, <1>2, <2>1, <2>2
  <2> QED
    BY <1>1, <2>3 DEF Sleeps
<1> QED
  BY <1>3, <1>4

\* Once the sleep is over, no second is left open.
LEMMA SleepsMark == ASSUME IInv, Mark PROVE Sleeps'
<1> USE Sizes DEF TypeOK, IInv, Mark, Step, Asleep
<1>1. pc = "mark" /\ pc' = "unstamp" /\ wake = 0 /\ crossed' = crossed
  BY DEF mac, Longest
<1>2. (MIN_OFF_S - crossed) * TicksPerSecond <= phase
  BY <1>1 DEF Sleeps
<1>3. MIN_OFF_S - crossed = 0
  BY <1>2, NoneOpen
<1> QED
  BY <1>1, <1>3 DEF Sleeps

LEMMA InvStep == IInv /\ [Next]_vars => IInv'
<1> SUFFICES ASSUME IInv, [Next]_vars PROVE IInv'
  OBVIOUS
<1>0. TypeOK'
  BY TypingStep DEF IInv
<1> DEFINE Rest == Stamped' /\ Marked' /\ OnlyProxyAttaches'
<1> USE Sizes DEF TypeOK, Stamped, Marked, OnlyProxyAttaches, Step, mac
<1>1. CASE Tick
  <2>1. Rest
    BY <1>1 DEF IInv, Tick, UpTo
  <2> QED
    BY <1>0, <1>1, <2>1, SleepsTick DEF IInv
<1>2. CASE Respawn
  BY <1>0, <1>2 DEF IInv, Sleeps, Respawn
<1>3. CASE Touch
  BY <1>0, <1>3 DEF IInv, Sleeps, Touch
<1>4. CASE NeedUdc
  BY <1>0, <1>4 DEF IInv, Sleeps, NeedUdc
<1>5. CASE NoUdc
  BY <1>0, <1>5 DEF IInv, Sleeps, NoUdc, LeaveToInit
<1>6. CASE Debounce
  <2>1. Rest
    BY <1>6 DEF IInv, Debounce
  <2> QED
    BY <1>0, <1>6, <2>1, SleepsDebounce DEF IInv
<1>7. CASE Mark
  <2>1. Rest
    BY <1>7, SleepsMark DEF IInv, Mark, MarkStarted
  <2> QED
    BY <1>0, <1>7, <2>1, SleepsMark DEF IInv
<1>8. CASE Unstamp
  BY <1>0, <1>8 DEF IInv, Sleeps, Unstamp, ClearStamp
<1>9. CASE Exec
  BY <1>0, <1>9 DEF IInv, Sleeps, Exec
<1>10. CASE Attach
  BY <1>0, <1>10 DEF IInv, Sleeps, Attach, script
<1>11. CASE DeviceLeft
  BY <1>0, <1>11 DEF IInv, Sleeps, DeviceLeft, Drop
<1>12. CASE Kill
  BY <1>0, <1>12 DEF IInv, Sleeps, Kill, Drop
<1>13. CASE Plug
  BY <1>0, <1>13 DEF IInv, Sleeps, Plug, script
<1>14. CASE Unplug
  BY <1>0, <1>14 DEF IInv, Sleeps, Unplug, script
<1>15. CASE UdcProbed
  BY <1>0, <1>15 DEF IInv, Sleeps, UdcProbed, script
<1>16. CASE UNCHANGED vars
  BY <1>0, <1>16 DEF IInv, Sleeps, vars, script
<1> QED
  BY <1>1, <1>2, <1>3, <1>4, <1>5, <1>6, <1>7, <1>8, <1>9, <1>10, <1>11, <1>12, <1>13,
     <1>14, <1>15, <1>16 DEF Next, Script, Proxy

THEOREM Invariant == Spec => []IInv
<1>1. Init => IInv
  BY InvInit
<1>2. IInv /\ [Next]_vars => IInv'
  BY InvStep
<1> QED
  BY <1>1, <1>2, PTL DEF Spec

\* Nothing attaches the gadget but usb-proxy, to a device it has settled for.
LEMMA AttachIsProxy ==
  ASSUME IInv, [Next]_vars, Attaches
  PROVE  pc = "proxy" /\ ~gadget /\ device >= settle
<1> USE DEF Attaches, Step, mac
<1>1. Attach
  BY DEF Next, Script, Proxy, vars, script, Tick, Respawn, Touch, NeedUdc, NoUdc, Debounce,
     Mark, Unstamp, Exec, DeviceLeft, Kill, Drop, Plug, Unplug, UdcProbed
<1> QED
  BY <1>1 DEF Attach

(***************************************************************************)
(* Between two instances the gadget is off while the clock moves on by     *)
(* MIN_OFF_S seconds.                                                      *)
(***************************************************************************)
THEOREM OffLongEnough == Spec => OffAcrossASecond
<1>1. IInv /\ [Next]_vars => [Attaches => crossed = MIN_OFF_S]_vars
  BY AttachIsProxy DEF IInv, Sleeps
<1> QED
  BY <1>1, Invariant, PTL DEF Spec, OffAcrossASecond

(***************************************************************************)
(* Only the first instance bridges a device younger than the settle time.  *)
(***************************************************************************)
THEOREM SettledOrFirst == Spec => NoTransient
<1>1. IInv /\ [Next]_vars => [Attaches => first \/ device >= SettleTicks]_vars
  BY AttachIsProxy DEF IInv, Marked
<1> QED
  BY <1>1, Invariant, PTL DEF Spec, NoTransient
=============================================================================
