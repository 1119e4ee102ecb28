------------------------------ MODULE Launcher ------------------------------
(***************************************************************************)
(* usb-proxy-run, the script that init respawns: it holds the gadget off   *)
(* the Mac for a while after usb-proxy has exited, tells the new instance  *)
(* how long a device must have been there, and becomes usb-proxy by exec.  *)
(* Two stamp files on a tmpfs carry what it knows from one run to the      *)
(* next, and the script reads the clock and the stamp in whole seconds.    *)
(*                                                                         *)
(* Source: usb-proxy-run and its respawn line in inittab.  External: init, *)
(* the device on the host port and usb-proxy, which attaches the gadget to *)
(* a device that is at least --settle_ms old and exits when it leaves.     *)
(*                                                                         *)
(* Time passes in ticks.  Every age is a count that stops where the code   *)
(* no longer tells it apart, so that there is no bound on the time.        *)
(***************************************************************************)
EXTENDS Naturals

CONSTANTS
  TicksPerSecond,
  MIN_OFF_S, SETTLE_MS,
  MaxKills       \* how often usb-proxy crashes or the script is killed

ASSUME LauncherAssumption ==
  /\ {TicksPerSecond, MIN_OFF_S, SETTLE_MS} \subseteq Nat \ {0}
  /\ MaxKills \in Nat

MinOff == MIN_OFF_S * TicksPerSecond
SettleTicks == (SETTLE_MS * TicksPerSecond) \div 1000
Gone == SettleTicks + 1

VARIABLES
  phase,     \* ticks into the current second of the clock
  pc,        \* the step the script is at; "proxy" once it is usb-proxy
  wake,      \* ticks left to sleep
  settle,    \* the --settle_ms of this run, in ticks
  started,   \* /run/usb-proxy.started exists
  stamp,     \* /run/usb-proxy.detached: clock seconds since it was touched
  udc,       \* a gadget controller has been probed
  device,    \* ticks the device has been on the host port, or Gone
  gadget,    \* the gadget is attached
  orphan,    \* ... for a device that has left
  off,       \* ticks since it was last dropped
  crossed,   \* clock seconds since then
  kills,     \* budget
  first      \* history: no instance of usb-proxy but the running one

script == <<pc, wake, settle, started, stamp, first>>
mac    == <<gadget, orphan, off, crossed>>
vars   == <<phase, script, udc, device, mac, kills>>

NoStamp == MIN_OFF_S + 1
UpTo(n, cap) == IF n < cap THEN n + 1 ELSE n
NeverDropped == gadget = FALSE /\ orphan = FALSE /\ off = MinOff /\ crossed = MIN_OFF_S

Init ==
  /\ phase \in 0 .. TicksPerSecond - 1
  /\ pc = "dead" /\ wake = 0 /\ settle = 0
  /\ started = FALSE /\ stamp = NoStamp /\ first = TRUE
  /\ udc \in BOOLEAN /\ device \in {SettleTicks, Gone}
  /\ NeverDropped
  /\ kills = MaxKills

Drop ==
  /\ gadget' = FALSE /\ orphan' = FALSE
  /\ IF gadget THEN off' = 0 /\ crossed' = 0 ELSE UNCHANGED <<off, crossed>>

\* A quarter of a second, say, passes; nothing else happens in it.
Tick ==
  LET boundary == phase = TicksPerSecond - 1
      InSeconds(n, cap) == IF boundary THEN UpTo(n, cap) ELSE n
  IN /\ phase' = (phase + 1) % TicksPerSecond
     /\ wake' = IF wake > 0 THEN wake - 1 ELSE 0
     /\ stamp' = IF stamp = NoStamp THEN stamp ELSE InSeconds(stamp, MIN_OFF_S)
     /\ device' = IF device = Gone THEN device ELSE UpTo(device, SettleTicks)
     /\ off' = UpTo(off, MinOff) /\ crossed' = InSeconds(crossed, MIN_OFF_S)
     /\ UNCHANGED <<pc, settle, started, first, udc, gadget, orphan, kills>>

(***************************************************************************)
(* The script.                                                             *)
(***************************************************************************)
Step(from, to) == pc = from /\ pc' = to
Asleep == wake > 0

Respawn ==
  /\ Step("dead", "touch") /\ ~Asleep
  /\ UNCHANGED <<phase, wake, settle, started, stamp, first, udc, device, mac, kills>>

\* The stamp marks the first run after an exit; a later one leaves it alone.
Touch ==
  /\ Step("touch", "udc")
  /\ stamp' = IF stamp = NoStamp THEN 0 ELSE stamp
  /\ UNCHANGED <<phase, wake, settle, started, first, udc, device, mac, kills>>

NeedUdc ==
  /\ Step("udc", "debounce") /\ udc
  /\ UNCHANGED <<phase, wake, settle, started, stamp, first, udc, device, mac, kills>>

\* Mutant: the script ends for good instead of leaving the retry to init.
StopForGood == pc' = "stopped"
LeaveToInit == pc' = "dead"

NoUdc ==
  /\ pc = "udc" /\ ~udc
  /\ LeaveToInit
  /\ wake' = 2 * TicksPerSecond
  /\ UNCHANGED <<phase, settle, started, stamp, first, udc, device, mac, kills>>

\* Only after the first instance: both times are whole seconds of the clock.
Debounce ==
  /\ Step("debounce", "mark")
  /\ settle' = IF started THEN SettleTicks ELSE 0
  /\ wake' = IF started /\ stamp < MIN_OFF_S THEN (MIN_OFF_S - stamp) * TicksPerSecond ELSE 0
  /\ UNCHANGED <<phase, started, stamp, first, udc, device, mac, kills>>

\* Mutants: the second stamp stays; the first is never made.
KeepStamp == UNCHANGED stamp
ClearStamp == stamp' = NoStamp
LeaveUnmarked == UNCHANGED started
MarkStarted == started' = TRUE

Mark ==
  /\ Step("mark", "unstamp") /\ ~Asleep
  /\ MarkStarted
  /\ UNCHANGED <<phase, wake, settle, stamp, first, udc, device, mac, kills>>

Unstamp ==
  /\ Step("unstamp", "exec")
  /\ ClearStamp
  /\ UNCHANGED <<phase, wake, settle, started, first, udc, device, mac, kills>>

Exec ==
  /\ Step("exec", "proxy")
  /\ UNCHANGED <<phase, wake, settle, started, stamp, first, udc, device, mac, kills>>

Script == Respawn \/ Touch \/ NeedUdc \/ NoUdc \/ Debounce \/ Mark \/ Unstamp \/ Exec

(***************************************************************************)
(* usb-proxy, the device, and what goes wrong.                             *)
(***************************************************************************)
Attach ==
  /\ pc = "proxy" /\ ~gadget
  /\ device # Gone /\ device >= settle
  /\ gadget' = TRUE
  /\ UNCHANGED <<phase, script, udc, device, orphan, off, crossed, kills>>

\* usb-proxy exits: the device it proxies has left.
DeviceLeft ==
  /\ pc = "proxy" /\ orphan
  /\ pc' = "dead" /\ first' = FALSE
  /\ Drop
  /\ UNCHANGED <<phase, wake, settle, started, stamp, udc, device, kills>>

Kill ==
  /\ pc # "dead" /\ kills > 0
  /\ kills' = kills - 1
  /\ pc' = "dead" /\ wake' = 0
  /\ first' = (first /\ pc # "proxy")
  /\ Drop
  /\ UNCHANGED <<phase, settle, started, stamp, udc, device>>

Plug ==
  /\ device = Gone
  /\ device' = 0
  /\ UNCHANGED <<phase, script, udc, mac, kills>>

Unplug ==
  /\ device # Gone
  /\ device' = Gone
  /\ orphan' = gadget
  /\ UNCHANGED <<phase, script, udc, gadget, off, crossed, kills>>

UdcProbed ==
  /\ ~udc
  /\ udc' = TRUE
  /\ UNCHANGED <<phase, script, device, mac, kills>>

Proxy == Attach \/ DeviceLeft
Next  == Tick \/ Script \/ Proxy \/ Kill \/ Plug \/ Unplug \/ UdcProbed

Spec == Init /\ [][Next]_vars

\* Time passes, init respawns, the script runs, usb-proxy polls, the controller probes.
FairSpec == Spec /\ WF_vars(Tick) /\ WF_vars(Script) /\ WF_vars(Proxy) /\ WF_vars(UdcProbed)

----------------------------------------------------------------------------
Longest == (IF MIN_OFF_S > 2 THEN MIN_OFF_S ELSE 2) * TicksPerSecond   \* sleep

TypeOK ==
  /\ phase \in 0 .. TicksPerSecond - 1
  /\ pc \in {"dead", "touch", "udc", "debounce", "mark", "unstamp", "exec", "proxy"}
  /\ wake \in 0 .. Longest /\ settle \in {0, SettleTicks}
  /\ stamp \in 0 .. NoStamp
  /\ device \in 0 .. Gone
  /\ started \in BOOLEAN /\ udc \in BOOLEAN /\ first \in BOOLEAN
  /\ gadget \in BOOLEAN /\ orphan \in BOOLEAN
  /\ off \in 0 .. MinOff /\ crossed \in 0 .. MIN_OFF_S /\ kills \in 0 .. MaxKills

Attaches == ~gadget /\ gadget'

(***************************************************************************)
(* Between two instances the gadget is off while the clock moves on by     *)
(* MIN_OFF_S seconds, through crashes of usb-proxy, kills of the script at *)
(* any line and retries for want of a controller: a stamp left over from   *)
(* an earlier detach is never taken for this one's.                        *)
(***************************************************************************)
OffAcrossASecond == [][Attaches => crossed = MIN_OFF_S]_vars

(***************************************************************************)
(* "Hold D+ low for at least MIN_OFF_S since the detach" (usb-proxy-run);  *)
(* "the gadget stays detached >= 1 s between instances" (DEVELOPMENT.md).  *)
(***************************************************************************)
StaysDetached == [][Attaches => off = MinOff]_vars

(***************************************************************************)
(* Only the first instance since boot bridges a device that is younger     *)
(* than the settle time, whichever runs of the script were cut short.      *)
(***************************************************************************)
NoTransient == [][Attaches => first \/ device >= SettleTicks]_vars

(***************************************************************************)
(* A device that stays is bridged, and stays bridged, whatever happened to *)
(* the instances before it.                                                *)
(***************************************************************************)
DeviceServed == <>[](device # Gone) => <>[]gadget
=============================================================================
