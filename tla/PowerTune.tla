----------------------------- MODULE PowerTune -----------------------------
(***************************************************************************)
(* power-tune, the script that winds the board up and down, over the bus   *)
(* clock driver.  It runs once at boot, as usb-proxy's power hook, and by  *)
(* hand; its steps are separate writes to sysfs and nothing keeps two runs *)
(* apart.                                                                  *)
(*                                                                         *)
(* Source: power-tune (wind_up, wind_down, bus_clocks and the boot case).  *)
(* What boot does before wind_up touches none of this state: falcon_boot_ok *)
(* is in BootChain.  usb-proxy is external: its policy "starts wound up,   *)
(* winds down after power_idle_ms, and winds up again" (DEVELOPMENT.md),   *)
(* one hook at a time.                                                     *)
(***************************************************************************)
EXTENDS BusClocks, Sequences

CONSTANTS
  Boot, Hook,    \* the two runs of power-tune that the image itself starts
  MaxByHand      \* how often somebody runs power-tune in a shell

Shells == Writers \ {Boot, Hook}

ASSUME RunsAssumption == {Boot, Hook} \subseteq Writers /\ Boot # Hook /\ MaxByHand \in Nat

VARIABLES
  cpu1,      \* cpu1/online
  ceiling,   \* scaling_max_freq: "high" or "low"
  todo,      \* todo[w]: the commands left of a run
  policy,    \* the form usb-proxy has last called the hook with
  quiet,     \* no traffic for power_idle_ms
  byHand     \* budget

tuneVars == <<cpu1, ceiling, todo, policy, quiet, byHand>>
vars == <<clockVars, tuneVars>>

\* Mutants: the two orders that the comment above wind_up rules out.
CoreFirst    == <<"online", "high", "busActive">>
CeilingFirst == <<"low", "offline", "busIdle">>
\* Mutant: the ceiling is never lowered.
KeepsCeiling == <<"offline", "busIdle">>
WindUp   == <<"busActive", "high", "online">>
WindDown == <<"offline", "low", "busIdle">>

Init ==
  /\ ClockInit
  /\ cpu1 = TRUE /\ ceiling = "high"
  /\ todo = [w \in Writers |-> IF w = Boot THEN WindUp ELSE << >>]
  /\ policy = "active" /\ quiet = FALSE
  /\ byHand = MaxByHand

\* The next command of run w; a run waits for its write to the driver to return.
Next1(w, command) ==
  /\ todo[w] # << >> /\ Head(todo[w]) = command
  /\ want[w] = "none"
  /\ todo' = [todo EXCEPT ![w] = Tail(@)]
  /\ UNCHANGED <<policy, quiet, byHand>>

WriteMode(w) ==
  /\ \/ Next1(w, "busActive") /\ Store(w, "active")
     \/ Next1(w, "busIdle") /\ Store(w, "idle")
  /\ UNCHANGED <<cpu1, ceiling>>

WriteCeiling(w) ==
  /\ \/ Next1(w, "high") /\ ceiling' = "high"
     \/ Next1(w, "low") /\ ceiling' = "low"
  /\ UNCHANGED <<clockVars, cpu1>>

WriteOnline(w) ==
  /\ \/ Next1(w, "online") /\ cpu1' = TRUE
     \/ Next1(w, "offline") /\ cpu1' = FALSE
  /\ UNCHANGED <<clockVars, ceiling>>

Run(w) == WriteMode(w) \/ WriteCeiling(w) \/ WriteOnline(w)
Done(w) == todo[w] = << >> /\ want[w] = "none"

Start(w, script) == todo' = [todo EXCEPT ![w] = script]

\* usb-proxy sees five quiet seconds; by then the boot run is long over.
HookIdle ==
  /\ quiet /\ policy = "active" /\ Done(Hook) /\ Done(Boot)
  /\ Start(Hook, WindDown)
  /\ policy' = "idle"
  /\ UNCHANGED <<clockVars, cpu1, ceiling, quiet, byHand>>

HookActive ==
  /\ ~quiet /\ policy = "idle" /\ Done(Hook)
  /\ Start(Hook, WindUp)
  /\ policy' = "active"
  /\ UNCHANGED <<clockVars, cpu1, ceiling, quiet, byHand>>

Traffic ==
  /\ quiet' = ~quiet
  /\ UNCHANGED <<clockVars, cpu1, ceiling, todo, policy, byHand>>

RunByHand(w) ==
  /\ byHand > 0 /\ Done(w) /\ Done(Boot)
  /\ byHand' = byHand - 1
  /\ \E script \in {WindUp, WindDown} : Start(w, script)
  /\ UNCHANGED <<clockVars, cpu1, ceiling, policy, quiet>>

Driver == (SetIdle \/ \E w \in Writers : Acquire(w)) /\ UNCHANGED tuneVars
Hooks  == HookIdle \/ HookActive

Next == Driver \/ Hooks \/ Traffic \/ (\E w \in Writers : Run(w)) \/ (\E w \in Shells : RunByHand(w))

Spec == Init /\ [][Next]_vars

\* Runs, the driver and usb-proxy's monitor thread make progress.
FairSpec ==
  /\ Spec
  /\ WF_vars(SetIdle /\ UNCHANGED tuneVars) /\ WF_vars(HookIdle) /\ WF_vars(HookActive)
  /\ \A w \in Writers : WF_vars(Run(w)) /\ SF_vars(Acquire(w) /\ UNCHANGED tuneVars)

----------------------------------------------------------------------------
TypeOK ==
  /\ ClockTypeOK
  /\ cpu1 \in BOOLEAN /\ ceiling \in {"high", "low"}
  /\ \A w \in Writers : Len(todo[w]) \in 0 .. 3
  /\ policy \in Modes /\ quiet \in BOOLEAN /\ byHand \in 0 .. MaxByHand

NoneByHand == byHand = MaxByHand

(***************************************************************************)
(* The spare core never runs at the low operating point (the comment above *)
(* wind_up in power-tune), as long as the image's own runs are the only    *)
(* ones: a run by hand may overlap the hook (see RaceHeals).               *)
(***************************************************************************)
SpareCoreIsFast == NoneByHand => (cpu1 => ceiling = "high")

\* The board is as the last hook was to leave it; the mode, unless clocks fail.
AsAsked ==
  /\ cpu1 = (policy = "active") /\ ceiling = IF policy = "active" THEN "high" ELSE "low"
  /\ errors = MaxErrors => idle = (policy = "idle")

(***************************************************************************)
(* The hook follows the traffic and has the last word: it is called for    *)
(* what the traffic settles on and comes to an end, whoever holds the      *)
(* driver's mutex then; and what runs by hand mixed into its own, in any   *)
(* of the three settings, the later hooks undo: from some point on each    *)
(* leaves the board as its form says.                                      *)
(***************************************************************************)
FollowsTraffic ==
  /\ <>[]quiet  => <>[](policy = "idle" /\ Done(Hook))
  /\ <>[]~quiet => <>[](policy = "active" /\ Done(Hook))
  /\ []NoneByHand \/ ([]<>(policy = "idle") /\ []<>(policy = "active")) => <>[](Done(Hook) => AsAsked)

(***************************************************************************)
(* A run by hand may leave the board half wound up, but not for good: as   *)
(* long as traffic comes and goes, the hooks bring the spare core and the  *)
(* ceiling back in step.                                                   *)
(***************************************************************************)
RaceHeals ==
  []<>(policy = "idle") /\ []<>(policy = "active") => <>[](cpu1 => ceiling = "high")
=============================================================================
