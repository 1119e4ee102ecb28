----------------------------- MODULE BootChain -----------------------------
(***************************************************************************)
(* How the appliance decides what to boot.  The SPL starts the kernel in   *)
(* the raw card region itself ("Falcon"); U-Boot proper and the FAT copy   *)
(* of the kernel are the recovery path.  The stages talk to the next boot  *)
(* through RTC registers that survive a warm reset and read zero after a   *)
(* cold start, and a hardware watchdog turns a hang into a warm reset.     *)
(*                                                                         *)
(* Sources: the U-Boot patches 0003 (Falcon) and 0004 (FEL request),       *)
(* usbproxy-boot.cmd, power-tune's boot step, usb-flash-mode and the forms *)
(* of reboot that scripts/applib.py sends.                                 *)
(***************************************************************************)
EXTENDS Naturals

CONSTANTS
  MaxFaults,   \* how many hangs, panics and power cuts a behaviour has
  MaxOps       \* how many things the operator does in a behaviour

ASSUME BoundsAssumption == MaxFaults \in Nat /\ MaxOps \in Nat

(***************************************************************************)
(* What a copy of the kernel does when started.  "none" is not a Linux     *)
(* legacy image; "dies" panics on the way to userspace; "noinit" is the    *)
(* plain uImage without the initramfs, which never reaches an init while   *)
(* the kernel goes on feeding the watchdog.                                *)
(***************************************************************************)
Images == {"good", "dies", "noinit", "none"}
Copies == {"raw", "fat"}

Stages == {"spl", "fel", "marked", "falcon", "loadub", "uboot", "dfu", "scr", "prompt",
           "kernel", "user", "up"}

\* Where a catch was started from, see CatchOverUsb for "early".
Catches == {"no", "shell", "prompt", "usb", "early"}

VARIABLES
  stage,     \* what the CPU runs
  hung,      \* that stage has stopped making progress
  wdt,       \* the hardware watchdog counts
  gp0,       \* RTC GP0: "DFU1" or "0"
  gp1,       \* RTC GP1: "FLCN", "FEL" or "0"
  card,      \* the two kernel copies on the SD card
  via,       \* the copy the running kernel was loaded from
  img,       \* and what that copy was when it was loaded
  rebooting, \* a shell is about to run `reboot -f`
  catch,     \* how a script asked for the U-Boot prompt it is still spamming for
  faults, ops,   \* the budgets left
  unproven,  \* history: the last SPL decision was Falcon, no userspace since
  asked,     \* history: usb-flash-mode has run and no DFU session has answered
  missed     \* history: the kind of the last catch that ended without a prompt

rtc    == <<gp0, gp1>>
budget == <<faults, ops>>
loaded == <<via, img>>
script == <<rebooting, catch, missed>>
ghost  == <<unproven, asked>>
vars   == <<stage, hung, wdt, rtc, card, loaded, script, budget, ghost>>

At(s) == stage = s /\ ~hung
Goto(s) == stage' = s /\ UNCHANGED hung

(***************************************************************************)
(* Resets.  A warm reset keeps the RTC registers and disarms the watchdog  *)
(* until somebody arms it again; a cold start zeroes the registers.        *)
(***************************************************************************)
Rebooted ==
  /\ stage' = "spl" /\ hung' = FALSE /\ wdt' = FALSE
  /\ rebooting' = FALSE
  /\ UNCHANGED loaded

SpendFault == faults > 0 /\ faults' = faults - 1 /\ UNCHANGED ops
SpendOp    == ops > 0 /\ ops' = ops - 1 /\ UNCHANGED faults

(***************************************************************************)
(* The SPL.  board_init_f answers a FEL request before anything else;      *)
(* spl_start_uboot then chooses between U-Boot proper and Falcon.          *)
(***************************************************************************)
SplFel ==
  /\ At("spl") /\ gp1 = "FEL"
  /\ gp1' = "0"
  /\ Goto("fel")
  /\ UNCHANGED <<wdt, gp0, card, loaded, script, budget, ghost>>

DfuReason  == IF gp0 = "DFU1" THEN {"DFU"} ELSE {}
DiedReason == IF gp1 = "FLCN" THEN {"DIED"} ELSE {}
\* Mutants: the SPL forgets to read one of the two registers.
WhyIgnoresGp1 == DfuReason
WhyIgnoresGp0 == DiedReason
Why == DfuReason \cup DiedReason

\* spl_start_uboot returns 1: the watchdog is left as the reset left it.
SplToUBoot ==
  /\ At("spl") /\ gp1 # "FEL" /\ Why # {}
  /\ gp1' = "0"
  /\ unproven' = FALSE
  /\ Goto("loadub")
  /\ UNCHANGED <<wdt, gp0, card, loaded, script, budget, asked>>

\* Mutants: the mark, or the watchdog, left to spl_board_prepare_for_linux.
MarkLater == UNCHANGED gp1
ArmLater  == UNCHANGED wdt
MarkAttempt == gp1' = "FLCN"
ArmForLoad  == wdt' = TRUE

\* spl_start_uboot returns 0: mark the attempt, then arm, then read the card.
SplMark ==
  /\ At("spl") /\ gp1 # "FEL" /\ Why = {}
  /\ MarkAttempt
  /\ unproven' = TRUE
  /\ Goto("marked")
  /\ UNCHANGED <<wdt, gp0, card, loaded, script, budget, asked>>

SplArm ==
  /\ At("marked")
  /\ ArmForLoad
  /\ Goto("falcon")
  /\ UNCHANGED <<rtc, card, loaded, script, budget, ghost>>

\* The raw region holds a Linux image: spl_board_prepare_for_linux, then the jump.
FalconJump ==
  /\ At("falcon") /\ card["raw"] # "none"
  /\ wdt' = TRUE
  /\ via' = "raw" /\ img' = card["raw"]
  /\ Goto("kernel")
  /\ UNCHANGED <<gp0, gp1, card, script, budget, ghost>>

\* It does not: spl_mmc loads U-Boot proper by itself.
FalconFallThrough ==
  /\ At("falcon") /\ card["raw"] = "none"
  /\ Goto("loadub")
  /\ UNCHANGED <<wdt, rtc, card, loaded, script, budget, ghost>>

\* U-Boot proper comes up and arms the watchdog (CONFIG_WATCHDOG_AUTOSTART).
StartUBoot ==
  /\ At("loadub")
  /\ wdt' = TRUE
  /\ Goto("uboot")
  /\ UNCHANGED <<rtc, card, loaded, script, budget, ghost>>

(***************************************************************************)
(* U-Boot proper runs boot.scr.  The flash request is cleared before the   *)
(* session starts.  A session ends by itself (nobody came within 120 s),   *)
(* or by the host's reset request.                                         *)
(***************************************************************************)
\* Mutant: boot.scr leaves the request in place.
KeepRequest  == UNCHANGED gp0
ClearRequest == gp0' = "0"

ScrRequest ==
  /\ At("uboot") /\ catch = "no" /\ gp0 = "DFU1"
  /\ ClearRequest
  /\ asked' = FALSE
  /\ Goto("dfu")
  /\ UNCHANGED <<wdt, gp1, card, loaded, script, budget, unproven>>

ScrNoRequest ==
  /\ At("uboot") /\ catch = "no" /\ gp0 # "DFU1"
  /\ Goto("scr")
  /\ UNCHANGED <<wdt, rtc, card, loaded, script, budget, ghost>>

DfuTimeout ==
  /\ At("dfu")
  /\ Goto("scr")
  /\ UNCHANGED <<wdt, rtc, card, loaded, script, budget, ghost>>

\* The host writes one copy; a torn or wrong write may leave any image.
DfuWrite(c, i) ==
  /\ At("dfu")
  /\ SpendOp
  /\ card' = [card EXCEPT ![c] = i]
  /\ UNCHANGED <<stage, hung, wdt, rtc, loaded, script, ghost>>

DfuReset ==
  /\ At("dfu")
  /\ SpendOp
  /\ Rebooted
  /\ UNCHANGED <<rtc, card, catch, missed, ghost>>

ScrBoot ==
  /\ At("scr") /\ card["fat"] # "none"
  /\ via' = "fat" /\ img' = card["fat"]
  /\ Goto("kernel")
  /\ UNCHANGED <<wdt, rtc, card, script, budget, ghost>>

\* bootm refuses the image and U-Boot ends up at its prompt, feeding the watchdog.
ScrFail ==
  /\ At("scr") /\ card["fat"] = "none"
  /\ Goto("prompt")
  /\ UNCHANGED <<wdt, rtc, card, loaded, script, budget, ghost>>

(***************************************************************************)
(* Linux, init and power-tune's boot step (falcon_boot_ok).                *)
(***************************************************************************)
KernelUp ==
  /\ At("kernel") /\ img = "good"
  /\ Goto("user")
  /\ UNCHANGED <<wdt, rtc, card, loaded, script, budget, ghost>>

KernelDies ==
  /\ At("kernel") /\ img = "dies"
  /\ Rebooted
  /\ UNCHANGED <<rtc, card, catch, missed, budget, ghost>>

\* Mutant: the flash magic written where the cleared word belongs.
WrongWord  == gp1' = "DFU1"
ConfirmGp1 == gp1' = "0"

FalconBootOk ==
  /\ At("user")
  /\ ConfirmGp1
  /\ unproven' = FALSE
  /\ Goto("up")
  /\ UNCHANGED <<wdt, gp0, card, loaded, script, budget, asked>>

(***************************************************************************)
(* The operator and the scripts.  usb-flash-mode writes GP0 and then runs  *)
(* `reboot -f`; ub_catch_prompt sends `reset` to a U-Boot prompt, plain    *)
(* `reboot -f` to a shell on the UART, or FLCN and `reboot -f` over the    *)
(* USB console when the UART is silent, and then spams a key.  The         *)
(* firmware's FEL request writes its word and resets at once.              *)
(***************************************************************************)
Linux == stage \in {"user", "up"} /\ ~hung

FlashRequest ==
  /\ Linux /\ ~rebooting
  /\ SpendOp
  /\ gp0' = "DFU1"
  /\ asked' = TRUE
  /\ rebooting' = TRUE
  /\ UNCHANGED <<stage, hung, wdt, gp1, card, loaded, catch, missed, unproven>>

\* `reboot -f` typed for its own sake (boot-soak), or by a catch over the UART.
AskReboot(how) ==
  /\ Linux /\ ~rebooting
  /\ SpendOp
  /\ rebooting' = TRUE
  /\ catch' = how
  /\ UNCHANGED <<stage, hung, wdt, rtc, card, loaded, missed, ghost>>

\* Over the USB console: "early" while power-tune's boot step still has to run.
CatchOverUsb ==
  /\ Linux /\ ~rebooting
  /\ SpendOp
  /\ gp1' = "FLCN"
  /\ rebooting' = TRUE
  /\ catch' = IF stage = "up" THEN "usb" ELSE "early"
  /\ UNCHANGED <<stage, hung, wdt, gp0, card, loaded, missed, ghost>>

DoReboot ==
  /\ Linux /\ rebooting
  /\ Rebooted
  /\ UNCHANGED <<rtc, card, catch, missed, budget, ghost>>

\* `reset` at the prompt, from a catch ("prompt") or to boot what was flashed.
PromptReset(how) ==
  /\ At("prompt")
  /\ SpendOp
  /\ Rebooted
  /\ catch' = how
  /\ UNCHANGED <<rtc, card, missed, ghost>>

\* The spammed key stops autoboot before boot.scr runs.
CatchPrompt ==
  /\ At("uboot") /\ catch # "no"
  /\ catch' = "no"
  /\ Goto("prompt")
  /\ UNCHANGED <<wdt, rtc, card, loaded, rebooting, missed, budget, ghost>>

\* The 30 s are over and the board is up in Linux again.
CatchTimeout ==
  /\ At("up") /\ catch # "no" /\ ~rebooting
  /\ catch' = "no" /\ missed' = catch
  /\ UNCHANGED <<stage, hung, wdt, rtc, card, loaded, rebooting, budget, ghost>>

RequestFel ==
  /\ At("up") /\ ~rebooting
  /\ SpendOp
  /\ gp1' = "FEL"
  /\ Rebooted
  /\ UNCHANGED <<gp0, card, catch, missed, ghost>>

\* The 24-byte watchdog blob run over FEL.
FelReset ==
  /\ At("fel")
  /\ SpendOp
  /\ Rebooted
  /\ UNCHANGED <<rtc, card, catch, missed, ghost>>

(***************************************************************************)
(* What goes wrong, and the watchdog.                                      *)
(***************************************************************************)
Hang ==
  /\ ~hung /\ stage # "fel"
  /\ SpendFault
  /\ hung' = TRUE
  /\ UNCHANGED <<stage, wdt, rtc, card, loaded, script, ghost>>

Panic ==
  /\ stage \in {"kernel", "user", "up"} /\ ~hung
  /\ SpendFault
  /\ Rebooted
  /\ UNCHANGED <<rtc, card, catch, missed, ghost>>

WatchdogReset ==
  /\ hung /\ wdt
  /\ Rebooted
  /\ UNCHANGED <<rtc, card, catch, missed, budget, ghost>>

PowerCycle ==
  /\ SpendFault
  /\ Rebooted
  /\ gp0' = "0" /\ gp1' = "0"
  /\ unproven' = FALSE /\ asked' = FALSE
  /\ UNCHANGED <<card, catch, missed>>

\* A cold start: everything volatile is zero, the card holds anything.
Init ==
  /\ stage = "spl" /\ hung = FALSE /\ wdt = FALSE
  /\ gp0 = "0" /\ gp1 = "0"
  /\ card \in [Copies -> Images]
  /\ via = "fat" /\ img = "none"
  /\ rebooting = FALSE /\ catch = "no" /\ missed = "no"
  /\ faults = MaxFaults /\ ops = MaxOps
  /\ unproven = FALSE /\ asked = FALSE

Spl      == SplFel \/ SplToUBoot \/ SplMark \/ SplArm \/ FalconJump
            \/ FalconFallThrough \/ StartUBoot
BootScr  == ScrRequest \/ ScrNoRequest \/ DfuTimeout \/ ScrBoot \/ ScrFail
Kernel   == KernelUp \/ KernelDies \/ FalconBootOk \/ DoReboot
Scripts  == CatchPrompt \/ CatchTimeout
Operator == \/ FlashRequest \/ CatchOverUsb \/ RequestFel \/ FelReset \/ DfuReset
            \/ \E how \in {"no", "shell"} : AskReboot(how)
            \/ \E how \in {"no", "prompt"} : PromptReset(how)
            \/ \E c \in Copies, i \in Images : DfuWrite(c, i)
Trouble  == Hang \/ Panic \/ PowerCycle

Next == Spl \/ BootScr \/ Kernel \/ WatchdogReset \/ Scripts \/ Operator \/ Trouble

Spec == Init /\ [][Next]_vars

(***************************************************************************)
(* The boot stages run by themselves and the watchdog fires by itself;     *)
(* nothing is assumed of the operator, and faults need not happen.         *)
(***************************************************************************)
FairSpec ==
  /\ Spec
  /\ WF_vars(Spl) /\ WF_vars(BootScr) /\ WF_vars(Kernel) /\ WF_vars(WatchdogReset)
  /\ WF_vars(CatchPrompt)

----------------------------------------------------------------------------
BudgetOK == faults \in 0 .. MaxFaults /\ ops \in 0 .. MaxOps

TypeOK ==
  /\ stage \in Stages /\ hung \in BOOLEAN /\ wdt \in BOOLEAN
  /\ gp0 \in {"0", "DFU1"} /\ gp1 \in {"0", "FLCN", "FEL"}
  /\ card \in [Copies -> Images]
  /\ via \in Copies /\ img \in Images
  /\ rebooting \in BOOLEAN /\ {catch, missed} \subseteq Catches
  /\ BudgetOK
  /\ unproven \in BOOLEAN /\ asked \in BOOLEAN

(***************************************************************************)
(* A Falcon attempt that has not reached userspace stays on record in GP1  *)
(* through every crash, hang, fall-through and reset until the next SPL    *)
(* reads it, so a kernel that dies is not simply tried again.              *)
(***************************************************************************)
AttemptIsOnRecord == unproven => gp1 = "FLCN"

(***************************************************************************)
(* The SPL never starts a second Falcon attempt while an earlier one has   *)
(* neither reached userspace nor been followed by a U-Boot proper boot     *)
(* (0003-sunxi-spl-falcon-boot.patch: "instead of looping").               *)
(***************************************************************************)
NoFalconLoop == [][stage' = "marked" /\ stage # "marked" => ~unproven]_vars

(***************************************************************************)
(* A flash request is answered by one DFU session at most: boot.scr never  *)
(* enters DFU unless usb-flash-mode ran after the last session and after   *)
(* the last cold start ("instead of looping", usbproxy-boot.cmd).          *)
(***************************************************************************)
NoDfuLoop == [][stage' = "dfu" /\ stage # "dfu" => asked]_vars

(***************************************************************************)
(* Every stage that loads or runs a kernel, and U-Boot proper, is covered  *)
(* by the watchdog, whichever way it was reached.  Between the mark in GP1 *)
(* and the arming nothing is: a hang there is one of the Parked ones.      *)
(***************************************************************************)
WatchdogCovers ==
  stage \in {"falcon", "uboot", "dfu", "scr", "prompt", "kernel", "user", "up"} => wdt

\* Where the board waits for a human: FEL, the U-Boot prompt, a hang before
\* anything has armed the watchdog, and a kernel that has no init.
Parked ==
  \/ stage \in {"fel", "prompt"}
  \/ hung /\ ~wdt
  \/ stage = "kernel" /\ img = "noinit"

(***************************************************************************)
(* Once the card stays put with a FAT kernel that boots, or a raw kernel   *)
(* that boots beside a FAT one that panics, the board keeps coming back to *)
(* a confirmed userspace, whatever the raw region holds and wherever it    *)
(* hangs, unless it waits for a human.                                     *)
(***************************************************************************)
Bootable == \/ card["fat"] = "good"
            \/ card["raw"] = "good" /\ card["fat"] = "dies"
Recovers == <>[]Bootable => []<>(stage = "up" \/ Parked)

(***************************************************************************)
(* A flash request is not lost across the reboot it causes: a DFU session  *)
(* answers it, unless the power goes (which clears it) or the board waits  *)
(* for a human first.                                                      *)
(***************************************************************************)
RequestIsServed == asked ~> (~asked \/ Parked)

(***************************************************************************)
(* What the boot chain promises: BootPromise, with the RTC registers, the  *)
(* card and the watchdog hidden.                                           *)
(***************************************************************************)
Phase ==
  CASE stage \in {"spl", "fel"} -> "down"
    [] stage \in {"marked", "falcon"} -> "fast"
    [] stage \in {"loadub", "uboot", "dfu", "scr", "prompt"} -> "slow"
    [] stage \in {"kernel", "user"} -> IF via = "raw" THEN "fast" ELSE "slow"
    [] stage = "up" -> "up"

Promise == INSTANCE BootPromise WITH phase <- Phase, debt <- unproven
KeepsPromise == Promise!Spec

(***************************************************************************)
(* Asking for U-Boot over the USB console after power-tune's boot step ends *)
(* at the U-Boot prompt, unless something broke on the way.  Asked for     *)
(* earlier ("early"), the boot step may still clear the word.              *)
(***************************************************************************)
UsbCatchWorks == missed = "usb" => faults < MaxFaults

(***************************************************************************)
(* The same for a catch that began while power-tune's boot step still had  *)
(* to run.  Does not hold: the step clears the FLCN just written.          *)
(***************************************************************************)
EarlyCatchWorks == missed = "early" => faults < MaxFaults

(***************************************************************************)
(* DEVELOPMENT.md section 9 on the watchdog: hangs "anywhere from the SPL  *)
(* through userspace" end in a hardware reset.  Taken from where the SPL   *)
(* has decided and, for Falcon, armed the watchdog.                        *)
(***************************************************************************)
HangIsCovered == hung /\ stage \notin {"spl", "marked"} => wdt

(***************************************************************************)
(* ub_catch_prompt: from Linux and from a U-Boot prompt the board is       *)
(* rebooted and a key stops autoboot at `=>`.                              *)
(***************************************************************************)
CatchEndsAtPrompt == missed \in {"shell", "prompt"} => faults < MaxFaults
=============================================================================
