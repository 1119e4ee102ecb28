-------------------------- MODULE BootChainProofs --------------------------
(***************************************************************************)
(* The boot chain's safety, proved for any number of faults and operator   *)
(* actions.  Typing comes first; then one invariant for the Falcon mark,   *)
(* one for the flash request, one for the watchdog and one for a catch of  *)
(* the prompt, and from the first the refinement of BootPromise.           *)
(***************************************************************************)
EXTENDS BootChain, TLAPS

\* The sub-actions a step can be, expanded in every leaf that splits Next.
LEMMA Steps == ASSUME Next
               PROVE  \/ SplFel \/ SplToUBoot \/ SplMark \/ SplArm \/ FalconJump
                      \/ FalconFallThrough \/ StartUBoot
                      \/ ScrRequest \/ ScrNoRequest \/ DfuTimeout \/ ScrBoot \/ ScrFail
                      \/ KernelUp \/ KernelDies \/ FalconBootOk \/ DoReboot
                      \/ WatchdogReset \/ CatchPrompt \/ CatchTimeout
                      \/ FlashRequest \/ CatchOverUsb \/ RequestFel \/ FelReset \/ DfuReset
                      \/ \E how \in Catches : AskReboot(how)
                      \/ \E how \in Catches : PromptReset(how)
                      \/ \E c \in Copies, i \in Images : DfuWrite(c, i)
                      \/ Hang \/ Panic \/ PowerCycle
  BY DEF Next, Spl, BootScr, Kernel, Scripts, Operator, Trouble, Catches

(***************************************************************************)
(* Every variable keeps its type: in particular the two budgets never go   *)
(* below zero and no register ever holds a word nobody understands.        *)
(***************************************************************************)
LEMMA TypingInit == Init => TypeOK
  <1> SUFFICES ASSUME Init PROVE TypeOK
    OBVIOUS
  <1>1. BudgetOK
    BY BoundsAssumption DEF Init, BudgetOK
  <1> QED
    BY <1>1 DEF Init, TypeOK, Stages, Catches, Copies, Images

\* A step spends from one of the budgets or leaves both alone.
LEMMA BudgetStep == ASSUME BudgetOK, SpendOp \/ SpendFault \/ UNCHANGED budget
                    PROVE  BudgetOK'
  BY BoundsAssumption DEF BudgetOK, SpendOp, SpendFault, budget

LEMMA TypingStep == TypeOK /\ [Next]_vars => TypeOK'
  <1> SUFFICES ASSUME TypeOK, [Next]_vars
               PROVE  TypeOK'
    OBVIOUS
  <1> USE BudgetStep
      DEF TypeOK, Stages, Catches, Copies, Images, rtc, loaded, script, ghost,
          At, Goto, Rebooted, Linux
  <1>1. CASE SplFel
    BY <1>1 DEF SplFel
  <1>2. CASE SplToUBoot
    BY <1>2 DEF SplToUBoot, Why, DfuReason, DiedReason
  <1>3. CASE SplMark \/ SplArm
    BY <1>3 DEF SplMark, SplArm, MarkAttempt, ArmForLoad
  <1>4. CASE FalconJump
    BY <1>4 DEF FalconJump
  <1>5. CASE FalconFallThrough
    BY <1>5 DEF FalconFallThrough
  <1>6. CASE StartUBoot
    BY <1>6 DEF StartUBoot
  <1>7. CASE ScrRequest
    BY <1>7 DEF ScrRequest, ClearRequest
  <1>8. CASE ScrNoRequest
    BY <1>8 DEF ScrNoRequest
  <1>9. CASE DfuTimeout
    BY <1>9 DEF DfuTimeout
  <1>10. CASE ScrBoot
    BY <1>10 DEF ScrBoot
  <1>11. CASE ScrFail
    BY <1>11 DEF ScrFail
  <1>12. CASE KernelUp
    BY <1>12 DEF KernelUp
  <1>13. CASE KernelDies
    BY <1>13 DEF KernelDies
  <1>14. CASE FalconBootOk
    BY <1>14 DEF FalconBootOk, ConfirmGp1
  <1>15. CASE DoReboot
    BY <1>15 DEF DoReboot
  <1>16. CASE WatchdogReset
    BY <1>16 DEF WatchdogReset
  <1>17. CASE CatchPrompt
    BY <1>17 DEF CatchPrompt
  <1>18. CASE CatchTimeout
    BY <1>18 DEF CatchTimeout
  <1>19. CASE FlashRequest
    BY <1>19 DEF FlashRequest
  <1>20. CASE CatchOverUsb
    BY <1>20 DEF CatchOverUsb
  <1>21. CASE RequestFel
    BY <1>21 DEF RequestFel
  <1>22. CASE FelReset
    BY <1>22 DEF FelReset
  <1>23. CASE DfuReset
    BY <1>23 DEF DfuReset
  <1>24. CASE \E how \in Catches : AskReboot(how)
    BY <1>24 DEF AskReboot
  <1>25. CASE \E how \in Catches : PromptReset(how)
    BY <1>25 DEF PromptReset
  <1>26. CASE \E c \in Copies, i \in Images : DfuWrite(c, i)
    BY <1>26 DEF DfuWrite
  <1>27. CASE Hang
    BY <1>27 DEF Hang
  <1>28. CASE Panic
    BY <1>28 DEF Panic
  <1>29. CASE PowerCycle
    BY <1>29 DEF PowerCycle
  <1>30. CASE UNCHANGED vars
    BY <1>30 DEF vars
  <1> QED
    BY Steps, <1>1, <1>2, <1>3, <1>4, <1>5, <1>6, <1>7, <1>8, <1>9, <1>10, <1>11,
       <1>12, <1>13, <1>14, <1>15, <1>16, <1>17, <1>18, <1>19, <1>20, <1>21, <1>22,
       <1>23, <1>24, <1>25, <1>26, <1>27, <1>28, <1>29, <1>30

\* Every reachable state is well typed, whatever the two budgets.
THEOREM Typing == Spec => []TypeOK
  BY TypingInit, TypingStep, PTL DEF Spec

----------------------------------------------------------------------------
(***************************************************************************)
(* The Falcon mark.  AttemptIsOnRecord alone is not inductive: RequestFel  *)
(* overwrites GP1, so it takes that a confirmed userspace has no attempt   *)
(* outstanding (the firmware's FEL request comes from there only).         *)
(***************************************************************************)
MarkInv == AttemptIsOnRecord /\ (stage = "up" => ~unproven)

\* The mark survives every step until somebody entitled to clears it.
LEMMA MarkStep == TypeOK /\ MarkInv /\ [Next]_vars => MarkInv'
  <1> SUFFICES ASSUME TypeOK, MarkInv, [Next]_vars
               PROVE  MarkInv'
    OBVIOUS
  <1> USE DEF TypeOK, MarkInv, AttemptIsOnRecord, rtc, ghost, At, Goto, Rebooted
  <1>1. CASE SplFel \/ SplToUBoot \/ SplMark \/ SplArm
    BY <1>1 DEF SplFel, SplToUBoot, SplMark, SplArm, MarkAttempt
  <1>2. CASE FalconJump \/ FalconFallThrough \/ StartUBoot
    BY <1>2 DEF FalconJump, FalconFallThrough, StartUBoot
  <1>3. CASE ScrRequest \/ ScrNoRequest \/ DfuTimeout \/ ScrBoot \/ ScrFail
    BY <1>3 DEF ScrRequest, ScrNoRequest, DfuTimeout, ScrBoot, ScrFail
  <1>4. CASE KernelUp \/ KernelDies \/ FalconBootOk \/ DoReboot \/ WatchdogReset
    BY <1>4 DEF KernelUp, KernelDies, FalconBootOk, ConfirmGp1, DoReboot, WatchdogReset
  <1>5. CASE CatchPrompt \/ CatchTimeout
    BY <1>5 DEF CatchPrompt, CatchTimeout
  <1>6. CASE FlashRequest \/ CatchOverUsb \/ RequestFel \/ FelReset \/ DfuReset
    BY <1>6 DEF FlashRequest, CatchOverUsb, RequestFel, FelReset, DfuReset
  <1>7. CASE \E how \in Catches : AskReboot(how) \/ PromptReset(how)
    BY <1>7 DEF AskReboot, PromptReset
  <1>8. CASE \E c \in Copies, i \in Images : DfuWrite(c, i)
    BY <1>8 DEF DfuWrite
  <1>9. CASE Hang \/ Panic \/ PowerCycle
    BY <1>9 DEF Hang, Panic, PowerCycle
  <1>10. CASE UNCHANGED vars
    BY <1>10 DEF vars
  <1> QED
    BY Steps, <1>1, <1>2, <1>3, <1>4, <1>5, <1>6, <1>7, <1>8, <1>9, <1>10

LEMMA MarkInvariant == Spec => []MarkInv
  <1>1. Init => MarkInv
    BY DEF Init, MarkInv, AttemptIsOnRecord
  <1> QED
    BY <1>1, MarkStep, Typing, PTL DEF Spec

\* An unconfirmed Falcon attempt is on record in GP1 in every reachable state.
THEOREM AttemptOnRecord == Spec => []AttemptIsOnRecord
  <1>1. MarkInv => AttemptIsOnRecord
    BY DEF MarkInv
  <1> QED
    BY <1>1, MarkInvariant, PTL

\* The SPL never starts a second Falcon attempt over an unconfirmed one.
THEOREM FalconDoesNotLoop == Spec => NoFalconLoop
  <1>1. MarkInv /\ [Next]_vars => [stage' = "marked" /\ stage # "marked" => ~unproven]_vars
    <2> SUFFICES ASSUME MarkInv, Next, stage' = "marked", stage # "marked"
                 PROVE  ~unproven
      OBVIOUS
    <2> USE DEF At, Goto, Rebooted
    <2>1. SplMark
      <3>1. CASE SplFel \/ SplToUBoot \/ SplArm \/ FalconJump \/ FalconFallThrough \/ StartUBoot
        BY <3>1 DEF SplFel, SplToUBoot, SplArm, FalconJump, FalconFallThrough, StartUBoot
      <3>2. CASE ScrRequest \/ ScrNoRequest \/ DfuTimeout \/ ScrBoot \/ ScrFail
        BY <3>2 DEF ScrRequest, ScrNoRequest, DfuTimeout, ScrBoot, ScrFail
      <3>3. CASE KernelUp \/ KernelDies \/ FalconBootOk \/ DoReboot \/ WatchdogReset
        BY <3>3 DEF KernelUp, KernelDies, FalconBootOk, DoReboot, WatchdogReset
      <3>4. CASE CatchPrompt \/ CatchTimeout \/ FlashRequest \/ CatchOverUsb
        BY <3>4 DEF CatchPrompt, CatchTimeout, FlashRequest, CatchOverUsb
      <3>5. CASE RequestFel \/ FelReset \/ DfuReset
        BY <3>5 DEF RequestFel, FelReset, DfuReset
      <3>6. CASE \E how \in Catches : AskReboot(how) \/ PromptReset(how)
        BY <3>6 DEF AskReboot, PromptReset
      <3>7. CASE \E c \in Copies, i \in Images : DfuWrite(c, i)
        BY <3>7 DEF DfuWrite
      <3>8. CASE Hang \/ Panic \/ PowerCycle
        BY <3>8 DEF Hang, Panic, PowerCycle
      <3> QED
        BY Steps, <3>1, <3>2, <3>3, <3>4, <3>5, <3>6, <3>7, <3>8
    <2>2. gp1 # "FLCN"
      BY <2>1 DEF SplMark, Why, DfuReason, DiedReason
    <2> QED
      BY <2>2 DEF MarkInv, AttemptIsOnRecord
  <1> QED
    BY <1>1, MarkInvariant, PTL DEF Spec, NoFalconLoop

----------------------------------------------------------------------------
(***************************************************************************)
(* The flash request: GP0 holds DFU1 exactly while a request waits.        *)
(***************************************************************************)
RequestInv == asked <=> gp0 = "DFU1"

\* usb-flash-mode, boot.scr and a loss of power are all that touch GP0.
LEMMA RequestStep == TypeOK /\ RequestInv /\ [Next]_vars => RequestInv'
  <1> SUFFICES ASSUME TypeOK, RequestInv, [Next]_vars
               PROVE  RequestInv'
    OBVIOUS
  <1> USE DEF TypeOK, RequestInv, rtc, ghost, Rebooted
  <1>1. CASE SplFel \/ SplToUBoot \/ SplMark \/ SplArm
    BY <1>1 DEF SplFel, SplToUBoot, SplMark, SplArm, Why, DfuReason, DiedReason, MarkAttempt, ArmForLoad
  <1>2. CASE FalconJump \/ FalconFallThrough \/ StartUBoot
    BY <1>2 DEF FalconJump, FalconFallThrough, StartUBoot
  <1>3. CASE ScrRequest \/ ScrNoRequest \/ DfuTimeout \/ ScrBoot \/ ScrFail
    BY <1>3 DEF ScrRequest, ScrNoRequest, DfuTimeout, ScrBoot, ScrFail, ClearRequest
  <1>4. CASE KernelUp \/ KernelDies \/ FalconBootOk \/ DoReboot \/ WatchdogReset
    BY <1>4 DEF KernelUp, KernelDies, FalconBootOk, DoReboot, WatchdogReset
  <1>5. CASE CatchPrompt \/ CatchTimeout
    BY <1>5 DEF CatchPrompt, CatchTimeout
  <1>6. CASE FlashRequest \/ CatchOverUsb \/ RequestFel \/ FelReset \/ DfuReset
    BY <1>6 DEF FlashRequest, CatchOverUsb, RequestFel, FelReset, DfuReset, Linux
  <1>7. CASE \E how \in Catches : AskReboot(how) \/ PromptReset(how)
    BY <1>7 DEF AskReboot, PromptReset
  <1>8. CASE \E c \in Copies, i \in Images : DfuWrite(c, i)
    BY <1>8 DEF DfuWrite
  <1>9. CASE Hang \/ Panic \/ PowerCycle
    BY <1>9 DEF Hang, Panic, PowerCycle
  <1>10. CASE UNCHANGED vars
    BY <1>10 DEF vars
  <1> QED
    BY Steps, <1>1, <1>2, <1>3, <1>4, <1>5, <1>6, <1>7, <1>8, <1>9, <1>10

LEMMA RequestInvariant == Spec => []RequestInv
  <1>1. Init => RequestInv
    BY DEF Init, RequestInv
  <1> QED
    BY <1>1, RequestStep, Typing, PTL DEF Spec

\* boot.scr enters DFU only for a request that no earlier session has answered.
THEOREM DfuDoesNotLoop == Spec => NoDfuLoop
  <1>1. TypeOK /\ RequestInv /\ [Next]_vars => [stage' = "dfu" /\ stage # "dfu" => asked]_vars
    <2> SUFFICES ASSUME TypeOK, RequestInv, Next, stage' = "dfu", stage # "dfu"
                 PROVE  asked
      OBVIOUS
    <2> USE DEF At, Goto, Rebooted, RequestInv
    <2>1. CASE SplFel \/ SplToUBoot \/ SplMark \/ SplArm
      BY <2>1 DEF SplFel, SplToUBoot, SplMark, SplArm, Why, DfuReason, DiedReason, MarkAttempt, ArmForLoad
    <2>2. CASE FalconJump \/ FalconFallThrough \/ StartUBoot
      BY <2>2 DEF FalconJump, FalconFallThrough, StartUBoot
    <2>3. CASE ScrRequest \/ ScrNoRequest \/ DfuTimeout \/ ScrBoot \/ ScrFail
      BY <2>3 DEF ScrRequest, ScrNoRequest, DfuTimeout, ScrBoot, ScrFail, ClearRequest
    <2>4. CASE KernelUp \/ KernelDies \/ FalconBootOk \/ DoReboot \/ WatchdogReset
      BY <2>4 DEF KernelUp, KernelDies, FalconBootOk, DoReboot, WatchdogReset
    <2>5. CASE CatchPrompt \/ CatchTimeout
      BY <2>5 DEF CatchPrompt, CatchTimeout
    <2>6. CASE FlashRequest \/ CatchOverUsb \/ RequestFel \/ FelReset \/ DfuReset
      BY <2>6 DEF FlashRequest, CatchOverUsb, RequestFel, FelReset, DfuReset, Linux
    <2>7. CASE \E how \in Catches : AskReboot(how) \/ PromptReset(how)
      BY <2>7 DEF AskReboot, PromptReset
    <2>8. CASE \E c \in Copies, i \in Images : DfuWrite(c, i)
      BY <2>8 DEF DfuWrite
    <2>9. CASE Hang \/ Panic \/ PowerCycle
      BY <2>9 DEF Hang, Panic, PowerCycle
    <2> QED
      BY Steps, <2>1, <2>2, <2>3, <2>4, <2>5, <2>6, <2>7, <2>8, <2>9
  <1> QED
    BY <1>1, Typing, RequestInvariant, PTL DEF Spec, NoDfuLoop

----------------------------------------------------------------------------
\* Whoever enters a covered stage arms the watchdog or found it armed.
LEMMA WatchdogStep == TypeOK /\ WatchdogCovers /\ [Next]_vars => WatchdogCovers'
  <1> SUFFICES ASSUME TypeOK, WatchdogCovers, [Next]_vars
               PROVE  WatchdogCovers'
    OBVIOUS
  <1> USE DEF WatchdogCovers, At, Goto, Rebooted
  <1>1. CASE SplFel \/ SplToUBoot \/ SplMark \/ SplArm
    BY <1>1 DEF SplFel, SplToUBoot, SplMark, SplArm, Why, DfuReason, DiedReason, MarkAttempt, ArmForLoad
  <1>2. CASE FalconJump \/ FalconFallThrough \/ StartUBoot
    BY <1>2 DEF FalconJump, FalconFallThrough, StartUBoot
  <1>3. CASE ScrRequest \/ ScrNoRequest \/ DfuTimeout \/ ScrBoot \/ ScrFail
    BY <1>3 DEF ScrRequest, ScrNoRequest, DfuTimeout, ScrBoot, ScrFail, ClearRequest
  <1>4. CASE KernelUp \/ KernelDies \/ FalconBootOk \/ DoReboot \/ WatchdogReset
    BY <1>4 DEF KernelUp, KernelDies, FalconBootOk, DoReboot, WatchdogReset
  <1>5. CASE CatchPrompt \/ CatchTimeout
    BY <1>5 DEF CatchPrompt, CatchTimeout
  <1>6. CASE FlashRequest \/ CatchOverUsb \/ RequestFel \/ FelReset \/ DfuReset
    BY <1>6 DEF FlashRequest, CatchOverUsb, RequestFel, FelReset, DfuReset, Linux
  <1>7. CASE \E how \in Catches : AskReboot(how) \/ PromptReset(how)
    BY <1>7 DEF AskReboot, PromptReset
  <1>8. CASE \E c \in Copies, i \in Images : DfuWrite(c, i)
    BY <1>8 DEF DfuWrite
  <1>9. CASE Hang \/ Panic \/ PowerCycle
    BY <1>9 DEF Hang, Panic, PowerCycle
  <1>10. CASE UNCHANGED vars
    BY <1>10 DEF vars
  <1> QED
    BY Steps, <1>1, <1>2, <1>3, <1>4, <1>5, <1>6, <1>7, <1>8, <1>9, <1>10

\* The watchdog covers the Falcon load, U-Boot proper, the kernel and userspace.
THEOREM WatchdogAlwaysCovers == Spec => []WatchdogCovers
  <1>1. Init => WatchdogCovers
    BY DEF Init, WatchdogCovers
  <1> QED
    BY <1>1, WatchdogStep, Typing, PTL DEF Spec

----------------------------------------------------------------------------
(***************************************************************************)
(* A catch over the USB console.  Until something breaks, the board it     *)
(* waits for is about to reboot, or in the SPL with the word still in GP1, *)
(* or on its way to the autoboot countdown the key stops: nothing between  *)
(* the write of FLCN and the SPL's read of it touches GP1, and U-Boot does *)
(* not get past the countdown, so no timeout can end that catch.           *)
(***************************************************************************)
CatchOnItsWay ==
  /\ ~hung
  /\ (stage = "up" /\ rebooting) \/ stage \in {"spl", "loadub", "uboot"}
  /\ stage \in {"up", "spl"} => gp1 = "FLCN"

CatchInv ==
  /\ UsbCatchWorks
  /\ catch = "usb" /\ faults = MaxFaults => CatchOnItsWay

LEMMA CatchInit == Init => CatchInv
  BY DEF Init, CatchInv, UsbCatchWorks

\* What breaks is paid for, and the budget does not come back.
LEMMA Broken == ASSUME TypeOK, SpendFault PROVE faults' < MaxFaults
  BY BoundsAssumption DEF TypeOK, BudgetOK, SpendFault

LEMMA CatchStep == TypeOK /\ CatchInv /\ [Next]_vars => CatchInv'
  <1> SUFFICES ASSUME TypeOK, CatchInv, [Next]_vars
               PROVE  CatchInv'
    OBVIOUS
  <1> USE DEF CatchInv, UsbCatchWorks, CatchOnItsWay, script, rtc, budget, At, Goto, Rebooted
  <1>1. CASE SplFel \/ SplToUBoot \/ SplMark \/ SplArm
    BY <1>1 DEF SplFel, SplToUBoot, SplMark, SplArm, Why, DiedReason
  <1>2. CASE FalconJump \/ FalconFallThrough \/ StartUBoot
    BY <1>2 DEF FalconJump, FalconFallThrough, StartUBoot
  <1>3. CASE ScrRequest \/ ScrNoRequest \/ DfuTimeout \/ ScrBoot \/ ScrFail
    BY <1>3 DEF ScrRequest, ScrNoRequest, DfuTimeout, ScrBoot, ScrFail
  <1>4. CASE KernelUp \/ KernelDies \/ FalconBootOk \/ DoReboot \/ WatchdogReset
    BY <1>4 DEF KernelUp, KernelDies, FalconBootOk, DoReboot, WatchdogReset, Linux
  <1>5. CASE CatchPrompt \/ CatchTimeout
    <2>1. faults = MaxFaults \/ faults < MaxFaults
      BY BoundsAssumption DEF TypeOK, BudgetOK
    <2> QED
      BY <1>5, <2>1 DEF CatchPrompt, CatchTimeout
  <1>6. CASE FlashRequest \/ CatchOverUsb
    BY <1>6 DEF FlashRequest, CatchOverUsb, Linux, SpendOp
  <1>7. CASE RequestFel \/ FelReset \/ DfuReset
    BY <1>7 DEF RequestFel, FelReset, DfuReset, SpendOp
  <1>8. ASSUME NEW how \in {"no", "shell"}, AskReboot(how)
        PROVE  CatchInv'
    BY <1>8 DEF AskReboot, SpendOp
  <1>9. ASSUME NEW how \in {"no", "prompt"}, PromptReset(how)
        PROVE  CatchInv'
    BY <1>9 DEF PromptReset, SpendOp
  <1>10. ASSUME NEW c \in Copies, NEW i \in Images, DfuWrite(c, i)
         PROVE  CatchInv'
    BY <1>10 DEF DfuWrite, SpendOp
  <1>11. CASE Hang \/ Panic \/ PowerCycle
    <2>1. faults' < MaxFaults /\ faults' # MaxFaults
      BY <1>11, Broken, BoundsAssumption DEF Hang, Panic, PowerCycle, TypeOK, BudgetOK, SpendFault
    <2> QED
      BY <2>1
  <1>12. CASE UNCHANGED vars
    BY <1>12 DEF vars
  <1> QED
    BY <1>1, <1>2, <1>3, <1>4, <1>5, <1>6, <1>7, <1>8, <1>9, <1>10, <1>11, <1>12
    DEF Next, Spl, BootScr, Kernel, Scripts, Operator, Trouble

\* A catch over the USB console that began after the boot step ends at the
\* prompt unless something broke.
THEOREM UsbCatchEndsAtPrompt == Spec => []UsbCatchWorks
  <1>1. CatchInv => UsbCatchWorks
    BY DEF CatchInv
  <1> QED
    BY <1>1, CatchInit, CatchStep, Typing, PTL DEF Spec

----------------------------------------------------------------------------
(***************************************************************************)
(* The refinement: with the registers hidden, each step is a step of       *)
(* BootPromise or changes nothing it can see.                              *)
(***************************************************************************)
LEMMA PromiseStep == TypeOK /\ MarkInv /\ [Next]_vars => [Promise!Next]_<<Phase, unproven>>
  <1> SUFFICES ASSUME TypeOK, MarkInv, [Next]_vars
               PROVE  Promise!Next \/ UNCHANGED <<Phase, unproven>>
    OBVIOUS
  <1> USE DEF TypeOK, Stages, Copies, Phase, Promise!Next, Promise!StartFast, Promise!StartSlow, Promise!FallToSlow,
          Promise!Confirm, Promise!GoDown, Promise!LosePower,
          At, Goto, Rebooted, ghost, loaded
  <1>0. MarkInv => (gp1 # "FLCN" => ~unproven)
    BY DEF MarkInv, AttemptIsOnRecord
  <1>1. CASE SplFel \/ SplToUBoot \/ SplMark \/ SplArm
    BY <1>0, <1>1 DEF SplFel, SplToUBoot, SplMark, SplArm, Why, DfuReason, DiedReason, MarkAttempt, ArmForLoad
  <1>2. CASE FalconJump \/ FalconFallThrough \/ StartUBoot
    BY <1>2 DEF FalconJump, FalconFallThrough, StartUBoot
  <1>3. CASE ScrRequest \/ ScrNoRequest \/ DfuTimeout \/ ScrBoot \/ ScrFail
    BY <1>3 DEF ScrRequest, ScrNoRequest, DfuTimeout, ScrBoot, ScrFail, ClearRequest
  <1>4. CASE KernelUp \/ KernelDies \/ FalconBootOk \/ DoReboot \/ WatchdogReset
    BY <1>4 DEF KernelUp, KernelDies, FalconBootOk, DoReboot, WatchdogReset
  <1>5. CASE CatchPrompt \/ CatchTimeout
    BY <1>5 DEF CatchPrompt, CatchTimeout
  <1>6. CASE FlashRequest \/ CatchOverUsb \/ RequestFel \/ FelReset \/ DfuReset
    BY <1>6 DEF FlashRequest, CatchOverUsb, RequestFel, FelReset, DfuReset, Linux
  <1>7. CASE \E how \in Catches : AskReboot(how) \/ PromptReset(how)
    BY <1>7 DEF AskReboot, PromptReset
  <1>8. CASE \E c \in Copies, i \in Images : DfuWrite(c, i)
    BY <1>8 DEF DfuWrite
  <1>9. CASE Hang \/ Panic \/ PowerCycle
    BY <1>9 DEF Hang, Panic, PowerCycle
  <1>10. CASE UNCHANGED vars
    BY <1>10 DEF vars
  <1> QED
    BY Steps, <1>1, <1>2, <1>3, <1>4, <1>5, <1>6, <1>7, <1>8, <1>9, <1>10

\* The boot chain implements BootPromise: a fast boot is started only debt-free.
THEOREM KeepsThePromise == Spec => KeepsPromise
  <1>1. Init => Promise!Init
    BY DEF Init, Promise!Init, Phase
  <1> QED
    BY <1>1, PromiseStep, Typing, MarkInvariant, PTL DEF Spec, KeepsPromise, Promise!Spec
=============================================================================
