------------------------------ MODULE RigSoak ------------------------------
(***************************************************************************)
(* The tools that exercise the bare-metal firmware: bm-soak.py (reboots,   *)
(* concurrent transfers, fastboot cycles, idling), cycle-bench.py (paced   *)
(* push and pull), and appliance.py bm check, bm run and bm flash, whose   *)
(* grading the soak calls.  A tool is a list of phases, a phase a number   *)
(* of rounds.                                                              *)
(*                                                                         *)
(* External, from how the tools use them: the board with its firmware, the *)
(* Mac's USB port, the watch, and adb, fastboot and FEL between them.  The *)
(* firmware's console is on the UART and, over the Mac's port, on a CDC    *)
(* node.  The shell loop that runs beside the transfers only counts and is *)
(* left out; so is what the tools print without grading it.  The checks    *)
(* are those with --adb.                                                   *)
(***************************************************************************)
EXTENDS Naturals, Sequences

CONSTANTS
  Rounds,       \* rounds of a phase
  MaxTrouble    \* what may go wrong: budget

ASSUME RigAssumption == Rounds \in Nat \ {0} /\ MaxTrouble \in Nat

VARIABLES
  todo,      \* phases left, the current one first
  at,        \* the step of the tool; "off" when none of these tools runs
  round, passed,
  seen,      \* what the round's answers said
  results,   \* verdict on each phase
  xfer,      \* state of the push and of the pull
  files,     \* a and b in the watch's tmpfs, and the copy that was pulled back
  image,     \* fastboot cycles boot an image
  rig,       \* the firmware answers; it keeps a fault record; its build; the
             \*   Mac's port passes traffic
  watch,     \* what the watch is doing
  trouble,
  deed,      \* history: what really took place in this round
  hollow     \* history: <<phase, what a round of it that passed did not do>>

progress == <<todo, at, round, passed, seen, results, deed, hollow>>
world == <<rig, watch, trouble>>
rigVars == <<progress, xfer, files, image, world>>

Phases == {"reboots", "concurrent", "fastboot", "idle"}
Tools == {<<p>> : p \in Phases \cup {"bench", "check", "run"}}
         \cup {<<"reboots", "concurrent", "fastboot", "idle">>}
Phase == Head(todo)
RoundsOf(p) == IF p \in {"idle", "check", "run"} THEN 1 ELSE Rounds

Enter(p) == CASE p = "reboots" -> "reboot"
              [] p = "concurrent" -> "seed"
              [] p = "fastboot" -> "bootloader"
              [] p = "idle" -> "idle"
              [] p = "bench" -> "transfer"
              [] p = "check" -> "prompt"
              [] p = "run" -> "fel"
Again(p) == IF p = "concurrent" THEN "transfer" ELSE Enter(p)

Still == [push |-> "idle", pull |-> "idle"]
RigInit(on) ==
  /\ todo \in IF on THEN Tools ELSE {<< >>}
  /\ at = IF on THEN "start" ELSE "off"
  /\ round = 1 /\ passed = 0 /\ seen = {} /\ deed = {} /\ hollow = {}
  /\ results = [p \in Phases \cup {"bench", "check", "run"} |-> "none"]
  /\ xfer = Still /\ files = [a |-> "none", b |-> "none", back |-> "none"]
  /\ image \in IF on /\ <<"fastboot">> = todo THEN BOOLEAN ELSE {FALSE}
  /\ rig = [up |-> TRUE, fault |-> FALSE, build |-> "old", port |-> TRUE]
  /\ watch = "adb"
  /\ trouble = IF on THEN MaxTrouble ELSE 0

-----------------------------------------------------------------------------
(* What answers: through the board and the Mac's port.                     *)
Through == rig.up /\ rig.port
Adb == Through /\ watch \in {"adb", "leaving"}
Fastboot == Through /\ watch = "fastboot"

\* A command fails when nothing answers, and now and then when it does: adb
\* runs out of buffers (bm-soak.py:163), a command runs into its timeout.
Fails(there) ==
  \/ ~there /\ UNCHANGED trouble
  \/ there /\ trouble > 0 /\ trouble' = trouble - 1

(***************************************************************************)
(* Rounds and phases.  A phase passes when each of its rounds did.         *)
(***************************************************************************)
\* What a round of the phase is for.
Wanted(p) == CASE p = "reboots" -> {"booted"}
               [] p \in {"concurrent", "bench"} -> {"pushed", "pulled"}
               [] p = "fastboot" -> {"fastboot", "back"}
               [] OTHER -> {}

NewRound == seen' = {} /\ deed' = {} /\ xfer' = Still
EndPhase(verdict) ==
  /\ results' = [results EXCEPT ![Phase] = verdict]
  /\ todo' = Tail(todo) /\ round' = 1 /\ passed' = 0 /\ NewRound
  /\ at' = IF Len(todo) = 1 THEN "over" ELSE Enter(todo[2])

Grade(ok) == IF ok THEN "pass" ELSE "fail"
EndRound(ok, goOn) ==
  /\ hollow' = hollow \cup IF ok THEN {Phase} \X (Wanted(Phase) \ deed) ELSE {}
  /\ LET sum == IF ok THEN passed + 1 ELSE passed
         more == goOn /\ round < RoundsOf(Phase)
     IN \/ /\ more /\ round' = round + 1 /\ passed' = sum
           /\ at' = Again(Phase) /\ NewRound /\ UNCHANGED <<todo, results>>
        \/ ~more /\ Phase # "bench" /\ EndPhase(Grade(sum = RoundsOf(Phase)))
        \/ /\ ~more /\ Phase = "bench" /\ passed' = sum /\ at' = "trace"
           /\ NewRound /\ UNCHANGED <<todo, round, results>>

Quit == EndPhase("fail") /\ UNCHANGED hollow

\* On to the next step, with what this one saw and what it did.
Go(from, to, saw, doing) ==
  /\ at = from /\ at' = to
  /\ seen' = seen \cup saw /\ deed' = deed \cup doing
  /\ UNCHANGED <<todo, round, passed, results, hollow>>

If(b, x) == IF b THEN {x} ELSE {}

(***************************************************************************)
(* main of the soak wants a shell, the benchmark exactly one device.       *)
(***************************************************************************)
RigStart ==
  /\ at = "start"
  /\ IF Phase \in {"check", "run"} \/ Adb
     THEN Go("start", Enter(Phase), {}, {}) /\ UNCHANGED xfer
     ELSE Quit
  /\ UNCHANGED <<files, image, world>>

-----------------------------------------------------------------------------
(***************************************************************************)
(* soak_reboots.  Whether the console took the command is not looked at,   *)
(* the wait for the CDC node and for adb is printed: the check decides.    *)
(***************************************************************************)
RebootBoard ==
  /\ \/ /\ Through /\ Go("reboot", "prompt", {}, {"booted"})
        /\ rig' = [rig EXCEPT !.up = FALSE] /\ UNCHANGED trouble
     \/ Fails(Through) /\ Go("reboot", "prompt", {}, {}) /\ UNCHANGED rig
  /\ UNCHANGED <<xfer, files, image, watch>>

\* bm run and bm flash: FEL fails and says so, or starts the new build.
Fel ==
  /\ at = "fel"
  /\ \/ Quit /\ UNCHANGED rig
     \/ /\ Go("fel", "console", {}, {}) /\ UNCHANGED xfer
        /\ rig' = [rig EXCEPT !.up = FALSE, !.build = "new"]
  /\ UNCHANGED <<files, image, watch, trouble>>

\* wait_for_console: a CDC node within 90 s.
WaitConsole ==
  /\ at = "console"
  /\ IF Through THEN Go("console", "prompt", {}, {}) /\ UNCHANGED xfer ELSE Quit
  /\ UNCHANGED <<files, image, world>>

(***************************************************************************)
(* bm check --adb: the prompt, then bm_grade's rows, then adb; on a miss   *)
(* a wedged port is reset once and adb is asked again.  Run and flash talk *)
(* over the CDC node, the soak's check over the UART.                      *)
(***************************************************************************)
Prompt ==
  /\ at = "prompt"
  /\ IF rig.up /\ (Phase = "run" => rig.port)
     THEN Go("prompt", "status", {}, {}) /\ UNCHANGED xfer
     ELSE EndRound(FALSE, TRUE)
  /\ UNCHANGED <<files, image, world>>

RowsPass == ~rig.fault /\ watch \in {"adb", "leaving", "fastboot"} /\ (Phase = "run" => rig.build = "new")
Status ==
  /\ at = "status"
  /\ IF rig.up THEN Go("status", "look", If(RowsPass, "rows"), {}) /\ UNCHANGED xfer
               ELSE EndRound(FALSE, TRUE)
  /\ UNCHANGED <<files, image, world>>

Look ==
  /\ Go("look", IF Adb THEN "verdict" ELSE "unwedge", If(Adb, "listed"), {})
  /\ UNCHANGED <<xfer, files, image, world>>

\* mac-usb-unwedge.py resets what does not answer GET_STATUS; a reset may fail.
Unwedge ==
  /\ Go("unwedge", "look again", {}, {})
  /\ \/ rig' = [rig EXCEPT !.port = TRUE]
     \/ UNCHANGED rig
  /\ UNCHANGED <<xfer, files, image, watch, trouble>>

LookAgain ==
  /\ Go("look again", "verdict", If(Adb, "listed"), {})
  /\ UNCHANGED <<xfer, files, image, world>>

CheckPasses == {"rows", "listed"} \subseteq seen
Verdict ==
  /\ at = "verdict"
  /\ EndRound(CheckPasses /\ (Phase = "idle" => "shell" \in seen), TRUE)
  /\ UNCHANGED <<files, image, world>>

\* soak_idle counts the samples without a link, and grades what is there after.
Idle ==
  /\ Go("idle", "prompt", If(Adb, "shell"), {})
  /\ UNCHANGED <<xfer, files, image, world>>

-----------------------------------------------------------------------------
(***************************************************************************)
(* Transfers.  soak_concurrent seeds b, in at most four attempts, and then *)
(* pushes a and pulls b in two threads; cycle-bench pushes and pulls a in  *)
(* turn.  adb reports what it noticed, the md5 sums are taken after both.  *)
(***************************************************************************)
Seed ==
  /\ at = "seed"
  /\ \/ Adb /\ files' = [files EXCEPT !.b = "whole"] /\ Go("seed", "transfer", {}, {})
        /\ UNCHANGED <<xfer, trouble>>
     \/ Adb /\ trouble > 0 /\ trouble' = trouble - 1
        /\ files' = [files EXCEPT !.b = "damaged"] /\ Go("seed", "transfer", {}, {})
        /\ UNCHANGED xfer
     \/ Fails(Adb) /\ Quit /\ files' \in {files, [files EXCEPT !.b = "partial"]}
  /\ UNCHANGED <<image, rig, watch>>

\* The old copy is removed before a concurrent pull.
StartTransfer ==
  /\ Go("transfer", "join", {}, {})
  /\ xfer' = [push |-> "due", pull |-> IF Phase = "bench" THEN "idle" ELSE "due"]
  /\ files' = IF Phase = "bench" THEN files ELSE [files EXCEPT !.back = "none"]
  /\ UNCHANGED <<image, world>>

Target(t) == IF t = "push" THEN "a" ELSE "back"
Source(t) == IF t = "push" THEN "whole" ELSE IF Phase = "bench" THEN files.a ELSE files.b
Begin(t) ==
  /\ xfer[t] = "due"
  /\ \/ /\ Adb /\ Source(t) # "none" /\ UNCHANGED trouble
        /\ xfer' = [xfer EXCEPT ![t] = "runs"] /\ files' = [files EXCEPT ![Target(t)] = "partial"]
     \/ /\ Fails(Adb /\ Source(t) # "none")
        /\ xfer' = [xfer EXCEPT ![t] = "failed"] /\ UNCHANGED files
  /\ UNCHANGED <<progress, image, rig, watch>>

\* The bytes arrive, or are damaged on the way, or the transfer was cut off
\* or gives up half-way.
End(t) ==
  /\ \/ /\ xfer[t] = "runs"
        /\ \/ files' = [files EXCEPT ![Target(t)] = Source(t)] /\ UNCHANGED trouble
           \/ /\ trouble > 0 /\ trouble' = trouble - 1
              /\ files' = [files EXCEPT ![Target(t)] = "damaged"]
        /\ xfer' = [xfer EXCEPT ![t] = "ok"]
        /\ deed' = deed \cup If(files'[Target(t)] = "whole", IF t = "push" THEN "pushed" ELSE "pulled")
     \/ /\ xfer[t] \in {"runs", "cut"} /\ Fails(xfer[t] = "runs")
        /\ xfer' = [xfer EXCEPT ![t] = "failed"] /\ UNCHANGED <<files, deed>>
  /\ UNCHANGED <<todo, at, round, passed, seen, results, hollow, image, rig, watch>>

\* Mutant: the exit codes are taken for it.
ByExitCode(pushed, pulled) == xfer = [push |-> "ok", pull |-> "ok"]
BothSums(pushed, pulled) ==
  xfer = [push |-> "ok", pull |-> "ok"] /\ pushed = "whole" /\ pulled = "whole"

\* Both threads are joined; without adb afterwards the phase stops.
GradeConcurrent ==
  /\ at = "join" /\ Phase = "concurrent"
  /\ {xfer.push, xfer.pull} \subseteq {"ok", "failed"}
  /\ \E sum \in {files.a, "?"}, back \in {Adb, TRUE} :
       LET ok == BothSums(sum, files.back)
       IN /\ IF sum = "?" THEN Fails(Adb) ELSE Adb /\ UNCHANGED trouble
          /\ EndRound(ok, ok \/ back)
  /\ UNCHANGED <<files, image, rig, watch>>

\* The benchmark ends at the first command that fails.
SumPushed ==
  /\ at = "join" /\ Phase = "bench" /\ xfer.pull = "idle"
  /\ \/ /\ xfer.push = "ok" /\ Adb /\ Go("join", "join", If(files.a = "whole", "pushed"), {})
        /\ xfer' = [xfer EXCEPT !.pull = "due"] /\ UNCHANGED trouble
     \/ xfer.push = "ok" /\ Fails(Adb) /\ Quit
     \/ xfer.push = "failed" /\ Quit /\ UNCHANGED trouble
  /\ UNCHANGED <<files, image, rig, watch>>
GradeBench ==
  /\ at = "join" /\ Phase = "bench"
  /\ \/ xfer.pull = "ok"
        /\ EndRound(BothSums(IF "pushed" \in seen THEN "whole" ELSE "?", files.back), TRUE)
     \/ xfer.pull = "failed" /\ Quit
  /\ UNCHANGED <<files, image, world>>

\* fetch_trace takes no answer for a text and dies: the row is not written.
Trace ==
  /\ at = "trace"
  /\ EndPhase(Grade(passed = Rounds)) \/ EndPhase("lost")
  /\ UNCHANGED <<hollow, files, image, world>>

-----------------------------------------------------------------------------
(***************************************************************************)
(* soak_fastboot.  Exit codes are printed; what counts is the variables    *)
(* fastboot gave and that adb is back.                                     *)
(***************************************************************************)
Gone(f) == [f EXCEPT !.a = "none", !.b = "none"]

ToBootloader ==
  /\ Go("bootloader", "wait fastboot", {}, {})
  /\ \/ Adb /\ watch' = "loading" /\ files' = Gone(files) /\ UNCHANGED trouble
     \/ Fails(Adb) /\ UNCHANGED <<watch, files>>
  /\ UNCHANGED <<xfer, image, rig>>

WaitFastboot ==
  /\ at = "wait fastboot"
  /\ IF Fastboot THEN Go("wait fastboot", "getvar", {}, {}) /\ UNCHANGED xfer ELSE EndRound(FALSE, TRUE)
  /\ UNCHANGED <<files, image, world>>

GetVars ==
  /\ \/ Fastboot /\ Go("getvar", "leave", {"vars"}, {"fastboot"}) /\ UNCHANGED trouble
     \/ Fails(Fastboot) /\ Go("getvar", "leave", {}, If(Fastboot, "fastboot"))
  /\ UNCHANGED <<xfer, files, image, rig, watch>>

\* fastboot reboot, or fastboot boot IMG.
Leave ==
  /\ Go("leave", IF image THEN "booted" ELSE "wait back", {}, {})
  /\ \/ Fastboot /\ watch' = "down" /\ UNCHANGED trouble
     \/ Fails(Fastboot) /\ UNCHANGED watch
  /\ UNCHANGED <<xfer, files, image, rig>>

\* adb reboot: the watch still answers for a moment.  That the image came up
\* is not that the watch is back.
LeaveImage ==
  /\ at = "booted" /\ at' = "wait back" /\ deed' = deed \ {"back"}
  /\ \/ Adb /\ watch' = "leaving" /\ UNCHANGED trouble
     \/ Fails(Adb) /\ UNCHANGED watch
  /\ UNCHANGED <<todo, round, passed, seen, results, hollow, xfer, files, image, rig>>

WaitBack ==
  /\ at = "wait back"
  /\ EndRound(Adb /\ "vars" \in seen, Adb)
  /\ UNCHANGED <<files, image, world>>

-----------------------------------------------------------------------------
(* The board, the watch and the port.                                      *)
\* What enumerates anew may wedge the port.
Arrives(up) ==
  \/ rig' = [rig EXCEPT !.up = up] /\ UNCHANGED trouble
  \/ trouble > 0 /\ trouble' = trouble - 1 /\ rig' = [rig EXCEPT !.up = up, !.port = FALSE]

BoardBoots ==
  /\ at # "off" /\ ~rig.up /\ Arrives(TRUE)
  /\ UNCHANGED <<progress, xfer, files, image, watch>>

Cut == xfer' = [t \in DOMAIN xfer |-> IF xfer[t] = "runs" THEN "cut" ELSE xfer[t]]

\* A firmware that was only in the RAM is gone then.
BoardDies ==
  /\ rig.up /\ trouble > 0 /\ trouble' = trouble - 1
  /\ \E b \in {rig.build, "old"} : rig' = [rig EXCEPT !.up = FALSE, !.fault = TRUE, !.build = b]
  /\ Cut /\ UNCHANGED <<progress, files, image, watch>>

WatchMoves ==
  /\ at # "off" /\ watch \in {"loading", "down", "leaving"}
  /\ watch' = CASE watch = "loading" -> "fastboot" [] watch = "down" -> "adb" [] watch = "leaving" -> "down"
  /\ deed' = deed \cup If(watch = "down" /\ "fastboot" \in deed, "back")
  /\ IF watch = "leaving" THEN UNCHANGED <<rig, trouble>> ELSE Arrives(rig.up)
  /\ UNCHANGED <<todo, at, round, passed, seen, results, hollow, xfer, files, image>>

WatchResets ==
  /\ watch = "adb" /\ trouble > 0 /\ trouble' = trouble - 1
  /\ watch' = "down" /\ files' = Gone(files)
  /\ Cut /\ UNCHANGED <<progress, image, rig>>

-----------------------------------------------------------------------------
RigTypeOK ==
  /\ round \in 1 .. Rounds /\ passed \in 0 .. Rounds
  /\ \A p \in DOMAIN results : results[p] \in {"none", "pass", "fail", "lost"}
  /\ \A f \in DOMAIN files : files[f] \in {"none", "partial", "damaged", "whole"}
  /\ watch \in {"adb", "leaving", "loading", "fastboot", "down"}
  /\ trouble \in 0 .. MaxTrouble

(***************************************************************************)
(* What the concurrent and fastboot phases of the soak and the benchmark   *)
(* call passed took place in every round: both files were moved whole in   *)
(* that round, not in an earlier one; the watch was in fastboot and, where *)
(* no image is booted, came up again after it.  The reboots, and the way   *)
(* back from an image, are left to the two properties below, which do not  *)
(* hold.                                                                   *)
(***************************************************************************)
RigPassIsTrue ==
  /\ \A p \in {"concurrent", "bench"} : results[p] = "pass" => hollow \cap ({p} \X Wanted(p)) = {}
  /\ results["fastboot"] = "pass" =>
       /\ <<"fastboot", "fastboot">> \notin hollow
       /\ <<"fastboot", "back">> \in hollow => image

(***************************************************************************)
(* The same for "100 warm reboots passed" (BARE-METAL.md).  Does not hold: *)
(* a reboot command that did not get through is not noticed, and the check *)
(* that follows is of a board that never went down.                        *)
(***************************************************************************)
RebootsTookPlace == results["reboots"] = "pass" => <<"reboots", "booted">> \notin hollow

(***************************************************************************)
(* The same for the way back from an image.  Does not hold: after adb      *)
(* reboot the image may answer for the watch's own system.                 *)
(***************************************************************************)
BackFromImage == results["fastboot"] = "pass" => <<"fastboot", "back">> \notin hollow

(***************************************************************************)
(* "Results are appended as a row" (cycle-bench.py).  Does not hold.       *)
(***************************************************************************)
RowIsWritten == results["bench"] # "lost"
=============================================================================
