----------------------------- MODULE CardFlash -----------------------------
(***************************************************************************)
(* The scripts that write the card.  `appliance.py flash` and              *)
(* `flash --usb` bring every copy to one build: a copy is compared,        *)
(* written when it differs, and read back; any doubt ends the script.      *)
(* `uboot-flash.py` writes one file, and `appliance.py bm flash-usb` the   *)
(* raw kernel region and perhaps the SPL, without comparing first.  At the *)
(* U-Boot prompt a copy is read into the RAM at READBACK and its crc32     *)
(* taken there, so a read that fails leaves the crc of whatever that RAM   *)
(* held; over DFU a failed read gives nothing.                             *)
(*                                                                         *)
(* Sources: scripts/appliance.py (cmd_flash, cmd_flash_usb, dfu_upload,    *)
(* dfu_download, cmd_bm), scripts/uboot-flash.py and scripts/applib.py     *)
(* (ub_fat_crc, ub_raw_crc, ub_fat_write, ub_raw_write).  An upload to     *)
(* LOAD_ADDR is verified by ub_loady before it is used, so it appears here *)
(* only as a chance for the script to end.  The card itself is external.   *)
(***************************************************************************)
EXTENDS Naturals, Sequences

CONSTANTS
  Builds,       \* what the deploy directory holds from one run to the next
  MaxRuns, MaxCuts, MaxBadWrites, MaxMisreads   \* budgets

ASSUME FlashAssumption ==
  /\ Builds \cap {"old", "torn", "junk", "nothing"} = {}
  /\ {MaxRuns, MaxCuts, MaxBadWrites, MaxMisreads} \subseteq Nat

\* FAT_FILES and RAW_REGIONS: each file of a pair can boot the board alone.
Pairs  == {<<"fatKernel", "rawKernel">>, <<"fatDtb", "rawDtb">>}
Copies == {"spl", "fatKernel", "rawKernel", "fatDtb", "rawDtb", "scr"}
FatCopies == {"fatKernel", "fatDtb", "scr"}
File(c) == CASE c \in {"fatKernel", "rawKernel"} -> "kernel"
             [] c \in {"fatDtb", "rawDtb"} -> "dtb"
             [] OTHER -> c

\* Copies compared together before any of them is written, in order.
Plan(over) ==
  CASE over = "uart" ->
         << <<"spl">>, <<"fatKernel", "rawKernel">>, <<"fatDtb", "rawDtb">>, <<"scr">> >>
    [] over = "usb" ->
         << <<"spl">>, <<"fatKernel">>, <<"fatDtb">>, <<"scr">>, <<"rawDtb">>, <<"rawKernel">> >>
    [] OTHER -> << << >> >>

VARIABLES
  card,      \* what each copy holds: a build, "old", or "torn"
  ram,       \* which file the RAM at READBACK holds, and in what state
  stage,     \* what the script does
  group,     \* the group of Plan it is at
  check,     \* copies of the group it has still to compare
  write,     \* copies of the group that differ and are still to be written
  link,      \* the script: flash over "uart" or "usb", the one-file "tool",
             \*   or bm flash-usb: "fw"
  only,      \* the copies it is about
  target,    \* the build it flashes
  uboot, force,   \* --uboot, --auto-uboot or neither; --force
  budget,    \* [runs, cuts, badWrites, misreads] left
  mixed      \* history: "other": a run wrote without comparing, or another build
             \*   before a flash ended well; "link": the same with another
             \*   script; "vehicle": the file to leave DFU with was not written;
             \*   "spl": a rerun with neither --uboot nor --auto-uboot, the SPL
             \*   being torn

job  == <<group, check, write>>
opts == <<link, only, target, uboot, force, mixed>>
vars == <<card, ram, stage, job, opts, budget>>

\* At the U-Boot prompt, and in its DFU session.
Serial == {"uart", "tool"}
Dfu == {"usb", "fw"}

Junk == <<"junk", "junk">>
Spend(what) == budget[what] > 0 /\ budget' = [budget EXCEPT ![what] = @ - 1]

Init ==
  /\ card = [c \in Copies |-> "old"]
  /\ ram = Junk /\ stage = "idle"
  /\ group = 1 /\ check = << >> /\ write = << >>
  /\ link = "uart" /\ only = Copies
  /\ target = "old" /\ uboot = "never" /\ force = FALSE
  /\ budget = [runs |-> MaxRuns, cuts |-> MaxCuts,
               badWrites |-> MaxBadWrites, misreads |-> MaxMisreads]
  /\ mixed = {}

(***************************************************************************)
(* The RAM may survive the reset into U-Boot.  Without an SPL nothing      *)
(* starts, but a board that a failed run left in DFU, or at the prompt, is *)
(* simply used again: flash always catches the prompt by a reset, the tool *)
(* only when it is told to.                                                *)
(***************************************************************************)
Reachable(over) ==
  \/ card["spl"] # "torn"
  \/ over \in Dfu /\ link \in Dfu /\ stage = "failed"
  \/ over = "tool" /\ link \in Serial /\ stage = "failed"
  \/ over = "tool" /\ link = "tool" /\ stage = "done"

\* Mutant: a rerun goes on where the last run was.
GoOn == group' = group /\ check' = Plan(link')[1]
FromTheTop == group' = 1 /\ check' = Plan(link')[1]

Settled == stage = "idle" \/ (stage = "done" /\ link \in {"uart", "usb"})
Mixing(over, build, u, blind) ==
  IF blind \/ "other" \in mixed \/ (~Settled /\ target # build) THEN {"other"}
  ELSE mixed \cup (IF ~Settled /\ link # over THEN {"link"} ELSE {})
             \cup (IF card["spl"] = "torn" /\ u = "never" THEN {"spl"} ELSE {})

StartRun(over, build, u, f, files, atOnce) ==
  /\ stage \in {"idle", "failed", "off", "done"} /\ Reachable(over)
  /\ Spend("runs")
  /\ link' = over /\ only' = files /\ target' = build /\ uboot' = u /\ force' = f
  /\ mixed' = Mixing(over, build, u, f)
  /\ stage' = "go"
  /\ FromTheTop /\ write' = atOnce
  /\ ram' \in {ram, Junk}
  /\ UNCHANGED card

Flash(build) ==
  \E over \in {"uart", "usb"}, u \in {"never", "differs", "always"}, f \in BOOLEAN :
    StartRun(over, build, u, f, Copies, << >>)

\* uboot-flash.py FILE, or --fat NAME FILE.
FlashFile(build) ==
  \E c \in {"spl"} \cup FatCopies : StartRun("tool", build, "always", c # "spl", {c}, <<c>>)

\* bm flash-usb: a firmware is one more build here.
FlashFirmware(build) ==
  \E w \in {<<"rawKernel">>, <<"spl", "rawKernel">>} :
    StartRun("fw", build, "always", TRUE, {w[i] : i \in 1 .. Len(w)}, w)

(***************************************************************************)
(* Reading a copy back: what the script believes it read.                  *)
(***************************************************************************)
ReadGood(c, seen) ==
  /\ seen = card[c]
  /\ ram' = IF link \in Serial THEN <<File(c), card[c]>> ELSE ram
  /\ UNCHANGED budget

\* `mmc read` is not checked; fatload and dfu-util are.
MisreadSeen(c) ==
  IF link \in Serial /\ c \notin FatCopies
  THEN IF ram[1] = File(c) THEN ram[2] ELSE "junk"
  ELSE "nothing"

ReadBad(c, seen) ==
  /\ Spend("misreads")
  /\ seen = MisreadSeen(c)
  /\ UNCHANGED ram

Read(c, seen) == ReadGood(c, seen) \/ ReadBad(c, seen)

Differs(c, seen) ==
  IF c = "spl" THEN uboot = "always" \/ (uboot = "differs" /\ seen # target)
               ELSE force \/ seen # target

Compare ==
  /\ stage = "go" /\ check # << >>
  /\ \E seen \in Builds \cup {"old", "torn", "junk", "nothing"} :
       /\ Read(Head(check), seen)
       /\ write' = IF Differs(Head(check), seen) THEN Append(write, Head(check)) ELSE write
  /\ check' = Tail(check)
  /\ UNCHANGED <<card, stage, group, opts>>

(***************************************************************************)
(* Writing takes time: until it is over the copy is torn.                  *)
(***************************************************************************)
Put(c, content) == card' = [card EXCEPT ![c] = content]

BeginWrite ==
  /\ stage = "go" /\ check = << >> /\ write # << >>
  /\ Put(Head(write), "torn")
  /\ stage' = "writing"
  /\ UNCHANGED <<ram, job, opts, budget>>

EndWrite ==
  /\ stage = "writing"
  /\ Put(Head(write), target)
  /\ stage' = "verify"
  /\ UNCHANGED <<ram, job, opts, budget>>

\* The medium is at fault, whether or not U-Boot or dfu-util says so.
BadWrite ==
  /\ stage = "writing"
  /\ Spend("badWrites")
  /\ stage' \in {"verify", "failed"}
  /\ UNCHANGED <<card, ram, job, opts>>

\* Mutant: the readback is logged but not compared.
AnyReadback(seen) == TRUE
Matches(seen) == seen = target

Verify ==
  /\ stage = "verify"
  /\ \E seen \in Builds \cup {"old", "torn", "junk", "nothing"} :
       /\ Read(Head(write), seen)
       /\ \/ Matches(seen) /\ stage' = "go" /\ write' = Tail(write)
          \/ ~Matches(seen) /\ stage' = "failed" /\ UNCHANGED write
  /\ UNCHANGED <<card, group, check, opts>>

GroupDone == stage = "go" /\ check = << >> /\ write = << >>

\* On the UART a new U-Boot is booted before anything else is written.
\* Mutant: it is not, and an SPL that does not start goes unnoticed.
NeverReset == TRUE
SplStarts == link = "uart" /\ group = 1 => card["spl"] # "torn"

NextGroup ==
  /\ GroupDone /\ group < Len(Plan(link)) /\ SplStarts
  /\ group' = group + 1 /\ check' = Plan(link)[group + 1]
  /\ ram' \in (IF link = "uart" /\ group = 1 THEN {ram, Junk} ELSE {ram})
  /\ UNCHANGED <<card, stage, write, opts, budget>>

NoPrompt ==
  /\ GroupDone /\ ~SplStarts
  /\ stage' = "off"
  /\ ram' = Junk
  /\ UNCHANGED <<card, job, opts, budget>>

\* `reset` at the prompt; the tool leaves the board there.
Reset ==
  /\ link \in Serial /\ GroupDone /\ group = Len(Plan(link)) /\ SplStarts
  /\ stage' = "done"
  /\ UNCHANGED <<card, ram, job, opts, budget>>

\* DFU is left by writing a file once more, which is not read back.
Vehicle == IF link = "usb" THEN "scr" ELSE "rawKernel"

BeginVehicle ==
  /\ link \in Dfu /\ GroupDone /\ group = Len(Plan(link))
  /\ Put(Vehicle, "torn")
  /\ stage' = "vehicle"
  /\ UNCHANGED <<ram, job, opts, budget>>

\* bm flash-usb waits for the prompt of the firmware it wrote.
\* Mutant: it ends when the console is back.
ConsoleIsBack(content) == TRUE
Answers(content) == link = "fw" => content = target

EndVehicle ==
  /\ stage = "vehicle"
  /\ Put(Vehicle, target)
  /\ stage' = "done"
  /\ UNCHANGED <<ram, job, opts, budget>>

\* dfu-util may have nothing to say of it: it was told to reset the board.
BadVehicle ==
  /\ stage = "vehicle"
  /\ Spend("badWrites")
  /\ stage' \in {"failed", IF Answers(card[Vehicle]) THEN "done" ELSE "off"}
  /\ mixed' = IF "other" \in mixed THEN mixed ELSE mixed \cup {"vehicle"}
  /\ UNCHANGED <<card, ram, job, link, only, target, uboot, force>>

\* The power goes.
PowerCut ==
  /\ stage \in {"go", "writing", "verify", "vehicle", "failed"}
  /\ Spend("cuts")
  /\ stage' = "off" /\ ram' = Junk
  /\ UNCHANGED <<card, job, opts>>

\* The script ends by itself: an upload fails, the console is lost, Ctrl-C.
GiveUp ==
  /\ stage \in {"go", "verify"}
  /\ stage' = "failed"
  /\ UNCHANGED <<card, ram, job, opts, budget>>

Script == Compare \/ BeginWrite \/ EndWrite \/ Verify \/ NextGroup \/ NoPrompt
          \/ Reset \/ BeginVehicle \/ EndVehicle
Trouble == BadWrite \/ BadVehicle \/ PowerCut \/ GiveUp

Next ==
  \/ Script \/ Trouble
  \/ \E b \in Builds : Flash(b) \/ FlashFile(b) \/ FlashFirmware(b)

Spec == Init /\ [][Next]_vars

----------------------------------------------------------------------------
Contents == Builds \cup {"old", "torn"}

TypeOK ==
  /\ card \in [Copies -> Contents]
  /\ ram \in {Junk} \cup {<<File(c), x>> : c \in Copies, x \in Contents}
  /\ stage \in {"idle", "go", "writing", "verify", "vehicle", "failed", "off", "done"}
  /\ group \in 1 .. Len(Plan(link))
  /\ Len(check) \in 0 .. 2 /\ Len(write) \in 0 .. 2
  /\ link \in Serial \cup Dfu /\ only \subseteq Copies /\ target \in Builds \cup {"old"}
  /\ uboot \in {"never", "differs", "always"} /\ force \in BOOLEAN
  /\ mixed \subseteq {"other", "link", "vehicle", "spl"}

NoMisread == budget["misreads"] = MaxMisreads

(***************************************************************************)
(* There are two ways up: the SPL starts the raw kernel with the raw       *)
(* device tree, or U-Boot proper, which is in the same region, runs        *)
(* boot.scr, which loads both from the FAT.                                *)
(***************************************************************************)
Falcon   == {"spl", "rawKernel", "rawDtb"}
Fallback == {"spl", "fatKernel", "fatDtb", "scr"}
Whole(path) == \A c \in path : card[c] # "torn"
WayUp       == Whole(Falcon) \/ Whole(Fallback)
KernelLeft  == Whole(Falcon \ {"spl"}) \/ Whole(Fallback \ {"spl"})

\* The SPL has no second copy: it is torn while it is being written, and
\* stays so when the script ends before it has written it well.
Elems(s)  == {s[i] : i \in 1 .. Len(s)}
Todo      == Elems(check) \cup Elems(write)
SplWindow ==
  /\ card["spl"] = "torn"
  /\ stage \in {"failed", "off"} \/ (stage \in {"go", "writing", "verify"} /\ "spl" \in Todo)

(***************************************************************************)
(* Whenever the power goes, one complete copy of the kernel and one of the *)
(* device tree are left: the other copy is only touched once this one was  *)
(* read back.  Moreover the kernel, device tree and, where it is needed,   *)
(* boot.scr of one way up are left.  Interrupted runs, bad writes and      *)
(* reruns do not change that, and the next build may follow on a run that  *)
(* ended well; but an interrupted run has to be repeated with the same     *)
(* build, without --force and without the scripts that do not compare, no  *)
(* read may fail, and for the whole of a way up the rerun has to go over   *)
(* the same link and the file that ends DFU has to be written.             *)
(*                                                                         *)
(* The SPL is part of both ways up, and its write is "the one write that   *)
(* can brick the card's boot path" (ub_spl_write).  While a script is at   *)
(* it, and after one that failed there, nothing starts if the power goes.  *)
(* The window is closed before anything else is written, so whenever a     *)
(* script is beyond the SPL, and when one has ended well, a way up is      *)
(* there with its SPL; after a failed readback of it the board must stay   *)
(* in DFU and the rerun must have --uboot, as cmd_flash_usb asks, or       *)
(* --auto-uboot.                                                           *)
(***************************************************************************)
OneGoodPath ==
  NoMisread =>
    /\ "other" \notin mixed => \A p \in Pairs : ~ \A c \in {p[1], p[2]} : card[c] = "torn"
    /\ mixed \subseteq {"spl"} => KernelLeft
    /\ mixed = {} => WayUp \/ SplWindow

(***************************************************************************)
(* The same when the rerun goes over the other link.  Does not hold: the   *)
(* raw kernel torn over the UART, the rerun over USB writes the FAT device *)
(* tree before it comes to the raw kernel.                                 *)
(***************************************************************************)
AnyLinkRepairs == NoMisread /\ mixed \subseteq {"link"} => KernelLeft

(***************************************************************************)
(* The same when boot.scr, written once more to leave DFU, was not written *)
(* well.  Does not hold: flash --usb ends as if it were, and the next      *)
(* build tears the raw kernel while boot.scr is still torn.                *)
(***************************************************************************)
VehicleIsHarmless == NoMisread /\ mixed \subseteq {"vehicle"} => KernelLeft

(***************************************************************************)
(* The same when the rerun of a flash --usb that failed at the SPL has no  *)
(* --uboot.  Does not hold: it ends well, and the board it resets has no   *)
(* SPL to start.                                                           *)
(***************************************************************************)
UsbRepairsSpl == NoMisread /\ mixed \subseteq {"spl"} => WayUp \/ SplWindow

(***************************************************************************)
(* No way up is ever lost.  Does not hold: the SPL is written in place.    *)
(***************************************************************************)
AlwaysAWayUp == NoMisread /\ mixed = {} => WayUp

(***************************************************************************)
(* Over the UART no file is written on a card whose SPL would not start    *)
(* ("so a bad SPL shows up while the old kernel is still on the card",     *)
(* cmd_flash).  Over USB a rerun in the same DFU session may do that.      *)
(***************************************************************************)
SplComesFirst ==
  [][link = "uart" /\ stage = "go" /\ stage' = "writing" /\ Head(write) # "spl"
       => card["spl"] # "torn"]_vars

(***************************************************************************)
(* A script that ends well has put its build into every copy it is about,  *)
(* whatever state earlier runs left the card in, unless a read failed.     *)
(* flash may be told to leave the SPL alone, and over USB boot.scr is      *)
(* written once more to leave DFU and not read back after that.  The raw   *)
(* kernel bm flash-usb leaves DFU with is not read back either: there the  *)
(* firmware's own prompt has to show that it was written.                  *)
(***************************************************************************)
Promised == only \ (CASE link = "uart" -> {"spl"}
                      [] link = "usb" -> {"spl", "scr"}
                      [] OTHER -> {})
DoneMeansFlashed == stage = "done" /\ NoMisread => \A c \in Promised : card[c] = target

(***************************************************************************)
(* ub_raw_write "Exits on any doubt", and every write is "verified by      *)
(* readback": a run over the UART that got to its reset left no raw region *)
(* without its build, also when a read failed.                             *)
(***************************************************************************)
RawVerified == stage = "done" /\ link = "uart" => card["rawKernel"] = target /\ card["rawDtb"] = target
=============================================================================
