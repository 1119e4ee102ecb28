------------------------------ MODULE Sessions ------------------------------
(***************************************************************************)
(* The scripts that talk to the appliance's shell, and what each of them   *)
(* reports:                                                                *)
(*   swap   appliance.py swap: sends a usb-proxy binary in printf chunks   *)
(*          (serial-upload.py), installs it, kills the old one, checks     *)
(*   check  appliance.py check: a row per question, PASS, FAIL or skip     *)
(*   reboot, ram   the same after a reset or a boot from RAM (check         *)
(*          --reboot, the end of flash, boot-ram): the boot text is graded *)
(*   tool   uboot-flash.py --boot: the boot text only                      *)
(*   soak   boot-soak.py: reboots the board over and over, grades each     *)
(*          boot, and after a crash copies the crash records and clears    *)
(*          them; cold with the power switched instead of a reboot         *)
(*                                                                         *)
(* The shell, the file system and the respawning launcher are external.    *)
(***************************************************************************)
EXTENDS Console, FiniteSets

CONSTANTS
  Chunks,    \* chunks of the compressed binary
  Records,   \* crash records there may be
  MaxRuns,   \* how often swap is started
  MaxHits,   \* chunks that noise damages or that do not fit
  MaxDeaths, \* how often the proxy dies on its own
  MaxBoots   \* boots a soak is asked for

ASSUME SessionsAssumption ==
  /\ {Chunks, MaxBoots} \subseteq Nat \ {0} /\ {MaxRuns, MaxHits, MaxDeaths} \subseteq Nat
  /\ IsFiniteSet(Records)

VARIABLES
  program, pc,
  k,         \* swap: the chunk being sent
  before,    \* swap: exec lines before the kill
  rows,      \* check: the verdict on each row
  left,      \* soak: records still to be copied
  saved,     \* soak: records whose text is in a file
  count,     \* soak: boots graded
  good,      \* soak: all of them were good
  wrong,     \* history: what went wrong with the boots
  gz,        \* chunks in /tmp/up.gz; 0 is a damaged one
  bin,       \* /usr/bin/usb-proxy
  proxy,     \* the build that runs, or "none"
  execs,     \* exec lines in the launcher's log
  facts,     \* watchdog armed, speed of the watch (0: none), build of the image
             \*   that runs and of the card's
  records,   \* crash records in pstore
  runs, hits, deaths

soak == <<count, good, wrong>>
script == <<program, pc, k, before, rows, left, saved, soak, runs>>
board == <<gz, bin, proxy, execs, facts, records, hits, deaths>>
vars == <<link, script, board>>

BootRows == {"dram", "falcon", "oops", "login"}
RowNames == BootRows \cup
  {"shell", "respawned", "image", "md5", "one proxy", "watchdog", "path", "pstore", "log", "speed"}
Verdicts == {"pass", "fail", "skip", "not asked"}
Soaks == {"soak", "cold"}
Boots == {"reboot", "ram", "tool"}
Start(p) == CASE p = "swap" -> "sanity" [] p = "check" -> "shell" [] p \in Boots -> "catch"
              [] p \in Soaks -> "kick" [] p = "none" -> "done"

Init ==
  /\ ConsoleInit
  /\ program \in {"swap", "check", "none"} \cup Soaks \cup Boots /\ pc = Start(program)
  /\ k = 1 /\ before = 0 /\ left = {} /\ saved = {}
  /\ rows = [r \in RowNames |-> "not asked"]
  /\ gz = << >> /\ execs = 1
  /\ count = 0 /\ good = TRUE /\ wrong = {}
  /\ bin \in IF program \in {"check"} \cup Boots THEN {"old", "new"} ELSE {"old"}
  /\ proxy \in IF program \in {"swap", "check"} THEN {bin, "none"} ELSE {bin}
  /\ facts \in CASE program = "check" ->
                   [armed : BOOLEAN, speed : {0, 12, 480}, image : {"old", "new"}, card : {"old"}]
                [] program \in {"none"} \cup Boots -> [armed : {TRUE}, speed : {480}, image : {bin}, card : {bin}]
                [] OTHER -> [armed : BOOLEAN, speed : {480}, image : {"old"}, card : {"old"}]
  /\ records \in IF program \in {"check"} \cup Soaks THEN SUBSET Records ELSE {{}}
  /\ runs = MaxRuns /\ hits = MaxHits
  /\ deaths = IF program \in {"swap", "check"} THEN MaxDeaths ELSE 0

-----------------------------------------------------------------------------
(***************************************************************************)
(* What a step makes of the answer.  None is no answer in time.            *)
(***************************************************************************)
None == <<"none", 0>>
Said == {wire[i][3] : i \in 1 .. Len(wire)}
Reply(a) == Hear(a) \/ (a = None /\ (TimeOut \/ NoneComes))

\* The step asks, gets `a`, goes on at `next`; `rest` is what it leaves alone.
Step(here, a, next, rest) ==
  /\ pc = here /\ Reply(a) /\ pc' = next
  /\ UNCHANGED <<program, runs, soak, rest, board>>
OrFail(a, next) == IF a = None THEN "failed" ELSE next

Marked == {"sanity", "rm", "quiet", "chunk", "loud", "md5sum"}
Questions == <<"image", "md5", "one proxy", "watchdog", "path", "pstore", "log", "speed">>
Steps == Marked \cup {Questions[i] : i \in 1 .. Len(Questions)} \cup
  {"login", "before", "install", "kill", "after", "shell", "log in", "ls", "cat", "clear"}

Record == CHOOSE r \in left : TRUE
Line == CASE pc = "chunk" -> <<pc, k>>
          [] pc = "cat" -> <<pc, Record>>
          [] OTHER -> <<pc>>
Type ==
  /\ IF pc \in Marked THEN AskMarked(Line) ELSE pc \in Steps /\ AskNumbered(Line)
  /\ UNCHANGED <<script, board>>

-----------------------------------------------------------------------------
(* serial-upload.py, then the rest of cmd_swap.                            *)
Alone == <<k, before, rows, left, saved>>
NotK == <<before, rows, left, saved>>
NotBefore == <<k, rows, left, saved>>
NotRows == <<k, before, left, saved>>

Sanity == \E a \in Said \cup {None} : Step("sanity", a, OrFail(a, "rm"), Alone)
Remove == \E a \in Said \cup {None} : Step("rm", a, OrFail(a, "quiet"), Alone)
Quiet == \E a \in Said \cup {None} : Step("quiet", a, "chunk", Alone)

\* A chunk that is not confirmed ends the upload, echo back on.
\* Mutant: a chunk past the last.
OneChunkMore == k <= Chunks
MoreChunks == k < Chunks
SendChunk ==
  \E a \in Said \cup {None} :
    /\ Step("chunk", a, IF a # None /\ MoreChunks THEN "chunk" ELSE "loud", NotK)
    /\ k' = IF a = None THEN k ELSE k + 1
Loud ==
  \E a \in Said \cup {None} :
    Step("loud", a, IF k > Chunks THEN "md5sum" ELSE "failed", Alone)
ShowSum == \E a \in Said \cup {None} : Step("md5sum", a, "login", Alone)

Login == \E a \in Said \cup {None} : Step("login", a, OrFail(a, "before"), Alone)

\* `or "0"`: a count that did not come is zero.
Count(a) == IF a[1] = "count" THEN a[2] ELSE 0
Before ==
  \E a \in Said \cup {None} : Step("before", a, "install", NotBefore) /\ before' = Count(a)

\* Mutant: the proxy that runs is left to run.
NoKill(a) == IF a = <<"new", 0>> THEN "after" ELSE "failed"
OnceInstalled(a) == IF a = <<"new", 0>> THEN "kill" ELSE "failed"
Install ==
  \E a \in Said \cup {None} : Step("install", a, OnceInstalled(a), Alone)

Kill == \E a \in Said \cup {None} : Step("kill", a, "after", Alone)
After ==
  \E a \in Said \cup {None} :
    /\ Step("after", a, "shell", NotRows)
    /\ rows' = [rows EXCEPT !["respawned"] = IF Count(a) > before THEN "pass" ELSE "fail"]

\* swap again after a failed one; ^C drops what the shell has not started.
Rerun ==
  /\ program = "swap" /\ pc = "failed" /\ ~Waits /\ runs > 1
  /\ runs' = runs - 1 /\ pc' = "sanity" /\ k' = 1 /\ before' = 0
  /\ typed' = << >> /\ wire' = << >>
  /\ UNCHANGED <<asked, slow, heard, program, rows, left, saved, soak, board>>

-----------------------------------------------------------------------------
(* check_running: a row per question.                                      *)
Shell ==
  /\ program \notin Soaks
  /\ \E a \in Said \cup {None} :
       /\ Step("shell", a, IF a = None THEN "done" ELSE Questions[1], NotRows)
       /\ rows' = [rows EXCEPT !["shell"] = IF a = None THEN "fail" ELSE "pass"]

\* Mutant: only a watchdog that says it is off counts as off.
NotSaidOff(a) == a # <<"off", 0>>
SaidArmed(a) == a = <<"armed", 0>>
Graded(row, a) ==
  CASE row = "log" \/ (row = "image" /\ program = "swap") -> "skip"
    [] row = "image" /\ program # "swap" -> IF a = <<"new", 0>> THEN "pass" ELSE "fail"
    [] row = "md5" -> IF a = <<"new", 0>> THEN "pass" ELSE "fail"
    [] row = "one proxy" -> IF a = <<"count", 1>> THEN "pass" ELSE "fail"
    [] row = "watchdog" -> IF SaidArmed(a) THEN "pass" ELSE "fail"
    [] row = "path" -> IF a = None THEN "fail" ELSE "skip"
    [] row = "pstore" -> IF Count(a) = 0 THEN "pass" ELSE "fail"
    [] row = "speed" -> IF a[1] # "speed" THEN "skip" ELSE IF a[2] = 480 THEN "pass" ELSE "fail"
AskRow ==
  \E i \in 1 .. Len(Questions), a \in Said \cup {None} :
    /\ Step(Questions[i], a, IF i = Len(Questions) THEN "done" ELSE Questions[i + 1], NotRows)
    /\ rows' = [rows EXCEPT ![Questions[i]] = Graded(Questions[i], a)]

-----------------------------------------------------------------------------
(* boot-soak.py: kick the board, watch it boot, grade the text.            *)
(***************************************************************************)
(* Whatever the shell had still to run or to say ends with the reboot.     *)
(***************************************************************************)
Kick ==
  /\ pc = "kick"
  /\ pc' \in IF program = "cold" THEN {"watch", "failed"} ELSE {"watch"}
  /\ typed' = << >> /\ wire' = << >>
  /\ UNCHANGED <<asked, slow, heard, program, k, before, rows, left, saved, soak, runs, board>>

\* A boot prints its memory size and ends in one of these.
Ends == {"login", "panic", "stuck"}
Sizes == {"256", "512"}
Wrong(size, end) == (IF size = "256" THEN {} ELSE {"size"}) \cup ({end} \ {"login"})

(***************************************************************************)
(* What watch_boot may see and what went wrong with that boot.  A reboot   *)
(* that was typed at a login prompt only brings the prompt again.  A boot  *)
(* that hangs is reset by the watchdog, and the text is of both.  The read *)
(* that waits for the SPL after a power-on may have taken the size.        *)
(***************************************************************************)
Watched(size, end, what) ==
  \/ program = "soak" /\ size = "?" /\ end = "login" /\ what = {"not booted"}
  \/ \E s \in Sizes : size \in {s, IF program = "cold" THEN "?" ELSE s} /\ what = Wrong(s, end)
  \/ \E s \in Sizes : size \in Sizes /\ what = {"hung"} \cup Wrong(size, "login") \cup Wrong(s, end)

\* A panic leaves a record, perhaps in the place of one.
Crashes(end) ==
  \/ end # "panic" /\ UNCHANGED <<records, saved>>
  \/ end = "panic" /\ \E r \in Records : records' = records \cup {r} /\ saved' = saved \ {r}

Onward(n) == IF n < MaxBoots THEN "kick" ELSE "summary"

\* Mutant: the size is printed but not graded.
AnyLogin(size, end) == end = "login"
IsGood(size, end) == size = "256" /\ end = "login"

Watch ==
  /\ pc = "watch"
  /\ \E size \in Sizes \cup {"?"}, end \in Ends, what \in SUBSET {"not booted", "hung", "size", "panic", "stuck"} :
       /\ Watched(size, end, what)
       /\ count' = count + 1 /\ good' = (good /\ IsGood(size, end)) /\ wrong' = wrong \cup what
       /\ pc' = CASE end = "stuck" -> "summary" [] end = "panic" -> "follow" [] OTHER -> Onward(count')
       /\ Crashes(end)
  /\ UNCHANGED <<link, program, k, before, rows, left, runs,
                 gz, bin, proxy, execs, facts, hits, deaths>>

\* The boot after a panic is not graded.
Follow ==
  /\ pc = "follow"
  /\ \E end \in Ends : Crashes(end) /\ pc' = IF end = "login" THEN "log in" ELSE "summary"
  /\ UNCHANGED <<link, program, k, before, rows, left, soak, runs,
                 gz, bin, proxy, execs, facts, hits, deaths>>

(***************************************************************************)
(* check --reboot, flash, boot-ram, uboot-flash.py --boot: to the U-Boot   *)
(* prompt, with the kernel sent to RAM or not; reset or bootm; the text up *)
(* to login or panic.  A boot that hangs is in one text with the next,     *)
(* which is of the card's kernel.                                          *)
(***************************************************************************)
CatchPrompt ==
  /\ pc = "catch" /\ pc' \in {"boot", "failed"}
  /\ typed' = << >> /\ wire' = << >>
  /\ UNCHANGED <<asked, slow, heard, program, k, before, rows, left, saved, soak, runs, board>>

Paths == {"falcon", "fallback"}
FromSpl == [size : Sizes, path : Paths]
\* What the SPL and the way through U-Boot have wrong.
Off(b) == (IF b.size = "256" THEN {} ELSE {"size"}) \cup ({b.path} \ {"falcon"})

\* Mutant: the path is printed but not graded.
AnyPath(text) == text # {}
ByFalcon(text) == \E b \in text : b.path = "falcon"

\* The SPL's and U-Boot's lines are graded when the boot began there.
TextRows(first, text, end) ==
  [r \in BootRows |->
    IF program = "ram" /\ r \in {"dram", "falcon"} THEN "not asked"
    ELSE CASE r = "dram" -> IF first.size = "256" THEN "pass" ELSE "fail"
           [] r = "falcon" -> IF ByFalcon(text) THEN "pass" ELSE "fail"
           [] r = "oops" -> IF end = "panic" THEN "fail" ELSE "pass"
           [] r = "login" -> IF end = "login" THEN "pass" ELSE "fail"]

NextStep(end) ==
  IF program # "tool" THEN "shell" ELSE IF end = "login" THEN "done" ELSE "failed"
BootText ==
  /\ pc = "boot"
  /\ \E first, second \in FromSpl, hung \in BOOLEAN, end \in Ends :
       LET sent == program # "reboot"
           text == (IF sent THEN {} ELSE {first}) \cup (IF hung THEN {second} ELSE {})
           build == IF sent /\ ~hung THEN "new" ELSE facts.card
       IN /\ rows' = IF program = "tool" THEN rows
                     ELSE [r \in RowNames |-> IF r \in BootRows THEN TextRows(first, text, end)[r] ELSE rows[r]]
          /\ wrong' = ({end} \ {"login"}) \cup (IF hung THEN {"hung"} ELSE {}) \cup UNION {Off(b) : b \in text}
          /\ facts' = [facts EXCEPT !.image = build] /\ bin' = build /\ proxy' = "none"
          /\ pc' = NextStep(end)
  /\ UNCHANGED <<link, program, k, before, left, saved, count, good, runs,
                 gz, execs, records, hits, deaths>>

Summary ==
  /\ pc = "summary"
  /\ pc' = IF good THEN "done" ELSE "failed"
  /\ UNCHANGED <<link, program, k, before, rows, left, saved, soak, runs, board>>

(***************************************************************************)
(* save_pstore: log in, ls, cat of each record, rm.  `or ""`: a text that  *)
(* did not come is empty.                                                  *)
(***************************************************************************)
OpenShell ==
  \E a \in Said \cup {None} : Step("log in", a, IF a = None THEN Onward(count) ELSE "ls", Alone)

Names(a) == IF a[1] = "names" THEN a[2] ELSE {}
List ==
  \E a \in Said \cup {None} :
    /\ left' = Names(a)
    /\ Step("ls", a, IF left' = {} THEN Onward(count) ELSE "cat", <<k, before, rows, saved>>)
Copy ==
  /\ pc = "cat"
  /\ \E a \in Said \cup {None} :
       /\ left' = left \ {Record}
       /\ saved' = IF a = None THEN saved ELSE saved \cup {Record}
       /\ Step("cat", a, IF left' = {} THEN "clear" ELSE "cat", <<k, before, rows>>)
ClearRecords == \E a \in Said \cup {None} : Step("clear", a, Onward(count), Alone)

Finished == pc \in {"done", "failed"} /\ UNCHANGED vars

-----------------------------------------------------------------------------
(***************************************************************************)
(* The appliance: what the shell does with a line, and the proxy.          *)
(***************************************************************************)
Does(name) == typed # << >> /\ Head(typed)[1][1] = name
Says(a) == RunLine(Head(typed)[1], <<a>>)
Ok == <<"ok", 0>>
SaysNothing == RunLine(Head(typed)[1], << >>)

Truth(question) ==
  CASE question \in {"before", "after"} -> <<"count", execs>>
    [] question = "image" -> <<facts.image, 0>>
    [] question = "md5" -> <<bin, 0>>
    [] question = "one proxy" -> <<"count", IF proxy = "none" THEN 0 ELSE 1>>
    [] question = "watchdog" -> <<IF facts.armed THEN "armed" ELSE "off", 0>>
    [] question = "pstore" -> <<"count", Cardinality(records)>>
    [] question = "speed" -> IF facts.speed = 0 THEN <<"no device", 0>> ELSE <<"speed", facts.speed>>
    [] question = "ls" -> <<"names", records>>
    [] OTHER -> Ok
Looks ==
  /\ \E q \in Steps \ {"rm", "chunk", "install", "kill", "clear"} : Does(q) /\ Says(Truth(q))
  /\ UNCHANGED <<script, board>>

RemovesFile ==
  /\ Does("rm") /\ gz' = << >> /\ Says(Ok)
  /\ UNCHANGED <<script, bin, proxy, execs, facts, records, hits, deaths>>

\* A damaged chunk is a chunk to the shell; one that does not fit has no K0.
AppendsChunk ==
  /\ Does("chunk")
  /\ \/ gz' = Append(gz, Head(typed)[1][2]) /\ Says(Ok) /\ hits' = hits
     \/ gz' = Append(gz, 0) /\ Says(Ok) /\ hits > 0 /\ hits' = hits - 1
     \/ gz' = gz /\ SaysNothing /\ hits > 0 /\ hits' = hits - 1
  /\ UNCHANGED <<script, bin, proxy, execs, facts, records, deaths>>

Whole == gz = [i \in 1 .. Chunks |-> i]
Installs ==
  /\ Does("install")
  /\ \/ Whole /\ bin' = "new" /\ gz' = << >> /\ Says(<<"new", 0>>)
     \/ ~Whole /\ Says(<<"no sum", 0>>) /\ UNCHANGED <<bin, gz>>
  /\ UNCHANGED <<script, proxy, execs, facts, records, hits, deaths>>

Kills ==
  /\ Does("kill") /\ proxy' = "none" /\ Says(Ok)
  /\ UNCHANGED <<script, gz, bin, execs, facts, records, hits, deaths>>

RemovesRecords ==
  /\ Does("clear") /\ records' = {} /\ Says(Ok)
  /\ UNCHANGED <<script, gz, bin, proxy, execs, facts, hits, deaths>>

Respawns ==
  /\ proxy = "none" /\ proxy' = bin /\ execs' = execs + 1
  /\ UNCHANGED <<link, script, gz, bin, facts, records, hits, deaths>>

ProxyDies ==
  /\ proxy # "none" /\ deaths > 0 /\ proxy' = "none" /\ deaths' = deaths - 1
  /\ UNCHANGED <<link, script, gz, bin, execs, facts, records, hits>>

-----------------------------------------------------------------------------
(* The type invariant: at most one line is waited for, the chunk number    *)
(* stays within the file, the verdicts are the ones the report knows.      *)
TypeOK ==
  /\ ConsoleTypeOK
  /\ pc \in Steps \cup {"catch", "boot", "kick", "watch", "follow", "summary", "done", "failed"}
  /\ count \in 0 .. MaxBoots /\ good \in BOOLEAN
  /\ k \in 1 .. Chunks + 1 /\ before \in Nat
  /\ rows \in [RowNames -> Verdicts]
  /\ left \subseteq Records /\ saved \subseteq Records /\ records \subseteq Records
  /\ \A i \in 1 .. Len(gz) : gz[i] \in 0 .. Chunks
  /\ bin \in {"old", "new"} /\ proxy \in {"old", "new", "none"}

Passed == pc = "done" /\ \A r \in RowNames : rows[r] # "fail"

(***************************************************************************)
(* A swap that ends with CHECK PASSED leaves the binary that was sent, and *)
(* no proxy of the old one runs: whatever was given up before and answers  *)
(* late, whatever noise did to a chunk.                                    *)
(***************************************************************************)
PassedMeansNewRuns == program = "swap" /\ Passed => bin = "new" /\ proxy # "old"

(***************************************************************************)
(* A PASS on the image, the binary, the watchdog or the watch's speed is   *)
(* what the board is, not what an earlier question found or a silence left *)
(* open.                                                                   *)
(***************************************************************************)
RowsAreTrue ==
  /\ rows["image"] = "pass" => facts.image = "new"
  /\ rows["md5"] = "pass" => bin = "new"
  /\ rows["watchdog"] = "pass" => facts.armed
  /\ rows["speed"] = "pass" => facts.speed = 480

(***************************************************************************)
(* A soak that ends well: each boot that was asked for took place, printed *)
(* the right memory size and came to a login without a panic, unless one   *)
(* of them hung and was reset by the watchdog.                             *)
(***************************************************************************)
SoakIsHonest ==
  program \in Soaks /\ pc = "done" => count = MaxBoots /\ ("hung" \in wrong \/ wrong = {})

(***************************************************************************)
(* A check after a boot that passes: the board came to a login without a   *)
(* panic, and either from the SPL by Falcon with the right memory size at  *)
(* once, or a boot hung and was reset by the watchdog.  Then the rows are  *)
(* graded on the text of both boots, and the one that runs may have come   *)
(* through U-Boot proper or printed another size.  A kernel sent to the    *)
(* RAM is not passed when the card's own kernel came up in its place,      *)
(* unless the card holds the same build.                                   *)
(***************************************************************************)
PassedMeansBooted ==
  program \in {"reboot", "ram"} /\ Passed =>
    /\ wrong \subseteq {"hung", "size", "fallback"}
    /\ wrong # {} => "hung" \in wrong /\ (program = "ram" => facts.card = "new")

(***************************************************************************)
(* The row "SPL booted the kernel directly" is of the boot that runs.      *)
(* Does not hold: the Falcon boot hung, so the SPL took U-Boot proper the  *)
(* next time, and the text has the lines of both.                          *)
(***************************************************************************)
FalconRowIsTrue == rows["falcon"] = "pass" => "fallback" \notin wrong

(***************************************************************************)
(* uboot-flash.py: "RAM boot reached login."  Does not hold: the card's    *)
(* kernel did, after the one in RAM hung.                                  *)
(***************************************************************************)
RamBootRan == program = "tool" /\ pc = "done" => facts.image = "new"

(***************************************************************************)
(* The same for a boot that hung.  Does not hold: the text of the hung     *)
(* boot and of the next are graded as those of one boot.                   *)
(***************************************************************************)
HangsAreCounted == program \in Soaks /\ pc = "done" => wrong = {}

(***************************************************************************)
(* The row "pstore has no crash record" passes only if there is none.      *)
(* Does not hold: a question that gets no answer counts zero records.      *)
(***************************************************************************)
PstoreRowIsTrue == rows["pstore"] = "pass" => records = {}

(***************************************************************************)
(* boot-soak.py "saves the pstore records next to the log and clears them, *)
(* so the crash text is never lost": what is cleared has been saved.       *)
(* Does not hold: a record whose cat timed out is cleared too.             *)
(***************************************************************************)
ClearedIsSaved == [][records' = {} => records \subseteq saved]_vars
=============================================================================
