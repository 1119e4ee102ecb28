------------------------------- MODULE Loady -------------------------------
(***************************************************************************)
(* ub_loady: the Y-modem upload of a file into the board's RAM, at a rate  *)
(* switched up for it, ended by a crc32 of the RAM, and what a run leaves  *)
(* behind on the console for the next run.                                 *)
(*                                                                         *)
(* Source: scripts/applib.py, and scripts/uboot-flash.py for how a run     *)
(* starts.  External: U-Boot's side, as the script uses it.  It asks for a *)
(* block with C and, hearing nothing for two seconds, asks again; it       *)
(* acknowledges a block it already has once more.  After the file it is    *)
(* told to go back to 115200 and sometimes stays at the fast rate.         *)
(*                                                                         *)
(* The script's timeouts are far longer than U-Boot's, so they fire only   *)
(* when nothing is on the line and U-Boot has nothing to say.  A Mac that  *)
(* stalls for seconds breaks that and is counted.  Noise hits what is      *)
(* long or many: frames, their answers and the EOTs, not a typed command.  *)
(***************************************************************************)
EXTENDS Naturals, Sequences

CONSTANTS
  Blocks,      \* 1 KB blocks of the file
  SeqMod,      \* block numbers are sent modulo this (256)
  Tries,       \* attempts at a block
  Uploads,     \* files a run sends
  MaxRuns, MaxNoise, MaxStalls

ASSUME LoadyAssumption ==
  /\ {Blocks, Tries, Uploads, MaxRuns} \subseteq Nat \ {0} /\ SeqMod \in Nat \ {0, 1, 2}
  /\ {MaxNoise, MaxStalls} \subseteq Nat

VARIABLES
  pc,        \* what the script waits for
  rate,      \* ser.baudrate
  fast,      \* --baud was given
  switched,  \* U-Boot offered the fast rate for this upload
  blk,       \* the block being sent; 0 is the header
  tries,     \* attempts at it so far
  left,      \* files the run has still to send
  ub,        \* U-Boot: "prompt", "enter", "open", "data", "eof" or "esc"
  ubRate, back,  \* its rate, and whether it is to go back from it
  next,      \* the block number it expects
  ram,       \* the blocks it has stored
  down, up,  \* what is on the line, either way
  runs, noise, stalls, hits,  \* budgets, and noise since the upload began
  mishap     \* what has gone wrong in this upload but for noise: history,
             \*   and a bound on Cancel and on an Escape that comes early

script == <<pc, rate, fast, switched, blk, tries, left>>
uboot  == <<ub, ubRate, back, next, ram>>
budget == <<runs, noise, stalls, hits>>
vars   == <<script, uboot, down, up, budget, mishap>>

Std == "115200"
Quick == "750000"

Init ==
  /\ pc = "idle" /\ rate = Std /\ fast = FALSE /\ switched = FALSE
  /\ blk = 0 /\ tries = 1 /\ left = 0
  /\ ub = "prompt" /\ ubRate = Std /\ back = FALSE /\ next = 0 /\ ram = << >>
  /\ down = << >> /\ up = << >>
  /\ runs = MaxRuns /\ noise = MaxNoise /\ stalls = MaxStalls /\ hits = 0
  /\ mishap = {}

Quiet == down = << >> /\ up = << >>
Hears(b) == up # << >> /\ Head(up) = b

\* Mutant: the block number is sent as it is.
NoWrap(b) == b
SeqNo(b) == b % SeqMod

Frame(b) == <<"block", b, rate>>
Type(what, at) == <<what, 0, at>>
Send(x) == down' = Append(down, x)

(***************************************************************************)
(* A run, and an upload's beginning.                                       *)
(***************************************************************************)
StartRun(withBaud) ==
  /\ pc = "idle" /\ runs > 0
  /\ runs' = runs - 1
  /\ pc' = "ready" /\ fast' = withBaud /\ left' = Uploads
  /\ UNCHANGED <<rate, switched, blk, tries, uboot, down, up, noise, stalls, hits, mishap>>

TypeLoady ==
  /\ pc = "ready" /\ left > 0
  /\ pc' = IF fast THEN "offer" ELSE "C"
  /\ left' = left - 1 /\ switched' = FALSE
  /\ Send(Type(IF fast THEN "loady fast" ELSE "loady", rate))
  /\ up' = << >>
  /\ hits' = 0 /\ mishap' = {}
  /\ UNCHANGED <<rate, fast, blk, tries, uboot, runs, noise, stalls>>

\* "press ENTER": the line is cleared, CR goes out at the new rate.
TakeOffer ==
  /\ pc = "offer" /\ Hears("ENTER")
  /\ rate' = Quick /\ switched' = TRUE /\ pc' = "C"
  /\ Send(Type("cr", Quick))
  /\ up' = << >>
  /\ UNCHANGED <<fast, blk, tries, left, uboot, budget, mishap>>

SendBlock(b) == blk' = b /\ tries' = 1 /\ Send(Frame(b))

\* C is heard: the header may go, or after it the first block.
Asked ==
  /\ pc \in {"offer", "C", "data C"} /\ Hears("C")
  /\ pc' = "ack"
  /\ SendBlock(IF pc = "data C" THEN 1 ELSE 0)
  /\ up' = Tail(up)
  /\ UNCHANGED <<rate, fast, switched, left, uboot, budget, mishap>>

(***************************************************************************)
(* _send_block.                                                            *)
(***************************************************************************)
\* Mutant: the C that asks for the block again passes for its ACK.
AnyAnswer(b) == b \in {"ACK", "C"}
IsAck(b) == b = "ACK"

Acked ==
  /\ pc = "ack" /\ up # << >> /\ IsAck(Head(up))
  /\ up' = Tail(up)
  /\ \/ blk = 0 /\ pc' = "data C" /\ UNCHANGED <<blk, tries, down>>
     \/ blk \in 1 .. Blocks - 1 /\ UNCHANGED pc /\ SendBlock(blk + 1)
     \/ blk = Blocks /\ pc' = "EOT" /\ UNCHANGED <<blk, tries, down>>
  /\ UNCHANGED <<rate, fast, switched, left, uboot, budget, mishap>>

\* U-Boot speaks up by itself within two seconds.
WillAsk == ub \in {"open", "data"} /\ ubRate = rate
Silence == Quiet /\ ~WillAsk

\* Mutant: one attempt too many.
TriesOneMore == tries <= Tries
MayRetry == tries < Tries

AgainAnswered == up # << >> /\ ~IsAck(Head(up)) /\ Head(up) = "C" /\ up' = Tail(up)
Again == pc = "ack" /\ (AgainAnswered \/ (Silence /\ UNCHANGED up))

Resend ==
  /\ Again /\ MayRetry
  /\ tries' = tries + 1
  /\ Send(Frame(blk))
  /\ UNCHANGED <<pc, rate, fast, switched, blk, left, uboot, budget, mishap>>

NotAcknowledged ==
  /\ Again /\ ~MayRetry
  /\ pc' = "failed"
  /\ UNCHANGED <<rate, fast, switched, blk, tries, left, uboot, down, budget, mishap>>

\* Any other byte is read and dropped.
Wanted == CASE pc = "offer" -> {"ENTER", "C"} [] pc \in {"C", "data C"} -> {"C", "CAN"}
            [] pc = "ack" -> {"ACK", "C", "CAN"} [] pc \in {"prompt", "prompt again"} -> {"=>"}
            [] pc = "sum" -> {"good", "bad"} [] OTHER -> {}
Skip ==
  /\ pc \in {"offer", "C", "data C", "ack", "prompt", "prompt again", "sum"}
  /\ up # << >> /\ Head(up) \notin Wanted
  /\ up' = Tail(up)
  /\ UNCHANGED <<script, uboot, down, budget, mishap>>

Cancelled ==
  /\ pc \in {"C", "data C", "ack"} /\ Hears("CAN")
  /\ pc' = "failed" /\ up' = Tail(up)
  /\ UNCHANGED <<rate, fast, switched, blk, tries, left, uboot, down, budget, mishap>>

(***************************************************************************)
(* The end of the file: two EOTs, whatever is answered, then the console.  *)
(***************************************************************************)
Eot ==
  /\ pc \in {"EOT", "second EOT"} /\ down = << >>
  /\ pc' = IF pc = "EOT" THEN "second EOT" ELSE "after"
  /\ Send(Type("eot", rate))
  /\ up' = << >>
  /\ UNCHANGED <<rate, fast, switched, blk, tries, left, uboot, budget, mishap>>

\* ESC at the fast rate, once U-Boot asks for it or five seconds have passed,
\* which U-Boot's own two outlast only where something has gone wrong; after
\* that at the standard one.
EscAndPrompt(at) == down' = down \o <<Type("esc", at), Type("cr", at)>>

Escape ==
  /\ pc = "after" /\ switched /\ down = << >> /\ (ub = "eof" => mishap # {})
  /\ pc' = "prompt"
  /\ EscAndPrompt(rate)
  /\ up' = << >>
  /\ UNCHANGED <<rate, fast, switched, blk, tries, left, uboot, budget, mishap>>

EscapeStd ==
  /\ pc = "prompt" /\ Quiet
  /\ pc' = "prompt again" /\ rate' = Std
  /\ EscAndPrompt(Std)
  /\ UNCHANGED <<fast, switched, blk, tries, left, uboot, up, budget, mishap>>

TypeCrc ==
  /\ \/ pc = "after" /\ ~switched /\ down = << >>
     \/ pc \in {"prompt", "prompt again"} /\ Hears("=>")
  /\ pc' = "sum"
  /\ Send(Type("crc", rate))
  /\ up' = << >>
  /\ UNCHANGED <<rate, fast, switched, blk, tries, left, uboot, budget, mishap>>

\* Mutant: an answer is enough.
AnySum(b) == b \in {"good", "bad"}
SumMatches(b) == b = "good"

Sum ==
  /\ pc = "sum" /\ up # << >> /\ Head(up) \in {"good", "bad"}
  /\ pc' = IF SumMatches(Head(up)) THEN "ready" ELSE "failed"
  /\ up' = Tail(up)
  /\ UNCHANGED <<rate, fast, switched, blk, tries, left, uboot, down, budget, mishap>>

\* sys.exit after a timeout; in "offer" the wait for C goes on instead.
NoAnswer ==
  /\ pc \in {"offer", "C", "data C", "prompt again", "sum"} /\ Silence
  /\ pc' = IF pc = "offer" THEN "C" ELSE "failed"
  /\ UNCHANGED <<rate, fast, switched, blk, tries, left, uboot, down, up, budget, mishap>>

(***************************************************************************)
(* What follows an upload: the reset into the new files, or an error while *)
(* the file is put to use.                                                 *)
(***************************************************************************)
ResetBoard ==
  /\ pc = "ready" /\ left = 0 /\ Quiet
  /\ pc' = "idle" /\ rate' = Std
  /\ ub' = "prompt" /\ ubRate' = Std
  /\ UNCHANGED <<fast, switched, blk, tries, left, back, next, ram, down, up, budget, mishap>>

GiveUp ==
  /\ pc = "ready"
  /\ pc' = "failed"
  /\ UNCHANGED <<rate, fast, switched, blk, tries, left, uboot, down, up, budget, mishap>>

\* The next run opens the port, which drops what came in before, at 115200
\* and looks for the prompt there.
Rerun ==
  /\ pc = "failed" /\ down = << >>
  /\ pc' = "look" /\ rate' = Std
  /\ up' = << >>
  /\ UNCHANGED <<fast, switched, blk, tries, left, uboot, down, budget, mishap>>

PromptAnswers == ub = "prompt" /\ ubRate = rate

Look ==
  /\ pc = "look"
  /\ pc' = IF PromptAnswers THEN "idle" ELSE "lost"
  /\ UNCHANGED <<rate, fast, switched, blk, tries, left, uboot, down, up, budget, mishap>>

\* "not at the => prompt": somebody has to cut the power.
PowerCycle ==
  /\ pc = "lost"
  /\ pc' = "idle"
  /\ ub' = "prompt" /\ ubRate' = Std
  /\ UNCHANGED <<rate, fast, switched, blk, tries, left, back, next, ram, down, up, budget,
                 mishap>>

Script ==
  \/ TypeLoady \/ TakeOffer \/ Asked \/ Acked \/ Resend \/ NotAcknowledged \/ Skip
  \/ Cancelled \/ Eot \/ Escape \/ EscapeStd \/ TypeCrc \/ Sum \/ NoAnswer \/ Rerun \/ Look

(***************************************************************************)
(* U-Boot.                                                                 *)
(***************************************************************************)
Says(b) == up' = up \o b
Got == Head(down)
Reads == down # << >> /\ down' = Tail(down) /\ UNCHANGED <<script, budget, mishap>>
Clear == Reads /\ Got[3] = ubRate

\* Characters at another rate are garbage.
Garbled == Reads /\ Got[3] # ubRate /\ UNCHANGED <<uboot, up>>

Prompt ==
  /\ ub = "prompt" /\ Clear
  /\ CASE Got[1] = "loady fast" /\ ubRate # Quick ->
            /\ ub' = "enter" /\ ubRate' = Quick /\ back' = TRUE
            /\ ram' = << >> /\ Says(<<"ENTER">>) /\ UNCHANGED next
       [] Got[1] = "loady" \/ (Got[1] = "loady fast" /\ ubRate = Quick) ->
            /\ ub' = "open" /\ back' = FALSE
            /\ ram' = << >> /\ Says(<<"C">>) /\ UNCHANGED <<ubRate, next>>
       [] Got[1] = "crc" ->
            /\ Says(<<IF ram = [i \in 1 .. Blocks |-> i] THEN "good" ELSE "bad">>)
            /\ UNCHANGED uboot
       [] Got[1] = "cr" -> Says(<<"=>">>) /\ UNCHANGED uboot
       [] OTHER -> UNCHANGED <<uboot, up>>

Enter ==
  /\ ub = "enter" /\ Clear
  /\ IF Got[1] = "cr" THEN ub' = "open" /\ Says(<<"C">>) ELSE UNCHANGED <<ub, up>>
  /\ UNCHANGED <<ubRate, back, next, ram>>

\* The header.  C may follow the ACK at once or after the timeout.
Open ==
  /\ ub = "open" /\ Clear
  /\ IF Got[1] = "block" /\ Got[2] = 0
     THEN ub' = "data" /\ next' = 1 /\ (Says(<<"ACK">>) \/ Says(<<"ACK", "C">>))
     ELSE UNCHANGED <<ub, next, up>>
  /\ UNCHANGED <<ubRate, back, ram>>

Data ==
  /\ ub = "data" /\ Clear
  /\ CASE Got[1] = "block" /\ SeqNo(Got[2]) = next ->
            /\ next' = (next + 1) % SeqMod
            /\ ram' = IF Len(ram) < Blocks THEN Append(ram, Got[2]) ELSE ram
            /\ Says(<<"ACK">>) /\ UNCHANGED ub
       [] Got[1] = "block" /\ (SeqNo(Got[2]) + 1) % SeqMod = next ->
            Says(<<"ACK">>) /\ UNCHANGED <<ub, next, ram>>
       [] Got[1] = "block" /\ SeqNo(Got[2]) # next /\ (SeqNo(Got[2]) + 1) % SeqMod # next ->
            Says(<<"C">>) /\ UNCHANGED <<ub, next, ram>>
       [] Got[1] = "eot" -> ub' = "eof" /\ Says(<<"ACK", "C">>) /\ UNCHANGED <<next, ram>>
       [] OTHER -> UNCHANGED <<ub, next, ram, up>>
  /\ UNCHANGED <<ubRate, back>>

\* The rate goes back, or is stuck; either way U-Boot waits for ESC.
EndOfFile(answer) ==
  /\ IF back THEN ub' = "esc" /\ ubRate' \in {Std, ubRate} /\ Says(<<answer, "ESC">>)
             ELSE ub' = "prompt" /\ UNCHANGED ubRate /\ Says(<<answer>>)
  /\ UNCHANGED <<back, next, ram>>

Eof ==
  /\ ub = "eof" /\ Clear
  /\ IF Got[1] = "eot" THEN EndOfFile("ACK") ELSE UNCHANGED <<uboot, up>>

Esc ==
  /\ ub = "esc" /\ Clear
  /\ ub' = IF Got[1] = "esc" THEN "prompt" ELSE ub
  /\ UNCHANGED <<ubRate, back, next, ram, up>>

\* Two seconds without a frame.  Something the Mac has not read by then: it stalls.
UbTimeout ==
  /\ ub \in {"open", "data", "eof"} /\ down = << >>
  /\ \/ up = << >> /\ UNCHANGED <<stalls, mishap>>
     \/ up # << >> /\ stalls > 0 /\ stalls' = stalls - 1 /\ mishap' = mishap \cup {"stall"}
  /\ IF ub = "eof" THEN EndOfFile("ACK") ELSE Says(<<"C">>) /\ UNCHANGED uboot
  /\ UNCHANGED <<script, down, runs, noise, hits>>

\* Nobody sends it anything any more: its retries run out.
UbGivesUp ==
  /\ ub \in {"open", "data"} /\ pc \in {"failed", "look", "lost", "sum", "prompt", "prompt again"}
  /\ down = << >>
  /\ ub' = IF back THEN "esc" ELSE "prompt"
  /\ UNCHANGED <<ubRate, back, next, ram, script, down, up, budget, mishap>>

UBoot == Prompt \/ Enter \/ Open \/ Data \/ Eof \/ Esc \/ Garbled

(***************************************************************************)
(* The line and what else goes wrong.                                      *)
(***************************************************************************)
Spend == noise > 0 /\ noise' = noise - 1 /\ hits' = hits + 1

NoiseDown ==
  /\ down # << >> /\ Head(down)[1] \in {"block", "eot"}
  /\ Spend
  /\ down' = Tail(down)
  /\ mishap' = mishap \cup (IF Head(down)[1] = "eot" THEN {"eot"} ELSE {})
  /\ UNCHANGED <<script, uboot, up, runs, stalls>>

NoiseUp ==
  /\ up # << >> /\ Head(up) \in {"ACK", "C"}
  /\ Spend
  /\ up' = Tail(up)
  /\ UNCHANGED <<script, uboot, down, runs, stalls, mishap>>

\* U-Boot ends the transfer by itself, at most once and before other mishaps.
Cancel ==
  /\ ub \in {"open", "data"} /\ noise > 0 /\ mishap = {}
  /\ noise' = noise - 1
  /\ mishap' = {"cancel"}
  /\ ub' = IF back THEN "esc" ELSE "prompt"
  /\ Says(<<"CAN">>)
  /\ UNCHANGED <<script, ubRate, back, next, ram, down, runs, stalls, hits>>

Trouble == NoiseDown \/ NoiseUp \/ Cancel \/ GiveUp

Next ==
  \/ Script \/ UBoot \/ UbTimeout \/ UbGivesUp \/ Trouble \/ ResetBoard \/ PowerCycle
  \/ \E b \in BOOLEAN : StartRun(b)

Spec == Init /\ [][Next]_vars

----------------------------------------------------------------------------
Sending == {"offer", "C", "ack", "data C", "EOT", "second EOT", "after", "prompt",
            "prompt again", "sum"}

TypeOK ==
  /\ pc \in Sending \cup {"idle", "ready", "failed", "look", "lost"}
  /\ {rate, ubRate} \subseteq {Std, Quick} /\ {fast, switched, back} \subseteq BOOLEAN
  /\ blk \in 0 .. Blocks /\ tries \in 1 .. Tries /\ left \in 0 .. Uploads
  /\ ub \in {"prompt", "enter", "open", "data", "eof", "esc"}
  /\ next \in 0 .. SeqMod - 1
  /\ Len(ram) <= Blocks /\ \A i \in 1 .. Len(ram) : ram[i] \in 1 .. Blocks
  /\ hits \in 0 .. MaxNoise /\ noise \in 0 .. MaxNoise /\ stalls \in 0 .. MaxStalls

Uploaded == pc = "ready" /\ left < Uploads

(***************************************************************************)
(* ub_loady returns only with the file in RAM, at the prompt, and with the *)
(* port at the rate U-Boot really uses ("leaves ser.baudrate at whichever  *)
(* answers the prompt"), through noise, cancels and stalls of the Mac,     *)
(* after which a block may go unsent though an ACK for it was counted.     *)
(***************************************************************************)
ReturnMeansLoaded ==
  Uploaded => ram = [i \in 1 .. Blocks |-> i] /\ ub = "prompt" /\ rate = ubRate

(***************************************************************************)
(* While the Mac keeps up, an ACK is never taken for another block's: the  *)
(* block before the one being sent has been stored, across lost ACKs,      *)
(* repeated blocks and the wrap of the block number.                       *)
(***************************************************************************)
AckedIsStored ==
  "stall" \notin mishap /\ pc = "ack" /\ blk > 0 => Len(ram) \in {blk - 1, blk}

(***************************************************************************)
(* An upload fails only for a reason: as many hits on the line as a block  *)
(* has attempts, a lost EOT, a cancel, or a Mac that stalled.              *)
(***************************************************************************)
FailsForAReason ==
  pc' = "failed" /\ pc \in Sending => mishap # {} \/ hits >= Tries
NoNeedlessFailure == [][FailsForAReason]_vars

(***************************************************************************)
(* "Do NOT reset; rewrite the file" (applib.py, ub_fat_write): a run that  *)
(* failed leaves a prompt the next run can reach.                          *)
(***************************************************************************)
RerunReachesPrompt == pc # "lost"
=============================================================================
