------------------------------ MODULE Console ------------------------------
(***************************************************************************)
(* The appliance's shell behind a serial line, and the two ways a script   *)
(* runs a command there.                                                   *)
(*                                                                         *)
(* lx_run (scripts/applib.py) wraps a command in two sentinels with a      *)
(* number it draws; run (scripts/serial-upload.py) waits for the fixed     *)
(* marker K0.  Either clears what has arrived, types the line and waits a  *)
(* limited time.  A command that takes longer is left behind: the shell    *)
(* runs it and answers later, while the next line is already typed.        *)
(*                                                                         *)
(* The shell is external.  It runs its lines in order.  Two of the 9000    *)
(* numbers that are under way at the same time are taken to differ.        *)
(***************************************************************************)
EXTENDS Naturals, Sequences

CONSTANTS
  Numbers,   \* the numbers lx_run draws from
  MaxSlow    \* how often a command outlasts its timeout

ASSUME ConsoleAssumption == "K0" \notin Numbers /\ Numbers # {} /\ MaxSlow \in Nat

VARIABLES
  typed,     \* lines the shell has not run yet: command and marker
  wire,      \* its answers the script has not read: command, marker, answer
  asked,     \* the line the script waits for, or << >>
  slow,      \* budget
  heard      \* history: the command that gave the last answer, and the one meant

link == <<typed, wire, asked, slow, heard>>

ConsoleInit ==
  /\ typed = << >> /\ wire = << >> /\ asked = << >>
  /\ slow = MaxSlow /\ heard = << >>

Waits == asked # << >>
UnderWay == {typed[i][2] : i \in 1 .. Len(typed)} \cup {wire[i][2] : i \in 1 .. Len(wire)}

\* Mutant: the number is the same every time.
OneNumber == {CHOOSE n \in Numbers : TRUE}
Fresh == Numbers \ UnderWay

\* The echo of the line: the sentinels are not spelled out in it.
\* Mutant: they are.
EchoSpelled(cmd, mark) == <<<<cmd, mark, "echo">>>>
Echo(cmd, mark) == << >>

Ask(cmd, mark) ==
  /\ ~Waits
  /\ typed' = Append(typed, <<cmd, mark>>)
  /\ wire' = Echo(cmd, mark)
  /\ asked' = <<cmd, mark>>
  /\ UNCHANGED <<slow, heard>>

AskNumbered(cmd) == \E n \in Fresh : Ask(cmd, n)
AskMarked(cmd) == Ask(cmd, "K0")

(***************************************************************************)
(* read_until, then the text between the sentinels: of what has arrived,   *)
(* the first answer with the number that was drawn.                        *)
(***************************************************************************)
Answers == {i \in 1 .. Len(wire) : wire[i][2] = asked[2]}
IsFirst(i) == \A j \in Answers : i <= j

Hear(answer) ==
  /\ Waits
  /\ \E i \in Answers :
       /\ IsFirst(i)
       /\ answer = wire[i][3]
       /\ heard' = <<wire[i][1], asked>>
       /\ wire' = SubSeq(wire, i + 1, Len(wire))
  /\ asked' = << >>
  /\ UNCHANGED <<typed, slow>>

\* The answer is not there in time: lx_run gives None.
TimeOut ==
  /\ Waits /\ Answers = {} /\ slow > 0
  /\ slow' = slow - 1
  /\ asked' = << >>
  /\ UNCHANGED <<typed, wire, heard>>

\* No answer will come: the shell has said nothing to the line it was given.
NoneComes ==
  /\ Waits /\ Answers = {} /\ asked \notin {typed[i] : i \in 1 .. Len(typed)}
  /\ asked' = << >>
  /\ UNCHANGED <<typed, wire, slow, heard>>

(***************************************************************************)
(* The shell runs its next line; `said` is the answer, or << >> for none.  *)
(***************************************************************************)
RunLine(cmd, said) ==
  /\ typed # << >> /\ cmd = Head(typed)[1]
  /\ typed' = Tail(typed)
  /\ wire' = IF said = << >> THEN wire ELSE Append(wire, <<cmd, Head(typed)[2], said[1]>>)
  /\ UNCHANGED <<asked, slow, heard>>

ConsoleTypeOK ==
  /\ \A i \in 1 .. Len(typed) : typed[i][2] \in Numbers \cup {"K0"}
  /\ Len(asked) \in {0, 2} /\ Len(heard) \in {0, 2}
  /\ slow \in 0 .. MaxSlow

(***************************************************************************)
(* lx_run returns what its own command said, never what a command that was *)
(* given up earlier says late, and never the echo of the line ("the echoed *)
(* command line ... can never be mistaken for the result").                *)
(***************************************************************************)
AnswerIsOwn == heard # << >> /\ heard[2][2] # "K0" => heard[1] = heard[2][1]
=============================================================================
