-------------------------- MODULE HostToolsProofs --------------------------
(***************************************************************************)
(* What the tools report is true.  First the console scripts (Sessions),   *)
(* for any numbers, timeouts, chunks, records, noise, deaths of the proxy  *)
(* and boots; then the tools for the bare-metal firmware (RigSoak), for    *)
(* any rounds and any number of faults.                                    *)
(***************************************************************************)
EXTENDS HostTools, SequenceTheorems, FiniteSetTheorems, TLAPS

Marks == Numbers \cup {"K0"}
Cmds == {<<s>> : s \in Steps \ {"chunk", "cat"}} \cup ({"chunk"} \X (1 .. Chunks)) \cup ({"cat"} \X Records)
Words == {"ok", "no sum", "old", "new", "armed", "off", "no device"}
Texts == (Words \X {0}) \cup ({"count"} \X Nat) \cup ({"speed"} \X {12, 480})
         \cup ({"names"} \X SUBSET Records)

Lines == {typed[i] : i \in 1 .. Len(typed)}
Replies == {wire[i] : i \in 1 .. Len(wire)}

LinkTyped ==
  /\ typed \in Seq(Cmds \X Marks) /\ wire \in Seq(Cmds \X Marks \X Texts)
  /\ asked \in {<< >>} \cup (Cmds \X Marks)
  /\ heard \in {<< >>} \cup (Cmds \X (Cmds \X Marks))
  /\ slow \in 0 .. MaxSlow

\* A number that is waited for is on no other command's line or answer.
Own ==
  Waits /\ asked[2] # "K0" =>
    /\ \A l \in Lines : l[2] = asked[2] => l[1] = asked[1]
    /\ \A w \in Replies : w[2] = asked[2] => w[1] = asked[1]

LinkInv == LinkTyped /\ Own /\ AnswerIsOwn

-----------------------------------------------------------------------------
LEMMA NotEmpty == ASSUME NEW S, NEW T, NEW p \in S \X T PROVE p # << >>
  OBVIOUS

LEMMA LineSets ==
  ASSUME LinkTyped
  PROVE  /\ Lines \subseteq Cmds \X Marks
         /\ Replies \subseteq Cmds \X Marks \X Texts
         /\ Len(typed) \in Nat /\ Len(wire) \in Nat
<1>1. typed \in Seq(Cmds \X Marks) /\ wire \in Seq(Cmds \X Marks \X Texts)
  BY DEF LinkTyped
<1>2. Len(typed) \in Nat /\ Len(wire) \in Nat
  BY <1>1, LenProperties
<1>3. \A i \in 1 .. Len(typed) : typed[i] \in Cmds \X Marks
  BY <1>1, ElementOfSeq
<1>4. \A i \in 1 .. Len(wire) : wire[i] \in Cmds \X Marks \X Texts
  BY <1>1, ElementOfSeq
<1> QED
  BY <1>2, <1>3, <1>4 DEF Lines, Replies

(***************************************************************************)
(* A line is typed: it is the last one, and nothing has been heard yet.    *)
(***************************************************************************)
LEMMA AskLink ==
  ASSUME LinkInv, NEW cmd \in Cmds, NEW mark \in Marks, Ask(cmd, mark),
         mark # "K0" => mark \in Fresh
  PROVE  /\ LinkInv' /\ Waits' /\ asked' = <<cmd, mark>>
         /\ Lines' = Lines \cup {asked'} /\ Replies' = {}
         /\ Len(typed) \in Nat /\ Len(typed') = Len(typed) + 1
         /\ \A i \in 1 .. Len(typed) : typed'[i] = typed[i]
         /\ typed'[Len(typed) + 1] = asked'
<1>1. typed \in Seq(Cmds \X Marks) /\ <<cmd, mark>> \in Cmds \X Marks
  BY DEF LinkInv, LinkTyped
<1>2. asked' = <<cmd, mark>> /\ typed' = Append(typed, <<cmd, mark>>) /\ wire' = << >>
  BY DEF Ask, Echo
<1>3. typed' \in Seq(Cmds \X Marks) /\ Len(typed') = Len(typed) + 1
      /\ \A i \in 1 .. Len(typed) : typed'[i] = typed[i]
  BY <1>1, <1>2, AppendProperties
<1>4. Len(typed) \in Nat /\ typed'[Len(typed) + 1] = <<cmd, mark>>
  BY <1>1, <1>2, AppendProperties, LenProperties
<1>5. Waits'
  BY <1>1, <1>2, NotEmpty DEF Waits
<1>6. Replies' = {}
  <2>1. Len(wire') = 0
    BY <1>2
  <2> QED
    BY <2>1 DEF Replies
<1>7. Lines' = Lines \cup {<<cmd, mark>>}
  <2>1. Lines' = {typed'[i] : i \in 1 .. Len(typed')}
    BY DEF Lines
  <2>2. \A i \in 1 .. Len(typed') : typed'[i] \in Lines \cup {<<cmd, mark>>}
    BY <1>3, <1>4 DEF Lines
  <2>3. \A i \in 1 .. Len(typed) : typed[i] \in Lines'
    BY <1>3, <1>4, <2>1
  <2>4. <<cmd, mark>> \in Lines'
    BY <1>3, <1>4, <2>1
  <2> QED
    BY <2>1, <2>2, <2>3, <2>4 DEF Lines
<1>8. LinkTyped'
  <2>1. wire' \in Seq(Cmds \X Marks \X Texts)
    BY <1>2, EmptySeq
  <2> QED
    BY <1>1, <1>2, <1>3, <2>1 DEF LinkTyped, LinkInv, Ask
<1>9. Own'
  <2>1. ASSUME asked'[2] # "K0", NEW l \in Lines, l[2] = asked'[2] PROVE FALSE
    <3>1. mark \in Fresh /\ l[2] = mark
      BY <1>2, <2>1
    <3>2. PICK i \in 1 .. Len(typed) : typed[i] = l
      BY DEF Lines
    <3>3. l[2] \in UnderWay
      BY <3>2 DEF UnderWay
    <3> QED
      BY <3>1, <3>3 DEF Fresh
  <2> QED
    BY <1>2, <1>6, <1>7, <2>1 DEF Own
<1>10. AnswerIsOwn'
  BY DEF Ask, AnswerIsOwn, LinkInv
<1> QED
  BY <1>2, <1>3, <1>4, <1>5, <1>6, <1>7, <1>8, <1>9, <1>10 DEF LinkInv

(***************************************************************************)
(* The script goes on: with an answer that bears its mark, or without one. *)
(***************************************************************************)
LEMMA ReplyLink ==
  ASSUME LinkInv, NEW a, Reply(a)
  PROVE  /\ LinkInv' /\ Waits /\ ~Waits'
         /\ typed' = typed /\ Lines' = Lines /\ Replies' \subseteq Replies
         /\ \/ a = None
            \/ \E w \in Replies : a = w[3] /\ (asked[2] # "K0" => w[1] = asked[1])
<1>1. CASE Hear(a)
  <2>1. PICK i \in Answers : a = wire[i][3] /\ heard' = <<wire[i][1], asked>>
                             /\ wire' = SubSeq(wire, i + 1, Len(wire))
    BY <1>1 DEF Hear
  <2>2. i \in 1 .. Len(wire) /\ wire[i][2] = asked[2] /\ wire[i] \in Replies
    BY <2>1 DEF Answers, Replies
  <2>3. Waits /\ ~Waits' /\ asked' = << >> /\ typed' = typed /\ Lines' = Lines
    BY <1>1 DEF Hear, Waits, Lines
  <2>4. wire \in Seq(Cmds \X Marks \X Texts) /\ Len(wire) \in Nat
    BY LineSets DEF LinkInv, LinkTyped
  <2>5. \A j \in i + 1 .. Len(wire) : wire[j] \in Cmds \X Marks \X Texts
    BY <2>2, <2>4, ElementOfSeq
  <2>6. /\ wire' \in Seq(Cmds \X Marks \X Texts)
        /\ Len(wire') = IF i + 1 <= Len(wire) THEN Len(wire) - (i + 1) + 1 ELSE 0
        /\ \A j \in 1 .. Len(wire) - (i + 1) + 1 : wire'[j] = wire[i + 1 + j - 1]
    BY <2>1, <2>2, <2>4, <2>5, SubSeqProperties
  <2>7. \A j \in 1 .. Len(wire') : wire'[j] \in Replies
    <3> SUFFICES ASSUME NEW j \in 1 .. Len(wire') PROVE wire'[j] \in Replies
      OBVIOUS
    <3>1. j \in 1 .. Len(wire) - (i + 1) + 1 /\ i + 1 + j - 1 \in 1 .. Len(wire)
      BY <2>2, <2>4, <2>6
    <3> QED
      BY <2>6, <3>1 DEF Replies
  <2>8. Replies' \subseteq Replies
    BY <2>7 DEF Replies
  <2>9. asked[2] # "K0" => wire[i][1] = asked[1]
    BY <2>2, <2>3 DEF LinkInv, Own
  <2>10. wire[i] \in Cmds \X Marks \X Texts /\ asked \in Cmds \X Marks
    BY <2>2, <2>3, LineSets DEF LinkInv, LinkTyped, Waits
  <2>11. LinkTyped'
    BY <1>1, <2>1, <2>3, <2>6, <2>10 DEF LinkInv, LinkTyped, Hear
  <2>12. AnswerIsOwn'
    BY <2>1, <2>9 DEF AnswerIsOwn
  <2> QED
    BY <2>1, <2>2, <2>3, <2>8, <2>9, <2>11, <2>12 DEF LinkInv, Own
<1>2. CASE a = None /\ (TimeOut \/ NoneComes)
  <2>1. Waits /\ asked' = << >> /\ typed' = typed /\ wire' = wire /\ heard' = heard
    BY <1>2 DEF TimeOut, NoneComes
  <2>2. slow' \in 0 .. MaxSlow
    BY <1>2, ConsoleAssumption DEF TimeOut, NoneComes, LinkInv, LinkTyped
  <2> QED
    BY <1>2, <2>1, <2>2 DEF LinkInv, LinkTyped, Own, AnswerIsOwn, Waits, Lines, Replies
<1> QED
  BY <1>1, <1>2 DEF Reply

(***************************************************************************)
(* The shell takes its first line and says something, or nothing.          *)
(***************************************************************************)
LEMMA RunLink ==
  ASSUME LinkInv, typed # << >>, NEW said, RunLine(Head(typed)[1], said),
         said = << >> \/ \E x \in Texts : said = <<x>>
  PROVE  /\ LinkInv' /\ asked' = asked
         /\ Head(typed) \in Lines /\ Head(typed) = typed[1] /\ Lines' \subseteq Lines
         /\ Len(typed) \in Nat \ {0} /\ Len(typed') = Len(typed) - 1
         /\ \A i \in 1 .. Len(typed') : typed'[i] = typed[i + 1]
         /\ Replies' \subseteq Replies \cup {<<Head(typed)[1], Head(typed)[2], said[1]>>}
         /\ said = << >> => Replies' = Replies
<1>1. typed \in Seq(Cmds \X Marks) /\ wire \in Seq(Cmds \X Marks \X Texts)
  BY DEF LinkInv, LinkTyped
<1>2. typed' = Tail(typed) /\ UNCHANGED <<asked, slow, heard>>
  BY DEF RunLine
<1>3. Len(typed) \in Nat \ {0} /\ Head(typed) = typed[1]
  BY <1>1, EmptySeq
<1>4. typed' \in Seq(Cmds \X Marks) /\ Len(typed') = Len(typed) - 1
      /\ \A i \in 1 .. Len(typed') : typed'[i] = typed[i + 1]
  BY <1>1, <1>2, HeadTailProperties
<1>5. Head(typed) \in Lines
  BY <1>3 DEF Lines
<1>6. Lines' \subseteq Lines
  <2>1. \A i \in 1 .. Len(typed') : typed'[i] \in Lines
    BY <1>3, <1>4 DEF Lines
  <2> QED
    BY <2>1 DEF Lines
<1> DEFINE new == <<Head(typed)[1], Head(typed)[2], said[1]>>
<1>7. Head(typed) \in Cmds \X Marks
  BY <1>1, HeadTailProperties
<1>8. ASSUME said = << >>
      PROVE  wire' = wire
  BY <1>8 DEF RunLine
<1>9. ASSUME said # << >>
      PROVE  new \in Cmds \X Marks \X Texts /\ wire' = Append(wire, new)
  <2>1. PICK x \in Texts : said = <<x>>
    BY <1>9
  <2>2. said[1] \in Texts
    BY <2>1
  <2> QED
    BY <1>7, <1>9, <2>2 DEF RunLine
<1>10. wire' \in Seq(Cmds \X Marks \X Texts) /\ Replies' \subseteq Replies \cup {new}
  <2>1. CASE said = << >>
    BY <1>1, <1>8, <2>1 DEF Replies
  <2>2. CASE said # << >>
    <3>1. wire' \in Seq(Cmds \X Marks \X Texts) /\ Len(wire') = Len(wire) + 1
          /\ (\A i \in 1 .. Len(wire) : wire'[i] = wire[i]) /\ wire'[Len(wire) + 1] = new
      <4> DEFINE S == Cmds \X Marks \X Texts
      <4> HIDE DEF S, new
      <4>1. wire \in Seq(S) /\ new \in S /\ wire' = Append(wire, new)
        BY <1>1, <1>9, <2>2 DEF S
      <4>2. wire' \in Seq(S) /\ Len(wire') = Len(wire) + 1
            /\ (\A i \in 1 .. Len(wire) : wire'[i] = wire[i]) /\ wire'[Len(wire) + 1] = new
        BY <4>1, AppendProperties
      <4> QED
        BY <4>2 DEF S
    <3>2. Len(wire) \in Nat
      BY <1>1, LenProperties
    <3>3. \A i \in 1 .. Len(wire') : wire'[i] \in Replies \cup {new}
      BY <3>1, <3>2 DEF Replies
    <3> QED
      BY <3>1, <3>3 DEF Replies
  <2> QED
    BY <2>1, <2>2
<1>11. LinkTyped' /\ AnswerIsOwn'
  BY <1>2, <1>4, <1>10 DEF LinkInv, LinkTyped, AnswerIsOwn
<1>12. Own'
  BY <1>2, <1>5, <1>6, <1>10 DEF LinkInv, Own, Waits
<1> QED
  BY <1>2, <1>3, <1>4, <1>5, <1>6, <1>8, <1>10, <1>11, <1>12 DEF LinkInv, Replies

\* A reset of the board, or ^C at the shell, leaves nothing under way.
LEMMA ClearLink ==
  ASSUME LinkInv, ~Waits, typed' = << >>, wire' = << >>, UNCHANGED <<asked, slow, heard>>
  PROVE  LinkInv' /\ ~Waits' /\ Lines' = {} /\ Replies' = {} /\ Len(typed') = 0
<1>1. Len(typed') = 0 /\ Len(wire') = 0
  OBVIOUS
<1>2. typed' \in Seq(Cmds \X Marks) /\ wire' \in Seq(Cmds \X Marks \X Texts)
  BY EmptySeq
<1> QED
  BY <1>1, <1>2 DEF LinkInv, LinkTyped, Own, AnswerIsOwn, Waits, Lines, Replies

-----------------------------------------------------------------------------
(***************************************************************************)
(* Where each script may be, and what its variables hold.                  *)
(***************************************************************************)
RowsAsked == {"image", "md5", "one proxy", "watchdog", "path", "pstore", "log", "speed"}
Later == {"after", "shell"} \cup RowsAsked
Upload == Marked \cup {"login", "before", "install", "kill"}
Crashed == {"follow", "log in", "ls", "cat", "clear"}

Programs == {"swap", "check", "none"} \cup Soaks \cup Boots
PcOf(p) ==
  CASE p = "swap" -> Upload \cup Later \cup {"done", "failed"}
    [] p = "check" -> {"shell", "done"} \cup RowsAsked
    [] p \in Boots -> {"catch", "boot", "shell", "done", "failed"} \cup RowsAsked
    [] p \in Soaks -> {"kick", "watch", "summary", "done", "failed"} \cup Crashed
    [] p = "none" -> {"done"}

AllFacts == [armed : BOOLEAN, speed : {0, 12, 480}, image : {"old", "new"}, card : {"old", "new"}]

Typed ==
  /\ program \in Programs /\ pc \in PcOf(program)
  /\ k \in 1 .. Chunks + 1 /\ before \in Nat
  /\ pc \in {"sanity", "rm", "quiet", "chunk"} => k <= Chunks
  /\ rows \in [RowNames -> Verdicts]
  /\ left \subseteq Records /\ saved \subseteq Records /\ records \subseteq Records
  /\ pc = "cat" => left # {}
  /\ count \in 0 .. MaxBoots /\ good \in BOOLEAN
  /\ gz \in Seq(0 .. Chunks)
  /\ bin \in {"old", "new"} /\ proxy \in {"old", "new", "none"} /\ execs \in Nat
  /\ facts \in AllFacts

\* The line that is waited for is the one this step types.
Sync ==
  Waits => pc \in Steps /\ asked[1] = Line /\ (asked[2] = "K0" <=> pc \in Marked)

\* What the shell has said of the image, the watchdog, the watch and the
\* binary is so still.
Truths ==
  \A w \in Replies :
    /\ w[1] = <<"image">> => w[3] = Truth("image")
    /\ w[1] = <<"watchdog">> => w[3] = Truth("watchdog")
    /\ w[1] = <<"speed">> => w[3] = Truth("speed")
    /\ w[1] \in {<<"md5">>, <<"install">>} /\ w[3] = <<"new", 0>> => bin = "new"

(***************************************************************************)
(* swap kills the proxy only once the new binary is installed, and what it *)
(* asks afterwards stands behind the kill in the line of the shell.  So    *)
(* whatever answers, the old proxy is gone by then, and none comes again.  *)
(***************************************************************************)
IsLater(cmd) == cmd[1] \in Later
IsKill(cmd) == cmd = <<"kill">>
KillFirst ==
  program = "swap" =>
    /\ pc \in {"kill", "done"} \cup Later => bin = "new"
    /\ \A x \in Lines \cup Replies : IsKill(x[1]) \/ IsLater(x[1]) => bin = "new"
    /\ proxy = "old" =>
         /\ \A w \in Replies : ~IsKill(w[1]) /\ ~IsLater(w[1])
         /\ \A j \in 1 .. Len(typed) :
              IsLater(typed[j][1]) => \E i \in 1 .. Len(typed) : i < j /\ IsKill(typed[i][1])
         /\ pc \in {"done"} \cup Later \/ (pc = "kill" /\ Waits) => \E l \in Lines : IsKill(l[1])
    /\ rows["md5"] = "pass" => bin = "new" /\ proxy # "old"

\* Before a boot nothing is under way and no row has a verdict.
Clean ==
  pc \in {"catch", "boot"} =>
    Lines = {} /\ Replies = {} /\ \A r \in RowNames : rows[r] = "not asked"

Asked ==
  /\ pc \in RowsAsked \ {"image", "md5"} => rows["md5"] \in {"pass", "fail"}
  /\ pc \in RowsAsked \ {"image"} /\ program # "swap" => rows["image"] \in {"pass", "fail"}
  /\ pc = "done" /\ program \in {"swap", "check", "reboot", "ram"} =>
       \/ rows["shell"] = "fail"
       \/ rows["md5"] \in {"pass", "fail"} /\ (program # "swap" => rows["image"] \in {"pass", "fail"})

\* The rows of the boot text are all good only after a good boot, or a hang.
BootSeen ==
  program \in {"reboot", "ram"} /\ pc \in {"shell", "done"} \cup RowsAsked
  /\ (\A r \in BootRows : rows[r] # "fail") =>
    /\ wrong \subseteq {"hung", "size", "fallback"}
    /\ wrong # {} => "hung" \in wrong /\ (program = "ram" => facts.image = facts.card)

SoakSeen ==
  program \in Soaks =>
    /\ good => wrong = {} \/ "hung" \in wrong
    /\ pc \in {"kick", "watch"} => count < MaxBoots
    /\ pc \in Crashed => ~good
    /\ pc = "summary" /\ good => count = MaxBoots
    /\ pc = "done" => good /\ count = MaxBoots

IInv ==
  LinkInv /\ Typed /\ Sync /\ Truths /\ KillFirst /\ Clean /\ RowsAreTrue /\ Asked /\ BootSeen /\ SoakSeen

-----------------------------------------------------------------------------
LEMMA QuestionsAre ==
  /\ Len(Questions) = 8
  /\ Questions[1] = "image" /\ Questions[2] = "md5" /\ Questions[3] = "one proxy"
  /\ Questions[4] = "watchdog" /\ Questions[5] = "path" /\ Questions[6] = "pstore"
  /\ Questions[7] = "log" /\ Questions[8] = "speed"
  BY DEF Questions

LEMMA StepsAre ==
  Steps = Marked \cup RowsAsked \cup
    {"login", "before", "install", "kill", "after", "shell", "log in", "ls", "cat", "clear"}
<1>1. {Questions[i] : i \in 1 .. Len(Questions)} = RowsAsked
  <2>1. \A i \in 1 .. 8 : Questions[i] \in RowsAsked
    <3> SUFFICES ASSUME NEW i \in 1 .. 8 PROVE Questions[i] \in RowsAsked
      OBVIOUS
    <3>1. i = 1 \/ i = 2 \/ i = 3 \/ i = 4 \/ i = 5 \/ i = 6 \/ i = 7 \/ i = 8
      OBVIOUS
    <3> QED
      BY <3>1, QuestionsAre DEF RowsAsked
  <2>2. ASSUME NEW r \in RowsAsked PROVE \E i \in 1 .. 8 : r = Questions[i]
    <3>1. 1 \in 1 .. 8 /\ 2 \in 1 .. 8 /\ 3 \in 1 .. 8 /\ 4 \in 1 .. 8
          /\ 5 \in 1 .. 8 /\ 6 \in 1 .. 8 /\ 7 \in 1 .. 8 /\ 8 \in 1 .. 8
      OBVIOUS
    <3>2. \/ r = Questions[1] \/ r = Questions[2] \/ r = Questions[3] \/ r = Questions[4]
          \/ r = Questions[5] \/ r = Questions[6] \/ r = Questions[7] \/ r = Questions[8]
      BY QuestionsAre DEF RowsAsked
    <3> QED
      BY <3>1, <3>2
  <2> QED
    BY <2>1, <2>2, QuestionsAre
<1> QED
  BY <1>1 DEF Steps

LEMMA LineIs ==
  ASSUME Typed, pc \in Steps
  PROVE  /\ Line \in Cmds /\ Line[1] = pc
         /\ pc \notin {"chunk", "cat"} => Line = <<pc>>
<1>1. CASE pc = "chunk"
  BY <1>1 DEF Line, Cmds, Typed
<1>2. CASE pc = "cat"
  <2>1. Record \in left
    BY <1>2 DEF Typed, Record
  <2> QED
    BY <1>2, <2>1 DEF Line, Cmds, Typed
<1>3. CASE pc \notin {"chunk", "cat"}
  BY <1>3 DEF Line, Cmds
<1> QED
  BY <1>1, <1>2, <1>3

LEMMA TextsAre ==
  ASSUME NEW x \in Texts
  PROVE  /\ x # None
         /\ Count(x) \in Nat /\ Names(x) \subseteq Records
<1>1. CASE x \in Words \X {0}
  <2>1. PICK v \in Words : x = <<v, 0>>
    BY <1>1
  <2>2. v # "none" /\ v # "count" /\ v # "names"
    BY DEF Words
  <2> QED
    BY <2>1, <2>2 DEF None, Count, Names
<1>2. CASE x \in {"count"} \X Nat
  BY <1>2 DEF None, Count, Names
<1>3. CASE x \in {"speed"} \X {12, 480}
  BY <1>3 DEF None, Count, Names
<1>4. CASE x \in {"names"} \X SUBSET Records
  BY <1>4 DEF None, Count, Names
<1> QED
  BY <1>1, <1>2, <1>3, <1>4 DEF Texts

LEMMA CountsAre ==
  ASSUME LinkInv, NEW a, a = None \/ \E w \in Replies : a = w[3]
  PROVE  Count(a) \in Nat /\ Names(a) \subseteq Records
<1>1. CASE a = None
  BY <1>1 DEF None, Count, Names
<1>2. CASE \E w \in Replies : a = w[3]
  BY <1>2, LineSets, TextsAre DEF LinkInv
<1> QED
  BY <1>1, <1>2

(***************************************************************************)
(* A step types its line.                                                  *)
(***************************************************************************)
LEMMA TypeStep == ASSUME IInv, Type PROVE IInv'
<1>1. UNCHANGED <<script, board>> /\ pc \in Steps /\ ~Waits
  BY StepsAre DEF Type, Ask, AskMarked, AskNumbered
<1>2. PICK mark \in Marks : /\ Ask(Line, mark) /\ (mark # "K0" => mark \in Fresh)
                            /\ mark = "K0" <=> pc \in Marked
  BY ConsoleAssumption DEF Type, AskMarked, AskNumbered, Marks, Fresh
<1>3. Line \in Cmds /\ Line[1] = pc /\ (pc \notin {"chunk", "cat"} => Line = <<pc>>)
  BY <1>1, LineIs DEF IInv
<1>4. /\ LinkInv' /\ Waits' /\ asked' = <<Line, mark>>
      /\ Lines' = Lines \cup {asked'} /\ Replies' = {}
      /\ Len(typed) \in Nat /\ Len(typed') = Len(typed) + 1
      /\ \A i \in 1 .. Len(typed) : typed'[i] = typed[i]
      /\ typed'[Len(typed) + 1] = asked'
  BY <1>2, <1>3, AskLink DEF IInv
<1>5. Sync'
  <2>1. Line' = Line
    BY <1>1 DEF Line, Record, script
  <2> QED
    BY <1>1, <1>2, <1>4, <2>1 DEF Sync, script
<1>6. KillFirst'
  <2> SUFFICES ASSUME program = "swap" PROVE KillFirst'
    BY <1>1 DEF KillFirst, script
  <2>1. pc' = pc /\ bin' = bin /\ proxy' = proxy /\ rows' = rows
    BY <1>1 DEF script, board
  <2>2. IsKill(Line) <=> pc = "kill"
    BY <1>3 DEF IsKill
  <2>3. IsLater(Line) <=> pc \in Later
    BY <1>3 DEF IsLater
  <2>4. \A x \in Lines' \cup Replies' : IsKill(x[1]) \/ IsLater(x[1]) => bin' = "new"
    BY <1>4, <2>1, <2>2, <2>3 DEF IInv, KillFirst
  <2>5. ASSUME proxy = "old", pc \in {"done"} \cup Later \/ pc = "kill"
        PROVE  \E l \in Lines' : IsKill(l[1])
    BY <1>4, <2>2, <2>5 DEF IInv, KillFirst
  <2>6. ASSUME proxy = "old", NEW j \in 1 .. Len(typed'), IsLater(typed'[j][1])
        PROVE  \E i \in 1 .. Len(typed') : i < j /\ IsKill(typed'[i][1])
    <3>1. CASE j \in 1 .. Len(typed)
      <4>1. PICK i \in 1 .. Len(typed) : i < j /\ IsKill(typed[i][1])
        BY <1>4, <2>6, <3>1 DEF IInv, KillFirst
      <4> QED
        BY <1>4, <4>1
    <3>2. CASE j = Len(typed) + 1
      <4>1. pc \in Later
        BY <1>4, <2>3, <2>6, <3>2
      <4>2. PICK l \in Lines : IsKill(l[1])
        BY <2>6, <4>1 DEF IInv, KillFirst
      <4>3. PICK i \in 1 .. Len(typed) : typed[i] = l
        BY DEF Lines
      <4> QED
        BY <1>4, <3>2, <4>2, <4>3
    <3> QED
      BY <1>4, <3>1, <3>2
  <2> QED
    BY <1>4, <2>1, <2>4, <2>5, <2>6 DEF IInv, KillFirst
<1>7. pc \notin {"catch", "boot"}
  BY <1>1, StepsAre DEF Marked, RowsAsked
<1>8. Typed' /\ RowsAreTrue' /\ Clean'
  <2>1. Typed'
    BY <1>1 DEF IInv, Typed, script, board, soak
  <2>2. RowsAreTrue'
    BY <1>1 DEF IInv, RowsAreTrue, script, board
  <2>3. Clean'
    BY <1>1, <1>7 DEF Clean, script
  <2> QED
    BY <2>1, <2>2, <2>3
<1>9. Asked' /\ BootSeen' /\ SoakSeen'
  BY <1>1 DEF IInv, Asked, BootSeen, SoakSeen, script, board, soak
<1> QED
  BY <1>4, <1>5, <1>6, <1>8, <1>9 DEF IInv, Truths

(***************************************************************************)
(* What hearing an answer, or none, leaves as it is.                       *)
(***************************************************************************)
LEMMA Hears ==
  ASSUME IInv, NEW a, Reply(a), UNCHANGED <<program, board>>
  PROVE  /\ LinkInv' /\ Sync' /\ Truths' /\ ~Waits' /\ Waits
         /\ typed' = typed /\ Lines' = Lines /\ Replies' \subseteq Replies
         /\ pc \in Steps /\ asked[1] = Line
         /\ Count(a) \in Nat /\ Names(a) \subseteq Records
         /\ \/ a = None
            \/ \E w \in Replies : a = w[3] /\ (pc \notin Marked => w[1] = Line)
<1>1. /\ LinkInv' /\ Waits /\ ~Waits'
      /\ typed' = typed /\ Lines' = Lines /\ Replies' \subseteq Replies
      /\ \/ a = None
         \/ \E w \in Replies : a = w[3] /\ (asked[2] # "K0" => w[1] = asked[1])
  BY ReplyLink DEF IInv
<1>2. pc \in Steps /\ asked[1] = Line /\ (asked[2] = "K0" <=> pc \in Marked)
  BY <1>1 DEF IInv, Sync
<1>3. Count(a) \in Nat /\ Names(a) \subseteq Records
  BY <1>1, CountsAre DEF IInv
<1>4. Sync'
  BY <1>1 DEF Sync
<1>5. Truths'
  <2>1. Truth("image")' = Truth("image") /\ Truth("watchdog")' = Truth("watchdog")
        /\ Truth("speed")' = Truth("speed") /\ bin' = bin
    BY DEF Truth, board
  <2> QED
    BY <1>1, <2>1 DEF IInv, Truths
<1> QED
  BY <1>1, <1>2, <1>3, <1>4, <1>5

LEMMA KillKeeps ==
  ASSUME IInv, program' = "swap" => program = "swap", UNCHANGED <<typed, bin, proxy>>,
         Lines' = Lines, Replies' \subseteq Replies, Waits, ~Waits',
         program = "swap" =>
           /\ pc' \in {"kill", "done"} \cup Later => bin = "new"
           /\ pc' \in {"done"} \cup Later => pc \in {"kill", "done"} \cup Later
           /\ rows'["md5"] = "pass" => bin = "new" /\ proxy # "old"
  PROVE  KillFirst'
<1> SUFFICES ASSUME program' = "swap" PROVE KillFirst'
  BY DEF KillFirst
<1>1. \A x \in Lines' \cup Replies' : IsKill(x[1]) \/ IsLater(x[1]) => bin' = "new"
  BY DEF IInv, KillFirst
<1>2. ASSUME proxy = "old", pc' \in {"done"} \cup Later
      PROVE  \E l \in Lines' : IsKill(l[1])
  BY <1>2 DEF IInv, KillFirst
<1> QED
  BY <1>1, <1>2 DEF IInv, KillFirst

LEMMA PcSets ==
  ASSUME NEW p
  PROVE  /\ p = "swap" => PcOf(p) = Upload \cup Later \cup {"done", "failed"}
         /\ p = "check" => PcOf(p) = {"shell", "done"} \cup RowsAsked
         /\ p \in Boots => PcOf(p) = {"catch", "boot", "shell", "done", "failed"} \cup RowsAsked
         /\ p \in Soaks => PcOf(p) = {"kick", "watch", "summary", "done", "failed"} \cup Crashed
<1>1. ASSUME p = "swap" PROVE PcOf(p) = Upload \cup Later \cup {"done", "failed"}
  BY <1>1 DEF PcOf, Boots, Soaks
<1>2. ASSUME p = "check" PROVE PcOf(p) = {"shell", "done"} \cup RowsAsked
  BY <1>2 DEF PcOf, Boots, Soaks
<1>3. ASSUME p \in Boots
      PROVE  PcOf(p) = {"catch", "boot", "shell", "done", "failed"} \cup RowsAsked
  <2>1. p \notin {"swap", "check", "none"} \cup Soaks
    BY <1>3 DEF Boots, Soaks
  <2> QED
    BY <1>3, <2>1 DEF PcOf
<1>4. ASSUME p \in Soaks
      PROVE  PcOf(p) = {"kick", "watch", "summary", "done", "failed"} \cup Crashed
  <2>1. p \notin {"swap", "check", "none"} \cup Boots
    BY <1>4 DEF Boots, Soaks
  <2> QED
    BY <1>4, <2>1 DEF PcOf
<1> QED
  BY <1>1, <1>2, <1>3, <1>4

LEMMA Wheres ==
  ASSUME Typed
  PROVE  /\ pc \in Upload \cup {"after"} => program = "swap"
         /\ pc \in {"kick", "watch", "summary"} \cup Crashed => program \in Soaks
         /\ pc \in {"catch", "boot"} => program \in Boots
         /\ pc \in {"shell"} \cup RowsAsked => program \in {"swap", "check"} \cup Boots
<1>1. program \in Programs /\ pc \in PcOf(program)
  BY DEF Typed
<1>2. CASE program = "swap"
  BY <1>1, <1>2 DEF PcOf, Soaks, Boots, Crashed, Upload, Marked, Later, RowsAsked
<1>3. CASE program = "check"
  BY <1>1, <1>3 DEF PcOf, Soaks, Boots, Crashed, Upload, Marked, RowsAsked
<1>4. CASE program \in Boots
  BY <1>1, <1>4 DEF PcOf, Soaks, Boots, Crashed, Upload, Marked, RowsAsked
<1>5. CASE program \in Soaks
  BY <1>1, <1>5 DEF PcOf, Soaks, Boots, Crashed, Upload, Marked, RowsAsked
<1>6. CASE program = "none"
  BY <1>1, <1>6 DEF PcOf, Soaks, Boots, Crashed, Upload, Marked, RowsAsked
<1> QED
  BY <1>1, <1>2, <1>3, <1>4, <1>5, <1>6 DEF Programs

LEMMA SwapMoves ==
  ASSUME IInv,
         \/ Sanity \/ Remove \/ Quiet \/ SendChunk \/ Loud \/ ShowSum \/ Login
         \/ Before \/ Install \/ Kill \/ After
  PROVE  \E a :
           /\ Reply(a) /\ pc \in Upload \cup {"after"} /\ pc' \in Upload \cup {"after", "shell", "failed"}
           /\ UNCHANGED <<program, soak, board, left, saved>>
           /\ pc' = "kill" => pc = "install" /\ a = <<"new", 0>>
           /\ pc' \in {"after", "shell"} => pc \in {"kill", "after"}
           /\ k' \in 1 .. Chunks + 1 /\ (pc' \in {"sanity", "rm", "quiet", "chunk"} => k' <= Chunks)
           /\ before' \in {before, Count(a)}
           /\ rows' \in {rows} \cup {[rows EXCEPT !["respawned"] = v] : v \in {"pass", "fail"}}
<1> USE DEF Step, OrFail, Alone, NotK, NotBefore, NotRows, Upload, Marked
<1>0. k \in 1 .. Chunks + 1 /\ (pc \in {"sanity", "rm", "quiet", "chunk"} => k <= Chunks) /\ Chunks \in Nat
  BY SessionsAssumption DEF IInv, Typed
<1>1. CASE Sanity
  BY <1>0, <1>1 DEF Sanity
<1>2. CASE Remove
  BY <1>0, <1>2 DEF Remove
<1>3. CASE Quiet
  BY <1>0, <1>3 DEF Quiet
<1>4. CASE SendChunk
  BY <1>0, <1>4 DEF SendChunk, MoreChunks
<1>5. CASE Loud
  BY <1>0, <1>5 DEF Loud
<1>6. CASE ShowSum
  BY <1>0, <1>6 DEF ShowSum
<1>7. CASE Login
  BY <1>0, <1>7 DEF Login
<1>8. CASE Before
  BY <1>0, <1>8 DEF Before
<1>9. CASE Install
  BY <1>0, <1>9 DEF Install, OnceInstalled
<1>10. CASE Kill
  BY <1>0, <1>10 DEF Kill
<1>11. CASE After
  BY <1>0, <1>11 DEF After
<1> QED
  BY <1>1, <1>2, <1>3, <1>4, <1>5, <1>6, <1>7, <1>8, <1>9, <1>10, <1>11

LEMMA SwapStep ==
  ASSUME IInv,
         \/ Sanity \/ Remove \/ Quiet \/ SendChunk \/ Loud \/ ShowSum \/ Login
         \/ Before \/ Install \/ Kill \/ After
  PROVE  IInv'
<1>1. PICK a :
        /\ Reply(a) /\ pc \in Upload \cup {"after"} /\ pc' \in Upload \cup {"after", "shell", "failed"}
        /\ UNCHANGED <<program, soak, board, left, saved>>
        /\ pc' = "kill" => pc = "install" /\ a = <<"new", 0>>
        /\ pc' \in {"after", "shell"} => pc \in {"kill", "after"}
        /\ k' \in 1 .. Chunks + 1 /\ (pc' \in {"sanity", "rm", "quiet", "chunk"} => k' <= Chunks)
        /\ before' \in {before, Count(a)}
        /\ rows' \in {rows} \cup {[rows EXCEPT !["respawned"] = v] : v \in {"pass", "fail"}}
  BY SwapMoves
<1>2. /\ LinkInv' /\ Sync' /\ Truths' /\ ~Waits' /\ Waits
      /\ typed' = typed /\ Lines' = Lines /\ Replies' \subseteq Replies
      /\ Count(a) \in Nat
      /\ \/ a = None
         \/ \E w \in Replies : a = w[3] /\ (pc \notin Marked => w[1] = Line)
  BY <1>1, Hears
<1>3. program = "swap" /\ program' = "swap"
  BY <1>1, Wheres DEF IInv
<1>4. pc' \in PcOf("swap") /\ pc' \notin {"cat", "done", "catch", "boot"} \cup RowsAsked
  <2>1. pc' \in Upload \cup Later \cup {"done", "failed"}
    BY <1>1 DEF Later
  <2>2. pc' \in PcOf("swap")
    BY <2>1, PcSets
  <2>3. pc' \notin {"cat", "done", "catch", "boot"} \cup RowsAsked
    BY <1>1 DEF Upload, Marked, RowsAsked
  <2> QED
    BY <2>2, <2>3
<1>5. rows' \in [RowNames -> Verdicts] /\ \A r \in RowNames \ {"respawned"} : rows'[r] = rows[r]
  BY <1>1 DEF IInv, Typed, Verdicts
<1>6. Typed'
  BY <1>1, <1>2, <1>3, <1>4, <1>5 DEF IInv, Typed, board, soak
<1>7. RowsAreTrue'
  BY <1>1, <1>5 DEF IInv, RowsAreTrue, RowNames, board
<1>8. pc' = "kill" => bin = "new"
  <2> SUFFICES ASSUME pc' = "kill" PROVE bin = "new"
    OBVIOUS
  <2>1. pc = "install" /\ a = <<"new", 0>>
    BY <1>1
  <2>2. a # None /\ Line = <<"install">> /\ pc \notin Marked
    BY <2>1 DEF None, Line, Marked
  <2> QED
    BY <1>2, <2>1, <2>2 DEF IInv, Truths
<1>9. pc' \in {"after", "shell"} => bin = "new" /\ pc \in {"kill"} \cup Later
  BY <1>1, <1>3 DEF IInv, KillFirst, Later
<1>10. KillFirst'
  <2>1. rows'["md5"] = rows["md5"]
    BY <1>5 DEF RowNames
  <2>2. pc' \in {"kill", "done"} \cup Later => bin = "new"
    BY <1>1, <1>4, <1>8, <1>9 DEF Later
  <2>3. pc' \in {"done"} \cup Later => pc \in {"kill", "done"} \cup Later
    BY <1>4, <1>9 DEF Later
  <2>4. rows["md5"] = "pass" => bin = "new" /\ proxy # "old"
    BY <1>3 DEF IInv, KillFirst
  <2> QED
    BY <1>1, <1>2, <1>3, <2>1, <2>2, <2>3, <2>4, KillKeeps DEF board
<1>11. Clean' /\ Asked' /\ BootSeen' /\ SoakSeen'
  BY <1>3, <1>4 DEF Clean, Asked, BootSeen, SoakSeen, Soaks
<1> QED
  BY <1>2, <1>6, <1>7, <1>10, <1>11 DEF IInv

-----------------------------------------------------------------------------
(***************************************************************************)
(* The rows of a check.                                                    *)
(***************************************************************************)
LEMMA Grades ==
  ASSUME NEW q \in RowsAsked, NEW a
  PROVE  /\ Graded(q, a) \in {"pass", "fail", "skip"}
         /\ q = "md5" => Graded(q, a) \in {"pass", "fail"}
         /\ q = "image" /\ program # "swap" => Graded(q, a) \in {"pass", "fail"}
         /\ q \in {"image", "md5"} /\ Graded(q, a) = "pass" => a = <<"new", 0>>
         /\ q = "watchdog" /\ Graded(q, a) = "pass" => a = <<"armed", 0>>
         /\ q = "speed" /\ Graded(q, a) = "pass" => a[1] = "speed" /\ a[2] = 480
<1>1. CASE q = "image"
  <2>1. CASE program = "swap"
    BY <1>1, <2>1 DEF Graded
  <2>2. CASE program # "swap"
    BY <1>1, <2>2 DEF Graded
  <2> QED
    BY <2>1, <2>2
<1>2. CASE q = "md5"
  BY <1>2 DEF Graded
<1>3. CASE q = "one proxy"
  BY <1>3 DEF Graded
<1>4. CASE q = "watchdog"
  BY <1>4 DEF Graded, SaidArmed
<1>5. CASE q = "path"
  BY <1>5 DEF Graded
<1>6. CASE q = "pstore"
  BY <1>6 DEF Graded
<1>7. CASE q = "log"
  BY <1>7 DEF Graded
<1>8. CASE q = "speed"
  BY <1>8 DEF Graded
<1> QED
  BY <1>1, <1>2, <1>3, <1>4, <1>5, <1>6, <1>7, <1>8 DEF RowsAsked

LEMMA RowMoves ==
  ASSUME AskRow
  PROVE  \E a :
           /\ Reply(a) /\ pc \in RowsAsked /\ UNCHANGED <<program, soak, board, k, before, left, saved>>
           /\ rows' = [rows EXCEPT ![pc] = Graded(pc, a)]
           /\ pc' \in {"done"} \cup (RowsAsked \ {"image"})
           /\ pc' = "md5" => pc = "image"
           /\ pc' \notin {"image", "md5"} => pc # "image"
<1>1. PICK i \in 1 .. Len(Questions), a \in Said \cup {None} :
        /\ Step(Questions[i], a, IF i = Len(Questions) THEN "done" ELSE Questions[i + 1], NotRows)
        /\ rows' = [rows EXCEPT ![Questions[i]] = Graded(Questions[i], a)]
  BY DEF AskRow
<1>2. /\ Reply(a) /\ pc = Questions[i] /\ UNCHANGED <<program, soak, board, k, before, left, saved>>
      /\ pc' = IF i = 8 THEN "done" ELSE Questions[i + 1]
  BY <1>1, QuestionsAre DEF Step, NotRows
<1>3. i = 1 \/ i = 2 \/ i = 3 \/ i = 4 \/ i = 5 \/ i = 6 \/ i = 7 \/ i = 8
  <2>1. Len(Questions) = 8
    BY QuestionsAre
  <2>2. i \in 1 .. 8
    BY <2>1
  <2> QED
    BY <2>2
<1>4. <<pc, pc'>> \in
        {<<"image", "md5">>, <<"md5", "one proxy">>, <<"one proxy", "watchdog">>,
         <<"watchdog", "path">>, <<"path", "pstore">>, <<"pstore", "log">>,
         <<"log", "speed">>, <<"speed", "done">>}
  <2>1. 1 + 1 = 2 /\ 2 + 1 = 3 /\ 3 + 1 = 4 /\ 4 + 1 = 5 /\ 5 + 1 = 6 /\ 6 + 1 = 7 /\ 7 + 1 = 8
    OBVIOUS
  <2>2. pc = Questions[i] /\ pc' = IF i = 8 THEN "done" ELSE Questions[i + 1]
    BY <1>2
  <2> QED
    BY <1>3, <2>1, <2>2, QuestionsAre
<1>5. /\ pc \in RowsAsked /\ pc' \in {"done"} \cup (RowsAsked \ {"image"})
      /\ pc' = "md5" => pc = "image"
      /\ pc' \notin {"image", "md5"} => pc # "image"
  BY <1>4 DEF RowsAsked
<1> QED
  BY <1>1, <1>2, <1>5

LEMMA TrueAnswers ==
  ASSUME IInv, NEW a, pc \in RowsAsked,
         a = None \/ \E w \in Replies : a = w[3] /\ (pc \notin Marked => w[1] = Line)
  PROVE  /\ pc \in {"image", "watchdog", "speed"} /\ a # None => a = Truth(pc)
         /\ pc = "md5" /\ a = <<"new", 0>> => bin = "new" /\ (program = "swap" => proxy # "old")
<1>1. pc \notin Marked /\ Line = <<pc>>
  BY DEF RowsAsked, Marked, Line
<1>2. ASSUME a # None PROVE \E w \in Replies : a = w[3] /\ w[1] = <<pc>>
  BY <1>1, <1>2
<1>3. ASSUME pc \in {"image", "watchdog", "speed"}, a # None PROVE a = Truth(pc)
  BY <1>2, <1>3 DEF IInv, Truths
<1>4. ASSUME pc = "md5", a = <<"new", 0>>
      PROVE  bin = "new" /\ (program = "swap" => proxy # "old")
  <2>1. PICK w \in Replies : a = w[3] /\ w[1] = <<"md5">>
    BY <1>2, <1>4 DEF None
  <2>2. w[1][1] = "md5" /\ "md5" \in Later
    <3>1. <<"md5">>[1] = "md5"
      OBVIOUS
    <3>2. "md5" \in Later
      BY DEF Later, RowsAsked
    <3> QED
      BY <2>1, <3>1, <3>2
  <2> QED
    BY <1>4, <2>1, <2>2 DEF IInv, Truths, KillFirst, IsLater
<1> QED
  BY <1>3, <1>4

LEMMA AskRowStep == ASSUME IInv, AskRow PROVE IInv'
<1>1. PICK a :
        /\ Reply(a) /\ pc \in RowsAsked /\ UNCHANGED <<program, soak, board, k, before, left, saved>>
        /\ rows' = [rows EXCEPT ![pc] = Graded(pc, a)]
        /\ pc' \in {"done"} \cup (RowsAsked \ {"image"})
        /\ pc' = "md5" => pc = "image"
        /\ pc' \notin {"image", "md5"} => pc # "image"
  BY RowMoves
<1>2. /\ LinkInv' /\ Sync' /\ Truths' /\ ~Waits' /\ Waits
      /\ typed' = typed /\ Lines' = Lines /\ Replies' \subseteq Replies
      /\ \/ a = None
         \/ \E w \in Replies : a = w[3] /\ (pc \notin Marked => w[1] = Line)
  BY <1>1, Hears
<1>3. program \in {"swap", "check"} \cup Boots /\ program' = program
  BY <1>1, Wheres DEF IInv
<1>4. /\ Graded(pc, a) \in {"pass", "fail", "skip"}
      /\ pc = "md5" => Graded(pc, a) \in {"pass", "fail"}
      /\ pc = "image" /\ program # "swap" => Graded(pc, a) \in {"pass", "fail"}
      /\ pc \in {"image", "md5"} /\ Graded(pc, a) = "pass" => a = <<"new", 0>>
      /\ pc = "watchdog" /\ Graded(pc, a) = "pass" => a = <<"armed", 0>>
      /\ pc = "speed" /\ Graded(pc, a) = "pass" => a[1] = "speed" /\ a[2] = 480
  BY <1>1, Grades
<1>5. /\ pc \in {"image", "watchdog", "speed"} /\ a # None => a = Truth(pc)
      /\ pc = "md5" /\ a = <<"new", 0>> => bin = "new" /\ (program = "swap" => proxy # "old")
  BY <1>1, <1>2, TrueAnswers
<1>6. /\ rows' \in [RowNames -> Verdicts]
      /\ \A r \in RowNames : rows'[r] = IF r = pc THEN Graded(pc, a) ELSE rows[r]
  <2>1. rows \in [RowNames -> Verdicts] /\ pc \in RowNames
    BY <1>1 DEF IInv, Typed, RowsAsked, RowNames
  <2>2. Graded(pc, a) \in Verdicts
    BY <1>4 DEF Verdicts
  <2> QED
    BY <1>1, <2>1, <2>2
<1>7. pc' \in PcOf(program)
  <2>1. pc' \in {"done"} \cup RowsAsked /\ RowsAsked \subseteq Later
    BY <1>1 DEF Later
  <2> QED
    BY <1>3, <2>1, PcSets
<1>8. pc' \notin {"cat", "catch", "boot", "sanity", "rm", "quiet", "chunk", "kill", "shell"}
  BY <1>1 DEF RowsAsked
<1>9. Typed'
  BY <1>1, <1>3, <1>6, <1>7, <1>8 DEF IInv, Typed, board, soak
<1>10. RowsAreTrue'
  <2>1. ASSUME pc = "image", Graded(pc, a) = "pass" PROVE facts.image = "new"
    <3>1. a # None /\ a = <<"new", 0>>
      BY <1>4, <2>1 DEF None
    <3> QED
      BY <1>5, <2>1, <3>1 DEF Truth
  <2>2. ASSUME pc = "watchdog", Graded(pc, a) = "pass" PROVE facts.armed
    <3>1. a # None /\ a = <<"armed", 0>>
      BY <1>4, <2>2 DEF None
    <3> QED
      BY <1>5, <2>2, <3>1 DEF Truth
  <2>3. ASSUME pc = "speed", Graded(pc, a) = "pass" PROVE facts.speed = 480
    <3>1. a # None /\ a[1] = "speed" /\ a[2] = 480
      BY <1>4, <2>3 DEF None
    <3>2. a = IF facts.speed = 0 THEN <<"no device", 0>> ELSE <<"speed", facts.speed>>
      BY <1>5, <2>3, <3>1 DEF Truth
    <3>3. facts.speed # 0
      BY <3>1, <3>2
    <3> QED
      BY <3>1, <3>2, <3>3
  <2>4. facts' = facts /\ bin' = bin /\ {"image", "md5", "watchdog", "speed"} \subseteq RowNames
    BY <1>1 DEF board, RowNames
  <2>5. rows'["image"] = "pass" => facts'.image = "new"
    BY <1>6, <2>1, <2>4 DEF IInv, RowsAreTrue
  <2>6. rows'["md5"] = "pass" => bin' = "new"
    BY <1>4, <1>5, <1>6, <2>4 DEF IInv, RowsAreTrue
  <2>7. rows'["watchdog"] = "pass" => facts'.armed
    BY <1>6, <2>2, <2>4 DEF IInv, RowsAreTrue
  <2>8. rows'["speed"] = "pass" => facts'.speed = 480
    BY <1>6, <2>3, <2>4 DEF IInv, RowsAreTrue
  <2> QED
    BY <2>5, <2>6, <2>7, <2>8 DEF RowsAreTrue
<1>11. KillFirst'
  <2>1. pc \in Later
    BY <1>1 DEF Later
  <2>2. "md5" \in RowNames
    BY DEF RowNames
  <2>3. program = "swap" => bin = "new" /\ (rows'["md5"] = "pass" => proxy # "old")
    BY <1>4, <1>5, <1>6, <2>1, <2>2 DEF IInv, KillFirst
  <2> QED
    BY <1>1, <1>2, <2>1, <2>3, KillKeeps DEF board
<1>12. Asked'
  <2>1. {"md5", "image", "shell"} \subseteq RowNames /\ "shell" \notin RowsAsked
    BY DEF RowNames, RowsAsked
  <2>2. pc' \notin {"image", "md5"} => rows'["md5"] \in {"pass", "fail"}
    BY <1>1, <1>4, <1>6, <2>1 DEF IInv, Asked
  <2>3. program # "swap" => rows'["image"] \in {"pass", "fail"}
    BY <1>1, <1>4, <1>6, <2>1 DEF IInv, Asked
  <2> QED
    BY <1>1, <1>3, <2>2, <2>3 DEF Asked
<1>13. BootSeen'
  <2>1. \A r \in BootRows : r \in RowNames /\ r # pc
    BY <1>1 DEF BootRows, RowNames, RowsAsked
  <2>2. \A r \in BootRows : rows'[r] = rows[r]
    BY <1>6, <2>1
  <2> QED
    BY <1>1, <2>2 DEF IInv, BootSeen, soak, board
<1>14. Clean' /\ SoakSeen'
  BY <1>3, <1>8 DEF Clean, SoakSeen, Soaks, Boots
<1> QED
  BY <1>2, <1>9, <1>10, <1>11, <1>12, <1>13, <1>14 DEF IInv

LEMMA ShellStep == ASSUME IInv, Shell PROVE IInv'
<1>1. PICK a :
        /\ Reply(a) /\ pc = "shell" /\ pc' = (IF a = None THEN "done" ELSE "image")
        /\ UNCHANGED <<program, soak, board, k, before, left, saved>>
        /\ rows' = [rows EXCEPT !["shell"] = IF a = None THEN "fail" ELSE "pass"]
  BY QuestionsAre DEF Shell, Step, NotRows
<1>2. /\ LinkInv' /\ Sync' /\ Truths' /\ ~Waits' /\ Waits
      /\ typed' = typed /\ Lines' = Lines /\ Replies' \subseteq Replies
  BY <1>1, Hears
<1>3. program \in {"swap", "check"} \cup Boots /\ program' = program
  BY <1>1, Wheres DEF IInv
<1>4. /\ rows' \in [RowNames -> Verdicts]
      /\ \A r \in RowNames \ {"shell"} : rows'[r] = rows[r]
      /\ a = None => rows'["shell"] = "fail"
  <2>1. rows \in [RowNames -> Verdicts] /\ "shell" \in RowNames
    BY DEF IInv, Typed, RowNames
  <2> QED
    BY <1>1, <2>1 DEF Verdicts
<1>5. pc' \in PcOf(program)
  <2>1. pc' \in {"done"} \cup RowsAsked /\ RowsAsked \subseteq Later
    BY <1>1 DEF Later, RowsAsked
  <2> QED
    BY <1>3, <2>1, PcSets
<1>6. Typed'
  BY <1>1, <1>3, <1>4, <1>5 DEF IInv, Typed, board, soak
<1>7. RowsAreTrue'
  <2>1. \A r \in {"image", "md5", "watchdog", "speed"} : rows'[r] = rows[r]
    BY <1>4 DEF RowNames
  <2> QED
    BY <1>1, <2>1 DEF IInv, RowsAreTrue, board
<1>8. KillFirst'
  <2>1. pc \in Later /\ rows'["md5"] = rows["md5"]
    BY <1>1, <1>4 DEF Later, RowNames
  <2> QED
    BY <1>1, <1>2, <2>1, KillKeeps DEF IInv, KillFirst, board
<1>9. BootSeen'
  <2>1. \A r \in BootRows : rows'[r] = rows[r]
    BY <1>4 DEF BootRows, RowNames
  <2> QED
    BY <1>1, <2>1 DEF IInv, BootSeen, soak, board
<1>10. Asked'
  <2>1. pc' \in {"done", "image"} /\ (pc' = "done" => rows'["shell"] = "fail")
    BY <1>1, <1>4
  <2>2. "done" \notin RowsAsked
    BY DEF RowsAsked
  <2> QED
    BY <2>1, <2>2 DEF Asked
<1>11. Clean' /\ SoakSeen'
  BY <1>1, <1>3 DEF Clean, SoakSeen, Soaks, Boots
<1> QED
  BY <1>2, <1>6, <1>7, <1>8, <1>9, <1>10, <1>11 DEF IInv

-----------------------------------------------------------------------------
(***************************************************************************)
(* The soak: it saves the crash records, and grades boots.                 *)
(***************************************************************************)
LEMMA OnwardIs ==
  ASSUME NEW n \in 0 .. MaxBoots
  PROVE  /\ Onward(n) \in {"kick", "summary"}
         /\ Onward(n) = "kick" => n < MaxBoots
         /\ Onward(n) = "summary" => n = MaxBoots
  BY SessionsAssumption DEF Onward

LEMMA SaveMoves ==
  ASSUME IInv, OpenShell \/ List \/ Copy \/ ClearRecords
  PROVE  \E a :
           /\ Reply(a) /\ pc \in {"log in", "ls", "cat", "clear"}
           /\ pc' \in {"ls", "cat", "clear", Onward(count)}
           /\ UNCHANGED <<program, soak, board, k, before, rows>>
           /\ left' \subseteq Records /\ saved' \subseteq Records
           /\ pc' = "cat" => left' # {}
<1> USE DEF Step, Alone
<1>0. left \subseteq Records /\ saved \subseteq Records /\ (pc = "cat" => Record \in left)
  BY DEF IInv, Typed, Record
<1>1. CASE OpenShell
  BY <1>0, <1>1 DEF OpenShell, Onward
<1>2. CASE List
  <2>1. PICK a : Reply(a) /\ left' = Names(a) /\ pc = "ls"
                 /\ pc' = (IF left' = {} THEN Onward(count) ELSE "cat")
                 /\ UNCHANGED <<program, soak, board, k, before, rows, saved>>
    BY <1>2 DEF List
  <2>2. Names(a) \subseteq Records
    BY <2>1, Hears
  <2>3. pc' \in {"cat", Onward(count)} /\ (pc' = "cat" => left' # {})
    BY <2>1, OnwardIs DEF Onward
  <2> QED
    BY <1>0, <2>1, <2>2, <2>3
<1>3. CASE Copy
  BY <1>0, <1>3 DEF Copy
<1>4. CASE ClearRecords
  BY <1>0, <1>4 DEF ClearRecords, Onward
<1> QED
  BY <1>1, <1>2, <1>3, <1>4

\* Of a soak only this much is left to show.
LEMMA SoakOnly ==
  ASSUME IInv, LinkInv', Sync', Truths', Typed', SoakSeen',
         program \in Soaks, UNCHANGED <<program, facts, bin, rows>>,
         pc' \notin {"catch", "boot"} \cup RowsAsked
  PROVE  IInv'
<1>1. program' \notin {"swap", "check", "reboot", "ram"}
  BY DEF Soaks
<1>2. RowsAreTrue'
  BY DEF IInv, RowsAreTrue
<1> QED
  BY <1>1, <1>2 DEF IInv, KillFirst, Clean, Asked, BootSeen

LEMMA SaveStep ==
  ASSUME IInv, OpenShell \/ List \/ Copy \/ ClearRecords
  PROVE  IInv'
<1>1. PICK a :
        /\ Reply(a) /\ pc \in {"log in", "ls", "cat", "clear"}
        /\ pc' \in {"ls", "cat", "clear", Onward(count)}
        /\ UNCHANGED <<program, soak, board, k, before, rows>>
        /\ left' \subseteq Records /\ saved' \subseteq Records
        /\ pc' = "cat" => left' # {}
  BY SaveMoves
<1>2. LinkInv' /\ Sync' /\ Truths'
  BY <1>1, Hears
<1>3. program \in Soaks /\ pc \in Crashed /\ ~good /\ count \in 0 .. MaxBoots
  BY <1>1, Wheres DEF IInv, Typed, Crashed, SoakSeen
<1>4. pc' \in {"ls", "cat", "clear", "kick", "summary"} /\ (pc' = "kick" => count < MaxBoots)
  BY <1>1, <1>3, OnwardIs
<1>5. pc' \in PcOf(program)
  BY <1>3, <1>4, PcSets DEF Crashed
<1>6. Typed'
  BY <1>1, <1>4, <1>5 DEF IInv, Typed, soak, board
<1>7. SoakSeen'
  BY <1>1, <1>3, <1>4 DEF IInv, SoakSeen, soak
<1> QED
  BY <1>1, <1>2, <1>3, <1>4, <1>6, <1>7, SoakOnly DEF board, RowsAsked

\* With nothing under way, and the script at a step of its own.
LEMMA Quietly ==
  ASSUME IInv, pc \notin Steps, UNCHANGED <<asked, slow, heard>>,
         UNCHANGED <<typed, wire>> \/ (typed' = << >> /\ wire' = << >>),
         UNCHANGED <<facts, bin>> \/ pc \in {"catch", "boot"}
  PROVE  /\ LinkInv' /\ Sync' /\ Truths' /\ ~Waits /\ ~Waits'
         /\ Lines' \subseteq Lines /\ Replies' \subseteq Replies
<1>1. ~Waits /\ ~Waits'
  BY DEF IInv, Sync, Waits
<1>2. LinkInv' /\ Lines' \subseteq Lines /\ Replies' \subseteq Replies
  <2>1. CASE UNCHANGED <<typed, wire>>
    BY <1>1, <2>1 DEF IInv, LinkInv, LinkTyped, Own, AnswerIsOwn, Waits, Lines, Replies
  <2>2. CASE typed' = << >> /\ wire' = << >>
    BY <1>1, <2>2, ClearLink DEF IInv
  <2> QED
    BY <2>1, <2>2
<1>3. Truths'
  <2>1. CASE UNCHANGED <<facts, bin>>
    <3>1. Truth("image")' = Truth("image") /\ Truth("watchdog")' = Truth("watchdog")
          /\ Truth("speed")' = Truth("speed") /\ bin' = bin
      BY <2>1 DEF Truth
    <3> QED
      BY <1>2, <3>1 DEF IInv, Truths
  <2>2. CASE pc \in {"catch", "boot"}
    BY <1>2, <2>2 DEF IInv, Clean, Truths
  <2> QED
    BY <2>1, <2>2
<1> QED
  BY <1>1, <1>2, <1>3 DEF Sync

LEMMA OwnSteps ==
  /\ {"kick", "watch", "follow", "summary", "catch", "boot", "done", "failed"} \cap Steps = {}
  BY StepsAre DEF Marked, RowsAsked

LEMMA KickStep == ASSUME IInv, Kick PROVE IInv'
<1>1. /\ pc = "kick" /\ pc' \in {"watch", "failed"}
      /\ UNCHANGED <<asked, slow, heard, program, k, before, rows, left, saved, soak, board>>
      /\ typed' = << >> /\ wire' = << >>
  BY DEF Kick
<1>2. program \in Soaks
  BY <1>1, Wheres DEF IInv
<1>3. LinkInv' /\ Sync' /\ Truths'
  BY <1>1, OwnSteps, Quietly DEF board
<1>4. Typed'
  BY <1>1, <1>2, PcSets DEF IInv, Typed, soak, board
<1>5. SoakSeen'
  BY <1>1 DEF IInv, SoakSeen, soak, Crashed
<1> QED
  BY <1>1, <1>2, <1>3, <1>4, <1>5, SoakOnly DEF board, RowsAsked

LEMMA SummaryStep == ASSUME IInv, Summary PROVE IInv'
<1>1. /\ pc = "summary" /\ pc' = (IF good THEN "done" ELSE "failed")
      /\ UNCHANGED <<link, program, k, before, rows, left, saved, soak, board>>
  BY DEF Summary
<1>2. program \in Soaks
  BY <1>1, Wheres DEF IInv
<1>3. LinkInv' /\ Sync' /\ Truths'
  BY <1>1, OwnSteps, Quietly DEF board, link
<1>4. Typed'
  BY <1>1, <1>2, PcSets DEF IInv, Typed, soak, board
<1>5. SoakSeen'
  BY <1>1 DEF IInv, SoakSeen, soak, Crashed
<1> QED
  BY <1>1, <1>2, <1>3, <1>4, <1>5, SoakOnly DEF board, RowsAsked

LEMMA OneMoreBoot == ASSUME IInv, Watch PROVE count' \in 0 .. MaxBoots
<1>1. count' = count + 1 /\ pc = "watch"
  BY DEF Watch
<1>2. program \in Soaks
  BY <1>1, Wheres DEF IInv
<1>3. count \in 0 .. MaxBoots /\ count < MaxBoots
  BY <1>1, <1>2 DEF IInv, Typed, SoakSeen
<1>4. MaxBoots \in Nat
  BY SessionsAssumption
<1>5. count' = count + 1
  BY <1>1
<1> QED
  BY <1>3, <1>4, <1>5

LEMMA WatchStep == ASSUME IInv, Watch PROVE IInv'
<1>1. PICK size \in Sizes \cup {"?"}, end \in Ends, what \in SUBSET {"not booted", "hung", "size", "panic", "stuck"} :
        /\ Watched(size, end, what)
        /\ count' = count + 1 /\ good' = (good /\ IsGood(size, end)) /\ wrong' = wrong \cup what
        /\ pc' = CASE end = "stuck" -> "summary" [] end = "panic" -> "follow" [] OTHER -> Onward(count')
        /\ Crashes(end)
  BY DEF Watch
<1>2. /\ pc = "watch"
      /\ UNCHANGED <<link, program, k, before, rows, left, gz, bin, proxy, execs, facts>>
  BY DEF Watch
<1>3. program \in Soaks
  BY <1>2, Wheres DEF IInv
<1>4. LinkInv' /\ Sync' /\ Truths'
  BY <1>2, OwnSteps, Quietly DEF link
<1>5. count' \in 0 .. MaxBoots /\ good' \in BOOLEAN
  <2>1. good' = (good /\ IsGood(size, end))
    BY <1>1
  <2> QED
    BY <2>1, OneMoreBoot
<1>6. saved' \subseteq Records /\ records' \subseteq Records
  BY <1>1 DEF IInv, Typed, Crashes
<1>7. /\ end = "stuck" => pc' = "summary"
      /\ end = "panic" => pc' = "follow"
      /\ end = "login" => pc' = Onward(count')
  BY <1>1
<1>8. end \in {"login", "panic", "stuck"}
  BY DEF Ends
<1>9. pc' \in {"kick", "follow", "summary"} /\ (pc' = "kick" => count' < MaxBoots)
      /\ (end = "login" /\ pc' = "summary" => count' = MaxBoots)
      /\ (pc' = "follow" => end = "panic")
  BY <1>5, <1>7, <1>8, OnwardIs
<1>10. good' => end = "login" /\ (wrong = {} \/ "hung" \in wrong) /\ (what = {} \/ "hung" \in what)
  <2> SUFFICES ASSUME good'
               PROVE  end = "login" /\ (wrong = {} \/ "hung" \in wrong) /\ (what = {} \/ "hung" \in what)
    OBVIOUS
  <2>1. good /\ size = "256" /\ end = "login"
    BY <1>1 DEF IsGood, IInv, Typed
  <2>2. Wrong("256", "login") = {}
    BY DEF Wrong
  <2>3. what = {} \/ "hung" \in what
    <3>1. CASE \E s \in Sizes : size \in {s, IF program = "cold" THEN "?" ELSE s} /\ what = Wrong(s, end)
      BY <2>1, <2>2, <3>1
    <3>2. CASE \E s \in Sizes : size \in Sizes /\ what = {"hung"} \cup Wrong(size, "login") \cup Wrong(s, end)
      BY <3>2
    <3> QED
      BY <1>1, <2>1, <3>1, <3>2 DEF Watched
  <2> QED
    BY <1>3, <2>1, <2>3 DEF IInv, SoakSeen
<1>11. Typed'
  <2>1. pc' \in PcOf(program)
    BY <1>3, <1>9, PcSets DEF Crashed
  <2> QED
    BY <1>2, <1>5, <1>6, <1>9, <2>1 DEF IInv, Typed
<1>12. SoakSeen'
  <2>1. good' => wrong' = {} \/ "hung" \in wrong'
    BY <1>1, <1>10
  <2>2. pc' \in Crashed => ~good'
    BY <1>9, <1>10 DEF Crashed
  <2>3. pc' = "summary" /\ good' => count' = MaxBoots
    BY <1>9, <1>10
  <2> QED
    BY <1>2, <1>9, <2>1, <2>2, <2>3 DEF SoakSeen
<1> QED
  BY <1>2, <1>3, <1>4, <1>9, <1>11, <1>12, SoakOnly DEF RowsAsked

LEMMA FollowStep == ASSUME IInv, Follow PROVE IInv'
<1>1. PICK end \in Ends : Crashes(end) /\ pc' = IF end = "login" THEN "log in" ELSE "summary"
  BY DEF Follow
<1>2. /\ pc = "follow"
      /\ UNCHANGED <<link, program, k, before, rows, left, soak, gz, bin, proxy, execs, facts>>
  BY DEF Follow
<1>3. program \in Soaks /\ ~good
  BY <1>2, Wheres DEF IInv, SoakSeen, Crashed
<1>4. LinkInv' /\ Sync' /\ Truths'
  BY <1>2, StepsAre, Quietly DEF link, Marked, RowsAsked
<1>5. saved' \subseteq Records /\ records' \subseteq Records
  BY <1>1 DEF IInv, Typed, Crashes
<1>6. Typed'
  <2>1. pc' \in PcOf(program)
    BY <1>1, <1>3, PcSets DEF Crashed
  <2> QED
    BY <1>1, <1>2, <1>5, <2>1 DEF IInv, Typed, soak
<1>7. SoakSeen'
  BY <1>1, <1>2, <1>3 DEF IInv, SoakSeen, soak
<1> QED
  BY <1>1, <1>2, <1>3, <1>4, <1>6, <1>7, SoakOnly DEF RowsAsked

-----------------------------------------------------------------------------
(***************************************************************************)
(* The start of a boot, its text, and a second swap.                       *)
(***************************************************************************)
LEMMA CatchStep == ASSUME IInv, CatchPrompt PROVE IInv'
<1>1. /\ pc = "catch" /\ pc' \in {"boot", "failed"} /\ typed' = << >> /\ wire' = << >>
      /\ UNCHANGED <<asked, slow, heard, program, k, before, rows, left, saved, soak, board>>
  BY DEF CatchPrompt
<1>2. program \in Boots /\ program' \notin {"swap", "check"} \cup Soaks
  BY <1>1, Wheres DEF IInv, Boots, Soaks
<1>3. LinkInv' /\ Sync' /\ Truths' /\ ~Waits
  BY <1>1, OwnSteps, Quietly DEF board
<1>4. Lines' = {} /\ Replies' = {}
  BY <1>1, <1>3, ClearLink DEF IInv
<1>5. Typed'
  BY <1>1, <1>2, PcSets DEF IInv, Typed, soak, board
<1>6. RowsAreTrue' /\ Clean'
  <2>1. RowsAreTrue'
    BY <1>1 DEF IInv, RowsAreTrue, board
  <2>2. Clean'
    BY <1>1, <1>4 DEF IInv, Clean
  <2> QED
    BY <2>1, <2>2
<1>7. KillFirst' /\ Asked' /\ BootSeen' /\ SoakSeen'
  BY <1>1, <1>2 DEF KillFirst, Asked, BootSeen, SoakSeen, RowsAsked
<1> QED
  BY <1>3, <1>5, <1>6, <1>7 DEF IInv

LEMMA FinishedStep == ASSUME IInv, UNCHANGED vars PROVE IInv'
<1>1. UNCHANGED <<link, script, board>>
  BY DEF vars
<1>2. LinkInv' /\ Lines' = Lines /\ Replies' = Replies /\ Waits' = Waits
  BY <1>1 DEF IInv, LinkInv, LinkTyped, Own, AnswerIsOwn, Lines, Replies, Waits, link
<1>3. Sync'
  <2>1. Line' = Line
    BY <1>1 DEF Line, Record, script
  <2> QED
    BY <1>1, <1>2, <2>1 DEF IInv, Sync, link, script
<1>4. Truths'
  <2>1. Truth("image")' = Truth("image") /\ Truth("watchdog")' = Truth("watchdog")
        /\ Truth("speed")' = Truth("speed") /\ bin' = bin
    BY <1>1 DEF Truth, board
  <2> QED
    BY <1>2, <2>1 DEF IInv, Truths
<1>5. Typed'
  BY <1>1 DEF IInv, Typed, script, board, soak
<1>6. RowsAreTrue' /\ Clean'
  <2>1. RowsAreTrue'
    BY <1>1 DEF IInv, RowsAreTrue, script, board
  <2>2. Clean'
    BY <1>1, <1>2 DEF IInv, Clean, script
  <2> QED
    BY <2>1, <2>2
<1>7. KillFirst'
  BY <1>1, <1>2 DEF IInv, KillFirst, script, board, link
<1>8. Asked' /\ BootSeen' /\ SoakSeen'
  BY <1>1 DEF IInv, Asked, BootSeen, SoakSeen, script, board, soak
<1> QED
  BY <1>2, <1>3, <1>4, <1>5, <1>6, <1>7, <1>8 DEF IInv

LEMMA RerunStep == ASSUME IInv, Rerun PROVE IInv'
<1>1. /\ program = "swap" /\ pc = "failed" /\ ~Waits /\ pc' = "sanity" /\ k' = 1 /\ before' = 0
      /\ typed' = << >> /\ wire' = << >>
      /\ UNCHANGED <<asked, slow, heard, program, rows, left, saved, soak, board>>
  BY DEF Rerun
<1>2. LinkInv' /\ Sync' /\ Truths'
  BY <1>1, OwnSteps, Quietly DEF board
<1>3. Lines' = {} /\ Replies' = {} /\ Len(typed') = 0
  BY <1>1, ClearLink DEF IInv
<1>4. Typed'
  <2>1. pc' \in PcOf("swap")
    BY <1>1, PcSets DEF Upload, Marked
  <2>2. 1 \in 1 .. Chunks + 1 /\ 1 <= Chunks
    BY SessionsAssumption
  <2> QED
    BY <1>1, <2>1, <2>2 DEF IInv, Typed, soak, board
<1>5. KillFirst'
  <2>1. "sanity" \notin {"kill", "done"} \cup Later
    BY DEF Later, RowsAsked
  <2> QED
    BY <1>1, <1>3, <2>1 DEF IInv, KillFirst, board
<1>6. RowsAreTrue' /\ Clean'
  BY <1>1 DEF IInv, RowsAreTrue, Clean, board
<1>7. Asked' /\ BootSeen' /\ SoakSeen'
  BY <1>1 DEF Asked, BootSeen, SoakSeen, Soaks, RowsAsked
<1> QED
  BY <1>2, <1>4, <1>5, <1>6, <1>7 DEF IInv

\* A text whose row for the login is good ends in one.
LEMMA GoodEnd ==
  ASSUME NEW first, NEW text, NEW end, TextRows(first, text, end)["login"] # "fail"
  PROVE  end = "login"
<1>1. "login" \in BootRows
  BY DEF BootRows
<1>2. TextRows(first, text, end)["login"] = IF end = "login" THEN "pass" ELSE "fail"
  BY <1>1 DEF TextRows
<1> QED
  BY <1>2

\* What is off with a boot from the SPL.
LEMMA OffWhat == ASSUME NEW b \in FromSpl PROVE Off(b) \subseteq {"size", "fallback"}
  BY DEF FromSpl, Paths, Off

\* What the text of a boot says of it, when all its rows are good.
LEMMA GoodText ==
  ASSUME program \in {"reboot", "ram"}, NEW first \in FromSpl, NEW second \in FromSpl,
         NEW end \in Ends,
         NEW text, text = (IF program # "reboot" THEN {} ELSE {first}),
         \A r \in BootRows : TextRows(first, text, end)[r] # "fail"
  PROVE  UNION {Off(b) : b \in text} = {}
<1>1. \A r \in BootRows : TextRows(first, text, end)[r] =
        IF program = "ram" /\ r \in {"dram", "falcon"} THEN "not asked"
        ELSE CASE r = "dram" -> IF first.size = "256" THEN "pass" ELSE "fail"
               [] r = "falcon" -> IF ByFalcon(text) THEN "pass" ELSE "fail"
               [] r = "oops" -> IF end = "panic" THEN "fail" ELSE "pass"
               [] r = "login" -> IF end = "login" THEN "pass" ELSE "fail"
  BY DEF TextRows
<1>3. CASE program = "ram"
  <2>1. text = {}
    BY <1>3
  <2> QED
    BY <2>1
<1>4. CASE program = "reboot"
  <2>1. text = {first} /\ {"dram", "falcon"} \subseteq BootRows
    BY <1>4 DEF BootRows
  <2>2. TextRows(first, text, end)["dram"] = IF first.size = "256" THEN "pass" ELSE "fail"
    BY <1>1, <1>4, <2>1
  <2>3. TextRows(first, text, end)["falcon"] = IF ByFalcon(text) THEN "pass" ELSE "fail"
    BY <1>1, <1>4, <2>1
  <2>4. first.size = "256" /\ ByFalcon(text)
    BY <2>1, <2>2, <2>3
  <2>5. first.path = "falcon"
    BY <2>1, <2>4 DEF ByFalcon
  <2>6. Off(first) = {}
    BY <2>4, <2>5 DEF Off
  <2> QED
    BY <2>1, <2>6
<1> QED
  BY <1>3, <1>4

LEMMA TextVerdicts ==
  ASSUME NEW first, NEW text, NEW end, NEW r \in BootRows
  PROVE  TextRows(first, text, end)[r] \in Verdicts
<1>1. TextRows(first, text, end)[r] =
        IF program = "ram" /\ r \in {"dram", "falcon"} THEN "not asked"
        ELSE CASE r = "dram" -> IF first.size = "256" THEN "pass" ELSE "fail"
               [] r = "falcon" -> IF ByFalcon(text) THEN "pass" ELSE "fail"
               [] r = "oops" -> IF end = "panic" THEN "fail" ELSE "pass"
               [] r = "login" -> IF end = "login" THEN "pass" ELSE "fail"
  BY DEF TextRows
<1>2. r = "dram" \/ r = "falcon" \/ r = "oops" \/ r = "login"
  BY DEF BootRows
<1> QED
  BY <1>1, <1>2 DEF Verdicts

LEMMA BootTextStep == ASSUME IInv, BootText PROVE IInv'
<1> DEFINE sent == program # "reboot"
<1>1. PICK first \in FromSpl, second \in FromSpl, hung \in BOOLEAN, end \in Ends :
        LET text == (IF sent THEN {} ELSE {first}) \cup (IF hung THEN {second} ELSE {})
            build == IF sent /\ ~hung THEN "new" ELSE facts.card
        IN /\ rows' = IF program = "tool" THEN rows
                      ELSE [r \in RowNames |-> IF r \in BootRows THEN TextRows(first, text, end)[r] ELSE rows[r]]
           /\ wrong' = ({end} \ {"login"}) \cup (IF hung THEN {"hung"} ELSE {}) \cup UNION {Off(b) : b \in text}
           /\ facts' = [facts EXCEPT !.image = build] /\ bin' = build /\ proxy' = "none"
           /\ pc' = NextStep(end)
  BY DEF BootText
<1> DEFINE text == (IF sent THEN {} ELSE {first}) \cup (IF hung THEN {second} ELSE {})
           build == IF sent /\ ~hung THEN "new" ELSE facts.card
<1>2. /\ rows' = IF program = "tool" THEN rows
                 ELSE [r \in RowNames |-> IF r \in BootRows THEN TextRows(first, text, end)[r] ELSE rows[r]]
      /\ wrong' = ({end} \ {"login"}) \cup (IF hung THEN {"hung"} ELSE {}) \cup UNION {Off(b) : b \in text}
      /\ facts' = [facts EXCEPT !.image = build] /\ bin' = build /\ proxy' = "none"
      /\ pc' = NextStep(end)
  BY <1>1
<1> HIDE DEF text, build
<1>3. /\ pc = "boot"
      /\ UNCHANGED <<link, program, k, before, left, saved, count, good, gz, execs, records>>
  BY DEF BootText
<1>4. program \in Boots /\ program' \notin {"swap", "check"} \cup Soaks
  BY <1>3, Wheres DEF IInv, Boots, Soaks
<1>5. LinkInv' /\ Sync' /\ Truths'
  BY <1>3, OwnSteps, Quietly DEF link
<1>6. pc' \in {"shell", "done", "failed"} /\ (program # "tool" => pc' = "shell")
  BY <1>2 DEF NextStep
<1>7. facts \in AllFacts /\ build \in {"old", "new"}
  BY DEF IInv, Typed, AllFacts, build
<1>8. facts' \in AllFacts /\ facts'.image = build /\ facts'.card = facts.card
  BY <1>2, <1>7 DEF AllFacts
<1>9. rows \in [RowNames -> Verdicts] /\ (\A r \in RowNames : rows[r] = "not asked")
  BY <1>3 DEF IInv, Typed, Clean
<1>10. rows' \in [RowNames -> Verdicts] /\ (\A r \in RowNames \ BootRows : rows'[r] = "not asked")
  <2>1. CASE program = "tool"
    BY <1>2, <1>9, <2>1
  <2>2. CASE program # "tool"
    <3>1. rows' = [r \in RowNames |-> IF r \in BootRows THEN TextRows(first, text, end)[r] ELSE rows[r]]
      BY <1>2, <2>2
    <3>2. \A r \in BootRows : TextRows(first, text, end)[r] \in Verdicts
      BY TextVerdicts
    <3> QED
      BY <1>9, <3>1, <3>2
  <2> QED
    BY <2>1, <2>2
<1>11. Typed'
  <2>1. pc' \in PcOf(program)
    BY <1>4, <1>6, PcSets
  <2> QED
    BY <1>2, <1>3, <1>6, <1>7, <1>8, <1>10, <2>1 DEF IInv, Typed
<1>12. RowsAreTrue'
  <2>1. {"image", "md5", "watchdog", "speed"} \subseteq RowNames \ BootRows
    BY DEF RowNames, BootRows
  <2> QED
    BY <1>10, <2>1 DEF RowsAreTrue
<1>13. BootSeen'
  <2> SUFFICES ASSUME program \in {"reboot", "ram"}, \A r \in BootRows : rows'[r] # "fail"
               PROVE  /\ wrong' \subseteq {"hung", "size", "fallback"}
                      /\ wrong' # {} => "hung" \in wrong' /\ (program = "ram" => facts'.image = facts'.card)
    BY <1>3 DEF BootSeen
  <2>0. wrong' \subseteq {"hung", "size", "fallback"} /\ end = "login"
    <3>1. rows' = [r \in RowNames |-> IF r \in BootRows THEN TextRows(first, text, end)[r] ELSE rows[r]]
      BY <1>2
    <3>2. "login" \in BootRows /\ BootRows \subseteq RowNames
      BY DEF BootRows, RowNames
    <3>3. end = "login"
      BY <3>1, <3>2, GoodEnd
    <3>4. \A b \in text : Off(b) \subseteq {"size", "fallback"}
      BY OffWhat DEF text
    <3>5. UNION {Off(b) : b \in text} \subseteq {"size", "fallback"}
      BY <3>4
    <3> QED
      BY <1>2, <3>3, <3>5
  <2>1. CASE hung
    <3>1. "hung" \in wrong' /\ build = facts.card
      BY <1>2, <2>1 DEF build
    <3> QED
      BY <1>8, <2>0, <3>1
  <2>2. CASE ~hung
    <3>1. text = IF program # "reboot" THEN {} ELSE {first}
      BY <2>2 DEF text
    <3>2. rows' = [r \in RowNames |-> IF r \in BootRows THEN TextRows(first, text, end)[r] ELSE rows[r]]
      BY <1>2
    <3>3. \A r \in BootRows : TextRows(first, text, end)[r] # "fail"
      BY <3>2 DEF RowNames
    <3>4. UNION {Off(b) : b \in text} = {}
      BY <3>1, <3>3, GoodText
    <3> QED
      BY <1>2, <2>0, <2>2, <3>4
  <2> QED
    BY <2>1, <2>2
<1>14. Asked'
  <2>1. pc' = "done" => program = "tool"
    BY <1>6
  <2>2. pc' \notin RowsAsked
    BY <1>6 DEF RowsAsked
  <2> QED
    BY <1>3, <2>1, <2>2 DEF Asked
<1>15. KillFirst' /\ Clean' /\ SoakSeen'
  BY <1>4, <1>6 DEF KillFirst, Clean, SoakSeen
<1> QED
  BY <1>5, <1>11, <1>12, <1>13, <1>14, <1>15 DEF IInv

-----------------------------------------------------------------------------
(***************************************************************************)
(* The appliance.                                                          *)
(***************************************************************************)
LEMMA FirstLine ==
  ASSUME IInv, typed # << >>
  PROVE  /\ Head(typed) \in Lines /\ Head(typed) = typed[1] /\ Head(typed)[1] \in Cmds
         /\ Len(typed) \in Nat \ {0}
<1>1. typed \in Seq(Cmds \X Marks)
  BY DEF IInv, LinkInv, LinkTyped
<1>2. Len(typed) \in Nat \ {0} /\ Head(typed) = typed[1]
  BY <1>1, EmptySeq
<1>3. Head(typed) \in Cmds \X Marks
  BY <1>1, HeadTailProperties
<1> QED
  BY <1>2, <1>3 DEF Lines

LEMMA CmdsAre ==
  ASSUME NEW cmd \in Cmds
  PROVE  /\ cmd[1] \notin {"chunk", "cat"} => cmd = <<cmd[1]>>
         /\ cmd[1] = "chunk" => cmd[2] \in 1 .. Chunks
<1>1. CASE cmd \in {<<s>> : s \in Steps \ {"chunk", "cat"}}
  BY <1>1
<1>2. CASE cmd \in {"chunk"} \X (1 .. Chunks)
  BY <1>2
<1>3. CASE cmd \in {"cat"} \X Records
  BY <1>3
<1> QED
  BY <1>1, <1>2, <1>3 DEF Cmds

(***************************************************************************)
(* A line is run while the script waits, or has gone on: what may come of  *)
(* it.  The order of the lines is what keeps the kill before its check.    *)
(***************************************************************************)
LEMMA Runs ==
  ASSUME IInv, typed # << >>, NEW said, RunLine(Head(typed)[1], said),
         said = << >> \/ \E x \in Texts : said = <<x>>,
         UNCHANGED <<script, facts>>, bin' = bin \/ bin' = "new",
         \/ said = << >>
         \/ /\ Head(typed)[1] = <<"image">> => said[1] = Truth("image")
            /\ Head(typed)[1] = <<"watchdog">> => said[1] = Truth("watchdog")
            /\ Head(typed)[1] = <<"speed">> => said[1] = Truth("speed")
            /\ Head(typed)[1] \in {<<"md5">>, <<"install">>} /\ said[1] = <<"new", 0>> => bin' = "new",
         \/ proxy' = proxy /\ ~IsKill(Head(typed)[1])
         \/ proxy' = "none"
  PROVE  LinkInv' /\ Sync' /\ Truths' /\ KillFirst' /\ Clean' /\ RowsAreTrue'
         /\ Asked' /\ BootSeen' /\ SoakSeen'
<1> DEFINE new == <<Head(typed)[1], Head(typed)[2], said[1]>>
<1>1. /\ LinkInv' /\ asked' = asked
      /\ Head(typed) \in Lines /\ Head(typed) = typed[1] /\ Lines' \subseteq Lines
      /\ Len(typed) \in Nat \ {0} /\ Len(typed') = Len(typed) - 1
      /\ \A i \in 1 .. Len(typed') : typed'[i] = typed[i + 1]
      /\ Replies' \subseteq Replies \cup {new}
      /\ said = << >> => Replies' = Replies
  BY RunLink DEF IInv
<1>2. new[1] = Head(typed)[1] /\ new[3] = said[1]
  OBVIOUS
<1> HIDE DEF new
<1>3. Sync'
  <2>1. Line' = Line
    BY DEF Line, Record, script
  <2> QED
    BY <1>1, <2>1 DEF IInv, Sync, Waits, script
<1>4. Truths'
  <2>1. Truth("image")' = Truth("image") /\ Truth("watchdog")' = Truth("watchdog")
        /\ Truth("speed")' = Truth("speed")
    BY DEF Truth
  <2>2. CASE said = << >>
    BY <1>1, <2>1, <2>2 DEF IInv, Truths
  <2>3. CASE said # << >>
    BY <1>1, <1>2, <2>1, <2>3 DEF IInv, Truths
  <2> QED
    BY <2>2, <2>3
<1>5. KillFirst'
  <2> SUFFICES ASSUME program = "swap" PROVE KillFirst'
    BY DEF KillFirst, script
  <2>1. pc' = pc /\ rows' = rows /\ program' = program
    BY DEF script
  <2>2. \A x \in Lines' \cup Replies' : IsKill(x[1]) \/ IsLater(x[1]) => bin' = "new"
    BY <1>1, <1>2 DEF IInv, KillFirst
  <2>3. CASE proxy' = "none"
    BY <2>1, <2>2, <2>3 DEF IInv, KillFirst
  <2>4. CASE proxy' = proxy /\ proxy # "old"
    BY <2>1, <2>2, <2>4 DEF IInv, KillFirst
  <2>5. CASE proxy' = proxy /\ proxy = "old" /\ ~IsKill(Head(typed)[1])
    <3>1. ~IsLater(Head(typed)[1])
      BY <1>1, <2>5 DEF IInv, KillFirst
    <3>2. \A w \in Replies' : ~IsKill(w[1]) /\ ~IsLater(w[1])
      BY <1>1, <1>2, <2>5, <3>1 DEF IInv, KillFirst
    <3>3. ASSUME NEW j \in 1 .. Len(typed'), IsLater(typed'[j][1])
          PROVE  \E i \in 1 .. Len(typed') : i < j /\ IsKill(typed'[i][1])
      <4>1. j + 1 \in 1 .. Len(typed) /\ IsLater(typed[j + 1][1])
        BY <1>1, <3>3
      <4>2. PICK i \in 1 .. Len(typed) : i < j + 1 /\ IsKill(typed[i][1])
        BY <2>5, <4>1 DEF IInv, KillFirst
      <4>3. i # 1
        BY <1>1, <2>5, <4>2
      <4>4. i - 1 \in 1 .. Len(typed') /\ i - 1 < j /\ typed'[i - 1] = typed[i]
        BY <1>1, <3>3, <4>2, <4>3
      <4> QED
        BY <4>2, <4>4
    <3>4. ASSUME pc \in {"done"} \cup Later \/ (pc = "kill" /\ Waits)
          PROVE  \E l \in Lines' : IsKill(l[1])
      <4>1. PICK l \in Lines : IsKill(l[1])
        BY <2>5, <3>4 DEF IInv, KillFirst
      <4>2. PICK i \in 1 .. Len(typed) : typed[i] = l
        BY DEF Lines
      <4>3. i # 1
        BY <1>1, <2>5, <4>1, <4>2
      <4>4. i - 1 \in 1 .. Len(typed') /\ typed'[i - 1] = l
        BY <1>1, <4>2, <4>3
      <4> QED
        BY <4>1, <4>4 DEF Lines
    <3> QED
      BY <1>1, <2>1, <2>2, <2>5, <3>2, <3>3, <3>4 DEF IInv, KillFirst, Waits
  <2> QED
    BY <2>3, <2>4, <2>5
<1>6. Clean'
  BY <1>1 DEF IInv, Clean, script
<1>7. RowsAreTrue'
  BY DEF IInv, RowsAreTrue, script
<1>8. Asked' /\ BootSeen' /\ SoakSeen'
  BY DEF IInv, Asked, BootSeen, SoakSeen, script, soak
<1> QED
  BY <1>1, <1>3, <1>4, <1>5, <1>6, <1>7, <1>8

LEMMA TruthIsText ==
  ASSUME Typed, NEW q
  PROVE  Truth(q) \in Texts
<1>1. Cardinality(records) \in Nat
  BY SessionsAssumption, FS_Subset, FS_CardinalityType DEF Typed
<1>2. <<facts.image, 0>> \in Texts /\ <<bin, 0>> \in Texts /\ Ok \in Texts
  BY DEF Typed, AllFacts, Texts, Words, Ok
<1>3. <<"count", execs>> \in Texts /\ <<"count", IF proxy = "none" THEN 0 ELSE 1>> \in Texts
      /\ <<"count", Cardinality(records)>> \in Texts /\ <<"names", records>> \in Texts
  BY <1>1 DEF Typed, Texts
<1>4. <<IF facts.armed THEN "armed" ELSE "off", 0>> \in Texts
  BY DEF Texts, Words
<1>5. (IF facts.speed = 0 THEN <<"no device", 0>> ELSE <<"speed", facts.speed>>) \in Texts
  BY DEF Typed, AllFacts, Texts, Words
<1> QED
  BY <1>2, <1>3, <1>4, <1>5 DEF Truth

LEMMA LooksStep == ASSUME IInv, Looks PROVE IInv'
<1>1. PICK q \in Steps \ {"rm", "chunk", "install", "kill", "clear"} :
        typed # << >> /\ Head(typed)[1][1] = q /\ RunLine(Head(typed)[1], <<Truth(q)>>)
  BY DEF Looks, Does, Says
<1>2. UNCHANGED <<script, board>>
  BY DEF Looks
<1> DEFINE cmd == Head(typed)[1]  said == <<Truth(q)>>
<1>3. cmd \in Cmds /\ (q \notin {"chunk", "cat"} => cmd = <<q>>) /\ cmd[1] = q
  BY <1>1, FirstLine, CmdsAre
<1>4. Truth(q) \in Texts /\ said[1] = Truth(q)
  BY TruthIsText DEF IInv
<1> HIDE DEF cmd, said
<1>5. ~IsKill(cmd) /\ cmd # <<"install">>
  <2>1. <<"kill">>[1] = "kill" /\ <<"install">>[1] = "install"
    OBVIOUS
  <2> QED
    BY <1>1, <1>3, <2>1 DEF IsKill
<1>6. /\ cmd = <<"image">> => q = "image"
      /\ cmd = <<"watchdog">> => q = "watchdog"
      /\ cmd = <<"speed">> => q = "speed"
      /\ cmd = <<"md5">> => q = "md5"
  <2>1. <<"image">>[1] = "image" /\ <<"watchdog">>[1] = "watchdog" /\ <<"speed">>[1] = "speed"
        /\ <<"md5">>[1] = "md5"
    OBVIOUS
  <2> QED
    BY <1>3, <2>1
<1>7. q = "md5" /\ Truth(q) = <<"new", 0>> => bin = "new"
  <2>1. Truth("md5") = <<bin, 0>>
    BY DEF Truth
  <2> QED
    BY <2>1
<1>8. said = << >> \/ \E x \in Texts : said = <<x>>
  BY <1>4 DEF said
<1>9. /\ cmd = <<"image">> => said[1] = Truth("image")
      /\ cmd = <<"watchdog">> => said[1] = Truth("watchdog")
      /\ cmd = <<"speed">> => said[1] = Truth("speed")
      /\ cmd \in {<<"md5">>, <<"install">>} /\ said[1] = <<"new", 0>> => bin' = "new"
  BY <1>2, <1>4, <1>5, <1>6, <1>7 DEF board
<1>10. LinkInv' /\ Sync' /\ Truths' /\ KillFirst' /\ Clean' /\ RowsAreTrue'
       /\ Asked' /\ BootSeen' /\ SoakSeen'
  BY <1>1, <1>2, <1>5, <1>8, <1>9, Runs DEF board, cmd, said
<1>11. Typed'
  BY <1>2 DEF IInv, Typed, script, board, soak
<1> QED
  BY <1>10, <1>11 DEF IInv

\* The lines that change the board; none of them is a question of a check.
LEMMA Does1 ==
  ASSUME IInv, NEW name \in {"rm", "chunk", "install", "kill", "clear"}, Does(name)
  PROVE  /\ typed # << >> /\ Head(typed)[1] \in Cmds
         /\ Head(typed)[1] \notin {<<"image">>, <<"watchdog">>, <<"speed">>, <<"md5">>}
         /\ IsKill(Head(typed)[1]) => name = "kill"
         /\ Head(typed)[1] = <<"install">> => name = "install"
         /\ name = "chunk" => Head(typed)[1][2] \in 1 .. Chunks
<1>1. typed # << >> /\ Head(typed)[1] \in Cmds /\ Head(typed)[1][1] = name
  BY FirstLine DEF Does
<1>2. <<"image">>[1] = "image" /\ <<"watchdog">>[1] = "watchdog" /\ <<"speed">>[1] = "speed"
      /\ <<"md5">>[1] = "md5" /\ <<"kill">>[1] = "kill" /\ <<"install">>[1] = "install"
  OBVIOUS
<1> QED
  BY <1>1, <1>2, CmdsAre DEF IsKill

LEMMA OkIsText == Ok \in Texts /\ <<"new", 0>> \in Texts /\ <<"no sum", 0>> \in Texts /\ Ok # <<"new", 0>>
  BY DEF Ok, Texts, Words

LEMMA DoesStep ==
  ASSUME IInv, RemovesFile \/ AppendsChunk \/ Installs \/ Kills \/ RemovesRecords
  PROVE  IInv'
<1>1. ASSUME NEW name \in {"rm", "chunk", "install", "kill", "clear"}, Does(name),
             NEW said, RunLine(Head(typed)[1], said),
             said \in {<< >>, <<Ok>>, <<<<"new", 0>>>>, <<<<"no sum", 0>>>>},
             said = <<<<"new", 0>>>> => bin' = "new",
             UNCHANGED <<script, facts>>, bin' = bin \/ bin' = "new",
             (proxy' = proxy /\ name # "kill") \/ proxy' = "none",
             Typed'
      PROVE  IInv'
  <2>1. said = << >> \/ \E x \in Texts : said = <<x>>
    BY <1>1, OkIsText
  <2>2. said[1] = <<"new", 0>> /\ said # << >> => said = <<<<"new", 0>>>>
    <3>1. <<Ok>>[1] = Ok /\ <<<<"no sum", 0>>>>[1] = <<"no sum", 0>> /\ <<"no sum", 0>> # <<"new", 0>>
      OBVIOUS
    <3> QED
      BY <1>1, <3>1, OkIsText
  <2> QED
    BY <1>1, <2>1, <2>2, Does1, Runs DEF IInv
<1>2. CASE RemovesFile
  <2>1. Typed'
    BY <1>2, EmptySeq DEF RemovesFile, IInv, Typed, script, soak
  <2> QED
    BY <1>1, <1>2, <2>1, OkIsText DEF RemovesFile, Says
<1>3. CASE AppendsChunk
  <2>1. Does("chunk") /\ Head(typed)[1][2] \in 1 .. Chunks
    BY <1>3, Does1 DEF AppendsChunk
  <2>2. gz' \in Seq(0 .. Chunks)
    <3>1. gz \in Seq(0 .. Chunks) /\ 0 \in 0 .. Chunks /\ Head(typed)[1][2] \in 0 .. Chunks
      BY <2>1, SessionsAssumption DEF IInv, Typed
    <3>2. gz' \in {gz, Append(gz, 0), Append(gz, Head(typed)[1][2])}
      BY <1>3 DEF AppendsChunk
    <3>3. Append(gz, 0) \in Seq(0 .. Chunks) /\ Append(gz, Head(typed)[1][2]) \in Seq(0 .. Chunks)
      BY <3>1, AppendProperties
    <3> QED
      BY <3>1, <3>2, <3>3
  <2>3. Typed'
    BY <1>3, <2>2 DEF AppendsChunk, IInv, Typed, script, soak
  <2>4. \/ RunLine(Head(typed)[1], <<Ok>>)
        \/ RunLine(Head(typed)[1], << >>)
    BY <1>3 DEF AppendsChunk, Says, SaysNothing
  <2>5. UNCHANGED <<script, facts, bin, proxy>>
    BY <1>3 DEF AppendsChunk
  <2> QED
    BY <1>1, <2>1, <2>3, <2>4, <2>5, OkIsText
<1>4. CASE Installs
  <2>1. Typed'
    BY <1>4, EmptySeq DEF Installs, IInv, Typed, script, soak
  <2>2. \/ bin' = "new" /\ RunLine(Head(typed)[1], <<<<"new", 0>>>>)
        \/ bin' = bin /\ RunLine(Head(typed)[1], <<<<"no sum", 0>>>>)
    BY <1>4 DEF Installs, Says
  <2>3. UNCHANGED <<script, facts, proxy>> /\ Does("install")
    BY <1>4 DEF Installs
  <2>4. <<<<"no sum", 0>>>> # <<<<"new", 0>>>>
    OBVIOUS
  <2> QED
    BY <1>1, <2>1, <2>2, <2>3, <2>4
<1>5. CASE Kills
  <2>1. Typed'
    BY <1>5 DEF Kills, IInv, Typed, script, soak
  <2> QED
    BY <1>1, <1>5, <2>1, OkIsText DEF Kills, Says
<1>6. CASE RemovesRecords
  <2>1. Typed'
    BY <1>6 DEF RemovesRecords, IInv, Typed, script, soak
  <2> QED
    BY <1>1, <1>6, <2>1, OkIsText DEF RemovesRecords, Says
<1> QED
  BY <1>2, <1>3, <1>4, <1>5, <1>6

LEMMA ProxyStep == ASSUME IInv, Respawns \/ ProxyDies PROVE IInv'
<1>1. /\ UNCHANGED <<link, script, gz, bin, facts, records>>
      /\ \/ proxy = "none" /\ proxy' = bin /\ execs' = execs + 1
         \/ proxy' = "none" /\ execs' = execs
  BY DEF Respawns, ProxyDies
<1>2. LinkInv' /\ Lines' = Lines /\ Replies' = Replies /\ Waits' = Waits
  BY <1>1 DEF IInv, LinkInv, LinkTyped, Own, AnswerIsOwn, Lines, Replies, Waits, link
<1>3. Sync'
  <2>1. Line' = Line
    BY <1>1 DEF Line, Record, script
  <2> QED
    BY <1>1, <1>2, <2>1 DEF IInv, Sync, link, script
<1>4. Truths'
  <2>1. Truth("image")' = Truth("image") /\ Truth("watchdog")' = Truth("watchdog")
        /\ Truth("speed")' = Truth("speed") /\ bin' = bin
    BY <1>1 DEF Truth
  <2> QED
    BY <1>2, <2>1 DEF IInv, Truths
<1>5. Typed'
  BY <1>1 DEF IInv, Typed, script, soak
<1>6. RowsAreTrue'
  BY <1>1 DEF IInv, RowsAreTrue, script
<1>7. KillFirst'
  <2> SUFFICES ASSUME program = "swap" PROVE KillFirst'
    BY <1>1 DEF KillFirst, script
  <2>1. typed' = typed /\ pc' = pc /\ rows' = rows /\ bin' = bin /\ program' = program
    BY <1>1 DEF link, script
  <2>2. ASSUME proxy' = "old" PROVE bin = "old"
    BY <1>1, <2>2
  <2>3. \A w \in Lines : w \in Lines \cup Replies
    OBVIOUS
  <2>4. ASSUME proxy' = "old", NEW j \in 1 .. Len(typed) PROVE ~IsLater(typed[j][1])
    <3>1. typed[j] \in Lines
      BY DEF Lines
    <3> QED
      BY <2>2, <2>4, <3>1 DEF IInv, KillFirst
  <2> QED
    BY <1>2, <2>1, <2>2, <2>4 DEF IInv, KillFirst
<1>8. Clean'
  BY <1>1, <1>2 DEF IInv, Clean, script
<1>9. Asked' /\ BootSeen' /\ SoakSeen'
  BY <1>1 DEF IInv, Asked, BootSeen, SoakSeen, script, soak
<1> QED
  BY <1>2, <1>3, <1>4, <1>5, <1>6, <1>7, <1>8, <1>9 DEF IInv

-----------------------------------------------------------------------------
LEMMA Bounds == Chunks \in Nat \ {0} /\ MaxBoots \in Nat \ {0}
  BY SessionsAssumption

LEMMA InitIInv == Init => IInv
<1> SUFFICES ASSUME Init PROVE IInv
  OBVIOUS
<1>1. typed = << >> /\ wire = << >> /\ asked = << >> /\ heard = << >> /\ slow = MaxSlow
  BY DEF Init, ConsoleInit
<1>2. LinkInv /\ Lines = {} /\ Replies = {} /\ ~Waits /\ Len(typed) = 0
  <2>1. typed \in Seq(Cmds \X Marks) /\ wire \in Seq(Cmds \X Marks \X Texts)
        /\ Len(typed) = 0 /\ Len(wire) = 0
    BY <1>1, EmptySeq
  <2> QED
    BY <1>1, <2>1, ConsoleAssumption DEF LinkInv, LinkTyped, Own, AnswerIsOwn, Waits, Lines, Replies
<1>3. program \in Programs /\ pc = Start(program)
  BY DEF Init, Programs
<1>4. pc \in {"sanity", "shell", "catch", "kick", "done"} /\ pc \in PcOf(program)
      /\ (pc = "done" => program = "none") /\ (pc = "sanity" => program = "swap")
      /\ (pc = "shell" => program = "check") /\ (pc = "kick" => program \in Soaks)
      /\ (program = "swap" => pc = "sanity") /\ (program \in Soaks => pc = "kick")
  <2>1. CASE program = "swap"
    BY <1>3, <2>1, PcSets DEF Start, Upload, Marked, Soaks, Boots
  <2>2. CASE program = "check"
    BY <1>3, <2>2, PcSets DEF Start, Soaks, Boots
  <2>3. CASE program \in Boots
    BY <1>3, <2>3, PcSets DEF Start, Soaks, Boots
  <2>4. CASE program \in Soaks
    BY <1>3, <2>4, PcSets DEF Start, Soaks, Boots
  <2>5. CASE program = "none"
    BY <1>3, <2>5 DEF Start, PcOf, Soaks, Boots
  <2> QED
    BY <1>3, <2>1, <2>2, <2>3, <2>4, <2>5 DEF Programs
<1>5. facts \in AllFacts
  <2>1. bin \in {"old", "new"}
    BY DEF Init
  <2>0. facts \in CASE program = "check" ->
                   [armed : BOOLEAN, speed : {0, 12, 480}, image : {"old", "new"}, card : {"old"}]
                [] program \in {"none"} \cup Boots -> [armed : {TRUE}, speed : {480}, image : {bin}, card : {bin}]
                [] OTHER -> [armed : BOOLEAN, speed : {480}, image : {"old"}, card : {"old"}]
    BY DEF Init
  <2>2. CASE program = "check"
    <3>1. program \notin {"none"} \cup Boots
      BY <2>2 DEF Boots
    <3>2. facts \in [armed : BOOLEAN, speed : {0, 12, 480}, image : {"old", "new"}, card : {"old"}]
      BY <2>0, <2>2, <3>1
    <3> QED
      BY <3>2 DEF AllFacts
  <2>3. CASE program \in {"none"} \cup Boots
    <3>1. program # "check"
      BY <2>3 DEF Boots
    <3>2. facts \in [armed : {TRUE}, speed : {480}, image : {bin}, card : {bin}]
      BY <2>0, <2>3, <3>1
    <3> QED
      BY <2>1, <3>2 DEF AllFacts
  <2>4. CASE program \in {"swap"} \cup Soaks
    <3>1. program \notin {"check", "none"} \cup Boots
      BY <2>4 DEF Boots, Soaks
    <3>2. facts \in [armed : BOOLEAN, speed : {480}, image : {"old"}, card : {"old"}]
      BY <2>0, <3>1
    <3> QED
      BY <3>2 DEF AllFacts
  <2> QED
    BY <1>3, <2>2, <2>3, <2>4 DEF Programs
<1>6. rows = [r \in RowNames |-> "not asked"] /\ k = 1 /\ before = 0 /\ left = {} /\ saved = {}
      /\ gz = << >> /\ execs = 1 /\ count = 0 /\ good = TRUE /\ wrong = {}
  BY DEF Init
<1>7. Typed
  <2>1. bin \in {"old", "new"} /\ proxy \in {"old", "new", "none"} /\ records \subseteq Records
    BY DEF Init
  <2>2. gz \in Seq(0 .. Chunks)
    BY <1>6, EmptySeq
  <2>3. k \in 1 .. Chunks + 1 /\ k <= Chunks /\ count \in 0 .. MaxBoots
    <3>1. k = 1 /\ count = 0 /\ Chunks \in Nat \ {0} /\ MaxBoots \in Nat \ {0}
      BY <1>6, Bounds
    <3> QED
      BY <3>1
  <2>4. rows \in [RowNames -> Verdicts]
    BY <1>6 DEF Verdicts
  <2> QED
    BY <1>3, <1>4, <1>5, <1>6, <2>1, <2>2, <2>3, <2>4 DEF Typed
<1>8. RowsAreTrue
  BY <1>6 DEF RowsAreTrue, RowNames
<1>9. KillFirst
  <2>1. rows["md5"] # "pass" /\ "sanity" \notin {"kill", "done"} \cup Later
    BY <1>6 DEF RowNames, Later, RowsAsked
  <2> QED
    BY <1>2, <1>4, <2>1 DEF KillFirst
<1>10. Clean /\ SoakSeen
  <2>1. Clean
    BY <1>2, <1>6 DEF Clean
  <2>2. pc \notin {"summary", "done"} \cup Crashed \/ program \notin Soaks
    BY <1>4 DEF Crashed, Soaks
  <2>3. count < MaxBoots
    <3>1. count = 0 /\ MaxBoots \in Nat \ {0}
      BY <1>6, Bounds
    <3> QED
      BY <3>1
  <2> QED
    BY <1>6, <2>1, <2>2, <2>3 DEF SoakSeen
<1>11. Asked
  <2>1. pc \notin RowsAsked
    BY <1>4 DEF RowsAsked
  <2> QED
    BY <1>4, <2>1 DEF Asked
<1>12. Sync /\ Truths /\ BootSeen
  BY <1>2, <1>6 DEF Sync, Truths, BootSeen
<1> QED
  BY <1>2, <1>7, <1>8, <1>9, <1>10, <1>11, <1>12 DEF IInv

LEMMA IInvStep == IInv /\ [Next]_<<vars, rigVars>> => IInv'
<1> SUFFICES ASSUME IInv, [Next]_<<vars, rigVars>> PROVE IInv'
  OBVIOUS
<1>1. CASE Script
  <2>1. \/ Type \/ Shell \/ AskRow \/ CatchPrompt \/ BootText \/ Kick \/ Watch \/ Follow \/ Summary \/ Rerun
        \/ (OpenShell \/ List \/ Copy \/ ClearRecords)
        \/ (\/ Sanity \/ Remove \/ Quiet \/ SendChunk \/ Loud \/ ShowSum \/ Login
            \/ Before \/ Install \/ Kill \/ After)
    BY <1>1 DEF Script
  <2> QED
    BY <2>1, TypeStep, ShellStep, AskRowStep, CatchStep, BootTextStep, KickStep, WatchStep,
       FollowStep, SummaryStep, RerunStep, SaveStep, SwapStep
<1>2. CASE Appliance
  BY <1>2, LooksStep, DoesStep, ProxyStep DEF Appliance
<1>3. CASE Over \/ Soaking \/ Transfers \/ FastbootCycle \/ World \/ UNCHANGED <<vars, rigVars>>
  BY <1>3, FinishedStep DEF Over, Finished, Soaking, Transfers, FastbootCycle, World, Away
<1> QED
  BY <1>1, <1>2, <1>3 DEF Next

LEMMA StartUpIInv == StartUp => IInv
  BY InitIInv DEF StartUp

(***************************************************************************)
(* lx_run returns what its own command said, never what a command that was *)
(* given up earlier says late (AnswerIsOwn).                               *)
(***************************************************************************)
THEOREM OwnAnswers == Spec => []AnswerIsOwn
<1>1. IInv => AnswerIsOwn
  BY DEF IInv, LinkInv
<1> QED
  BY <1>1, StartUpIInv, IInvStep, PTL DEF Spec

(***************************************************************************)
(* A PASS of check_running on the image, the binary, the watchdog or the   *)
(* watch's speed is what the board is (RowsAreTrue).                       *)
(***************************************************************************)
THEOREM TrueRows == Spec => []RowsAreTrue
<1>1. IInv => RowsAreTrue
  BY DEF IInv
<1> QED
  BY <1>1, StartUpIInv, IInvStep, PTL DEF Spec

(***************************************************************************)
(* A swap that ends with CHECK PASSED leaves the binary that was sent, and *)
(* no proxy of the old one runs (PassedMeansNewRuns).                      *)
(***************************************************************************)
THEOREM SwapIsDone == Spec => []PassedMeansNewRuns
<1>1. IInv => PassedMeansNewRuns
  <2> SUFFICES ASSUME IInv, program = "swap", pc = "done", \A r \in RowNames : rows[r] # "fail"
               PROVE  bin = "new" /\ proxy # "old"
    BY DEF PassedMeansNewRuns, Passed
  <2>1. {"shell", "md5"} \subseteq RowNames
    BY DEF RowNames
  <2>2. rows["md5"] = "pass"
    BY <2>1 DEF IInv, Asked
  <2> QED
    BY <2>2 DEF IInv, KillFirst
<1> QED
  BY <1>1, StartUpIInv, IInvStep, PTL DEF Spec

(***************************************************************************)
(* A check after a boot that passes, a boot from the RAM among them: the   *)
(* board came to a login without a panic, and, unless a boot hung and was  *)
(* reset, by Falcon and with the right memory size; after a hang in a boot *)
(* from the RAM the card holds the build that was sent                     *)
(* (PassedMeansBooted).                                                    *)
(***************************************************************************)
THEOREM BootWasGood == Spec => []PassedMeansBooted
<1>1. IInv => PassedMeansBooted
  <2> SUFFICES ASSUME IInv, program \in {"reboot", "ram"}, pc = "done",
                      \A r \in RowNames : rows[r] # "fail"
               PROVE  /\ wrong \subseteq {"hung", "size", "fallback"}
                      /\ wrong # {} => "hung" \in wrong /\ (program = "ram" => facts.card = "new")
    BY DEF PassedMeansBooted, Passed
  <2>1. {"shell", "image"} \cup BootRows \subseteq RowNames
    BY DEF RowNames
  <2>2. rows["image"] = "pass"
    BY <2>1 DEF IInv, Asked
  <2>3. facts.image = "new"
    BY <2>2 DEF IInv, RowsAreTrue
  <2> QED
    BY <2>1, <2>3 DEF IInv, BootSeen
<1> QED
  BY <1>1, StartUpIInv, IInvStep, PTL DEF Spec

(***************************************************************************)
(* A soak that ends well has done every boot it was asked for, each good,  *)
(* or one of them hung (SoakIsHonest).                                     *)
(***************************************************************************)
THEOREM HonestSoak == Spec => []SoakIsHonest
<1>1. IInv => SoakIsHonest
  BY DEF IInv, SoakSeen, SoakIsHonest
<1> QED
  BY <1>1, StartUpIInv, IInvStep, PTL DEF Spec

(***************************************************************************)
(* Type correctness of the console scripts and of the lines between them   *)
(* and the shell.                                                          *)
(***************************************************************************)
THEOREM Typing == Spec => []TypeOK
<1>1. ASSUME IInv PROVE ConsoleTypeOK
  <2>1. \A i \in 1 .. Len(typed) : typed[i][2] \in Numbers \cup {"K0"}
    <3> SUFFICES ASSUME NEW i \in 1 .. Len(typed) PROVE typed[i][2] \in Numbers \cup {"K0"}
      OBVIOUS
    <3>1. typed[i] \in Cmds \X Marks
      BY <1>1, ElementOfSeq DEF IInv, LinkInv, LinkTyped
    <3> QED
      BY <3>1 DEF Marks
  <2>2. \A S, T : \A p \in S \X T : Len(p) = 2
    OBVIOUS
  <2>3. Len(<< >>) = 0
    OBVIOUS
  <2>4. Len(asked) \in {0, 2} /\ Len(heard) \in {0, 2} /\ slow \in 0 .. MaxSlow
    BY <1>1, <2>2, <2>3 DEF IInv, LinkInv, LinkTyped
  <2> QED
    BY <2>1, <2>4 DEF ConsoleTypeOK
<1>2. ASSUME IInv
      PROVE  pc \in Steps \cup {"catch", "boot", "kick", "watch", "follow", "summary", "done", "failed"}
  <2>1. program \in Programs /\ pc \in PcOf(program)
    BY <1>2 DEF IInv, Typed
  <2>2. Upload \cup Later \cup Crashed \cup RowsAsked \subseteq Steps \cup {"follow"}
    BY StepsAre DEF Upload, Later, Crashed
  <2>3. CASE program = "none"
    BY <2>1, <2>3 DEF PcOf, Soaks, Boots
  <2>4. CASE program \in {"swap", "check"} \cup Boots \cup Soaks
    <3>1. "shell" \in Later
      BY DEF Later
    <3> QED
      BY <2>1, <2>2, <2>4, <3>1, PcSets
  <2> QED
    BY <2>1, <2>3, <2>4 DEF Programs
<1>3. ASSUME IInv PROVE \A i \in 1 .. Len(gz) : gz[i] \in 0 .. Chunks
  BY <1>3, ElementOfSeq DEF IInv, Typed
<1>4. IInv => TypeOK
  BY <1>1, <1>2, <1>3 DEF IInv, Typed, TypeOK
<1> QED
  BY <1>4, StartUpIInv, IInvStep, PTL DEF Spec

-----------------------------------------------------------------------------
(***************************************************************************)
(* The tools for the bare-metal firmware: which step belongs to which      *)
(* phase, and what has been moved, or has come back, in this round.        *)
(***************************************************************************)
AllPhases == Phases \cup {"bench", "check", "run"}
CheckSteps == {"prompt", "status", "look", "unwedge", "look again", "verdict"}
AtOf(p) ==
  CASE p = "reboots" -> {"start", "reboot"} \cup CheckSteps
    [] p = "concurrent" -> {"start", "seed", "transfer", "join"}
    [] p = "fastboot" -> {"start", "bootloader", "wait fastboot", "getvar", "leave", "booted", "wait back"}
    [] p = "idle" -> {"start", "idle"} \cup CheckSteps
    [] p = "bench" -> {"start", "transfer", "join", "trace"}
    [] p = "check" -> {"start"} \cup CheckSteps
    [] p = "run" -> {"start", "fel", "console"} \cup CheckSteps

AtPhase ==
  /\ todo \in Seq(AllPhases)
  /\ at \in {"off", "over"} \/ (todo # << >> /\ at \in AtOf(Phase))

Rounding == round \in 1 .. Rounds /\ passed \in Nat /\ passed <= (IF at = "trace" THEN round ELSE round - 1)

Moved ==
  /\ DOMAIN xfer = {"push", "pull"} /\ DOMAIN files = {"a", "b", "back"}
  /\ xfer.push = "ok" /\ files.a = "whole" => "pushed" \in deed
  /\ xfer.pull = "ok" /\ files.back = "whole" => "pulled" \in deed
  /\ "pushed" \in seen => "pushed" \in deed

CameBack ==
  /\ "vars" \in seen => "fastboot" \in deed /\ (~image /\ watch = "adb" => "back" \in deed)
  /\ ~image => watch # "leaving" /\ at # "booted"

Hard == {"concurrent", "fastboot", "bench"}
NotHollow == \A p \in Hard : \A w \in Wanted(p) : <<p, w>> \in hollow => image /\ w = "back"

RigInv == RigTypeOK /\ AtPhase /\ Rounding /\ Moved /\ CameBack /\ NotHollow

LEMMA AtSets ==
  /\ \A p \in AllPhases : Enter(p) \in AtOf(p) /\ Again(p) \in AtOf(p)
                          /\ Enter(p) \notin {"trace", "booted"} /\ Again(p) \notin {"trace", "booted"}
                          /\ {"off", "over"} \cap AtOf(p) = {}
  BY DEF AllPhases, Phases, Enter, Again, AtOf, CheckSteps

\* A step of the tools and its phase.
LEMMA AtWhich ==
  ASSUME AtPhase
  PROVE  /\ at \notin {"off", "over"} => todo # << >> /\ Phase \in AllPhases /\ at \in AtOf(Phase)
         /\ at \in CheckSteps => Phase \notin Hard
         /\ at \in {"bootloader", "wait fastboot", "getvar", "leave", "booted", "wait back"} =>
              Phase = "fastboot"
         /\ at \in {"transfer", "join"} => Phase \in {"concurrent", "bench"}
         /\ at \in {"fel", "console"} => Phase = "run"
         /\ at = "reboot" => Phase = "reboots"
         /\ at = "idle" => Phase = "idle"
         /\ at = "seed" => Phase = "concurrent"
         /\ at = "trace" => Phase = "bench"
<1>1. at \notin {"off", "over"} => todo # << >> /\ Phase \in AllPhases /\ at \in AtOf(Phase)
  BY HeadTailProperties DEF AtPhase, Phase
<1>2. ASSUME NEW p \in AllPhases, NEW s \in AtOf(p)
      PROVE  /\ s \in CheckSteps => p \notin Hard
             /\ s \in {"bootloader", "wait fastboot", "getvar", "leave", "booted", "wait back"} =>
                  p = "fastboot"
             /\ s \in {"transfer", "join"} => p \in {"concurrent", "bench"}
             /\ s \in {"fel", "console"} => p = "run"
             /\ s = "reboot" => p = "reboots"
             /\ s = "idle" => p = "idle"
             /\ s = "seed" => p = "concurrent"
             /\ s = "trace" => p = "bench"
             /\ s \notin {"off", "over"}
  <2>1. CASE p = "reboots"
    BY <1>2, <2>1 DEF AtOf, CheckSteps, Hard
  <2>2. CASE p = "concurrent"
    BY <1>2, <2>2 DEF AtOf, CheckSteps, Hard
  <2>3. CASE p = "fastboot"
    BY <1>2, <2>3 DEF AtOf, CheckSteps, Hard
  <2>4. CASE p = "idle"
    BY <1>2, <2>4 DEF AtOf, CheckSteps, Hard
  <2>5. CASE p = "bench"
    BY <1>2, <2>5 DEF AtOf, CheckSteps, Hard
  <2>6. CASE p = "check"
    BY <1>2, <2>6 DEF AtOf, CheckSteps, Hard
  <2>7. CASE p = "run"
    BY <1>2, <2>7 DEF AtOf, CheckSteps, Hard
  <2> QED
    BY <2>1, <2>2, <2>3, <2>4, <2>5, <2>6, <2>7 DEF AllPhases, Phases
<1>3. "off" \notin CheckSteps /\ "over" \notin CheckSteps
  BY DEF CheckSteps
<1> QED
  BY <1>1, <1>2, <1>3

\* What the types say of the world and of the files.
LEMMA WorldTypes ==
  ASSUME RigInv
  PROVE  /\ watch \in {"adb", "leaving", "loading", "fastboot", "down"}
         /\ trouble \in 0 .. MaxTrouble
         /\ DOMAIN xfer = {"push", "pull"} /\ DOMAIN files = {"a", "b", "back"}
         /\ \A f \in DOMAIN files : files[f] \in {"none", "partial", "damaged", "whole"}
         /\ ~image => watch # "leaving"
  BY DEF RigInv, RigTypeOK, Moved, CameBack

(***************************************************************************)
(* A round, or a phase, is over.                                           *)
(***************************************************************************)
LEMMA EndPhaseKeeps ==
  ASSUME RigInv, at \notin {"off", "over"}, NEW v \in {"pass", "fail", "lost"}, EndPhase(v),
         UNCHANGED <<image, watch>>, trouble' \in 0 .. MaxTrouble, DOMAIN files' = DOMAIN files,
         \A f \in DOMAIN files' : files'[f] \in {"none", "partial", "damaged", "whole"}
  PROVE  RigTypeOK' /\ AtPhase' /\ Rounding' /\ Moved' /\ CameBack'
<1>1. /\ results' = [results EXCEPT ![Phase] = v]
      /\ todo' = Tail(todo) /\ round' = 1 /\ passed' = 0
      /\ seen' = {} /\ deed' = {} /\ xfer' = Still
      /\ at' = IF Len(todo) = 1 THEN "over" ELSE Enter(todo[2])
  BY DEF EndPhase, NewRound
<1>2. todo \in Seq(AllPhases) /\ todo # << >>
  BY AtWhich DEF RigInv, AtPhase
<1>3. /\ todo' \in Seq(AllPhases) /\ Len(todo') = Len(todo) - 1 /\ Len(todo) \in Nat \ {0}
      /\ \A i \in 1 .. Len(todo') : todo'[i] = todo[i + 1]
  BY <1>1, <1>2, HeadTailProperties, EmptySeq
<1>4. AtPhase' /\ at' \notin {"trace", "booted"}
  <2>1. CASE Len(todo) = 1
    BY <1>1, <1>3, <2>1 DEF AtPhase
  <2>2. CASE Len(todo) # 1
    <3>1. Len(todo') \in Nat \ {0} /\ 1 \in 1 .. Len(todo')
      BY <1>3, <2>2
    <3>2. todo' # << >> /\ todo'[1] = todo[2] /\ Head(todo') = todo'[1]
      BY <1>3, <3>1
    <3>3. todo[2] \in AllPhases
      BY <1>3, <3>1, <3>2, ElementOfSeq
    <3> QED
      BY <1>1, <1>3, <2>2, <3>2, <3>3, AtSets DEF AtPhase, Phase
  <2> QED
    BY <2>1, <2>2
<1>5. RigTypeOK' /\ Rounding'
  <2>1. round' \in 1 .. Rounds /\ passed' \in 0 .. Rounds
    BY <1>1, RigAssumption
  <2>2. \A p \in DOMAIN results' : results'[p] \in {"none", "pass", "fail", "lost"}
    BY <1>1 DEF RigInv, RigTypeOK
  <2> QED
    BY <1>1, <1>4, <2>1, <2>2 DEF RigInv, RigTypeOK, Rounding
<1>6. Moved'
  <2>1. Still.push = "idle" /\ Still.pull = "idle" /\ DOMAIN Still = {"push", "pull"}
    BY DEF Still
  <2> QED
    BY <1>1, <2>1 DEF RigInv, Moved
<1>7. CameBack'
  BY <1>1, <1>4 DEF RigInv, CameBack
<1> QED
  BY <1>4, <1>5, <1>6, <1>7

LEMMA EndRoundStep ==
  ASSUME RigInv, at \notin {"off", "over", "trace"}, NEW ok \in BOOLEAN, NEW goOn \in BOOLEAN,
         EndRound(ok, goOn), Phase = "bench" => at = "join",
         ok /\ Phase \in Hard => \A w \in Wanted(Phase) \ deed : image /\ w = "back",
         UNCHANGED <<files, image, watch>>, trouble' \in 0 .. MaxTrouble
  PROVE  RigInv'
<1>1. Phase \in AllPhases /\ at \in AtOf(Phase) /\ todo # << >>
  BY AtWhich DEF RigInv
<1>2. hollow' = hollow \cup IF ok THEN {Phase} \X (Wanted(Phase) \ deed) ELSE {}
  BY DEF EndRound
<1>3. NotHollow'
  <2> SUFFICES ASSUME NEW p \in Hard, NEW w \in Wanted(p), <<p, w>> \in hollow'
               PROVE  image /\ w = "back"
    BY DEF NotHollow, Wanted
  <2>1. CASE <<p, w>> \in hollow
    BY <2>1 DEF RigInv, NotHollow
  <2>2. CASE ok /\ <<p, w>> \in {Phase} \X (Wanted(Phase) \ deed)
    BY <2>2
  <2> QED
    BY <1>2, <2>1, <2>2
<1> DEFINE sum == IF ok THEN passed + 1 ELSE passed
           more == goOn /\ round < RoundsOf(Phase)
<1>4. \/ /\ more /\ round' = round + 1 /\ passed' = sum
         /\ at' = Again(Phase) /\ NewRound /\ UNCHANGED <<todo, results>>
      \/ ~more /\ Phase # "bench" /\ EndPhase(Grade(sum = RoundsOf(Phase)))
      \/ /\ ~more /\ Phase = "bench" /\ passed' = sum /\ at' = "trace"
         /\ NewRound /\ UNCHANGED <<todo, round, results>>
  BY DEF EndRound
<1>5. round \in 1 .. Rounds /\ passed \in Nat /\ passed <= round - 1 /\ Rounds \in Nat
  BY RigAssumption DEF RigInv, RigTypeOK, Rounding
<1>6. sum \in Nat /\ sum <= round
  BY <1>5
<1> HIDE DEF sum
<1>7. ASSUME NewRound PROVE Moved'
  <2>1. Still.push = "idle" /\ Still.pull = "idle" /\ DOMAIN Still = {"push", "pull"}
    BY DEF Still
  <2> QED
    BY <1>7, <2>1 DEF RigInv, Moved, NewRound
<1>8. CASE /\ more /\ round' = round + 1 /\ passed' = sum
           /\ at' = Again(Phase) /\ NewRound /\ UNCHANGED <<todo, results>>
  <2>1. round + 1 \in 1 .. Rounds
    BY <1>5, <1>8 DEF RoundsOf
  <2>2. at' \in AtOf(Phase) /\ at' \notin {"trace", "booted"}
    BY <1>1, <1>8, AtSets
  <2>3. RigTypeOK' /\ Rounding'
    BY <1>5, <1>6, <1>8, <2>1, <2>2 DEF RigInv, RigTypeOK, Rounding
  <2>4. AtPhase'
    BY <1>1, <1>8, <2>2 DEF RigInv, AtPhase, Phase
  <2>5. CameBack'
    BY <1>8, <2>2 DEF RigInv, CameBack, NewRound
  <2> QED
    BY <1>3, <1>7, <1>8, <2>3, <2>4, <2>5 DEF RigInv
<1>9. CASE ~more /\ Phase # "bench" /\ EndPhase(Grade(sum = RoundsOf(Phase)))
  <2>1. Grade(sum = RoundsOf(Phase)) \in {"pass", "fail", "lost"}
    BY DEF Grade
  <2> QED
    BY <1>3, <1>9, <2>1, WorldTypes, EndPhaseKeeps DEF RigInv
<1>10. CASE /\ ~more /\ Phase = "bench" /\ passed' = sum /\ at' = "trace"
            /\ NewRound /\ UNCHANGED <<todo, round, results>>
  <2>1. "trace" \in AtOf("bench")
    BY DEF AtOf
  <2>2. RigTypeOK' /\ Rounding'
    BY <1>5, <1>6, <1>10 DEF RigInv, RigTypeOK, Rounding
  <2>3. AtPhase'
    BY <1>1, <1>10, <2>1 DEF RigInv, AtPhase, Phase
  <2>4. CameBack'
    BY <1>10 DEF RigInv, CameBack, NewRound
  <2> QED
    BY <1>3, <1>7, <1>10, <2>2, <2>3, <2>4 DEF RigInv
<1> QED
  BY <1>4, <1>8, <1>9, <1>10

LEMMA QuitStep ==
  ASSUME RigInv, at \notin {"off", "over"}, Quit, UNCHANGED <<files, image, watch>>,
         trouble' \in 0 .. MaxTrouble
  PROVE  RigInv'
<1>1. EndPhase("fail") /\ hollow' = hollow
  BY DEF Quit
<1> QED
  BY <1>1, WorldTypes, EndPhaseKeeps DEF RigInv, NotHollow

\* A step to the next within a phase, which moves no file.
LEMMA GoStep ==
  ASSUME RigInv, at \notin {"off", "over", "trace"}, NEW saw, NEW doing,
         seen' = seen \cup saw, deed' = deed \cup doing,
         UNCHANGED <<todo, round, passed, results, hollow, xfer, image>>,
         at' \in AtOf(Phase), at' # "trace", ~image => at' # "booted",
         DOMAIN files' = DOMAIN files, files'.a \in {files.a, "none"}, files'.back = files.back,
         \A f \in DOMAIN files' : files'[f] \in {"none", "partial", "damaged", "whole"},
         watch' \in {"adb", "leaving", "loading", "fastboot", "down"}, trouble' \in 0 .. MaxTrouble,
         ~image => watch' # "leaving" /\ (watch' = "adb" => watch = "adb"),
         "pushed" \in saw => "pushed" \in deed,
         "vars" \in saw => "fastboot" \in doing /\ watch' = "fastboot"
  PROVE  RigInv'
<1>1. todo # << >>
  BY AtWhich DEF RigInv
<1>2. AtPhase'
  BY <1>1 DEF RigInv, AtPhase, Phase
<1>3. RigTypeOK' /\ Rounding'
  BY DEF RigInv, RigTypeOK, Rounding
<1>4. Moved'
  BY DEF RigInv, Moved
<1>5. CameBack' /\ NotHollow'
  BY DEF RigInv, CameBack, NotHollow
<1> QED
  BY <1>2, <1>3, <1>4, <1>5 DEF RigInv

\* The board, the watch and the bus: what they do between the tool's steps.
LEMMA WorldStep ==
  ASSUME RigInv, UNCHANGED <<todo, at, round, passed, seen, results, hollow, image>>,
         deed \subseteq deed',
         DOMAIN xfer' = DOMAIN xfer, DOMAIN files' = DOMAIN files,
         \A f \in DOMAIN files' : files'[f] \in {"none", "partial", "damaged", "whole"},
         xfer'.push = "ok" /\ files'.a = "whole" => (xfer.push = "ok" /\ files.a = "whole") \/ "pushed" \in deed',
         xfer'.pull = "ok" /\ files'.back = "whole" => (xfer.pull = "ok" /\ files.back = "whole") \/ "pulled" \in deed',
         watch' \in {"adb", "leaving", "loading", "fastboot", "down"}, trouble' \in 0 .. MaxTrouble,
         ~image => watch' # "leaving",
         ~image /\ watch' = "adb" /\ "vars" \in seen => watch = "adb" \/ "back" \in deed'
  PROVE  RigInv'
<1>1. AtPhase'
  BY DEF RigInv, AtPhase, Phase
<1>2. RigTypeOK' /\ Rounding'
  BY DEF RigInv, RigTypeOK, Rounding
<1>3. Moved'
  BY DEF RigInv, Moved
<1>4. CameBack' /\ NotHollow'
  BY DEF RigInv, CameBack, NotHollow
<1> QED
  BY <1>1, <1>2, <1>3, <1>4 DEF RigInv

LEMMA RigInit1 == (\E on \in BOOLEAN : RigInit(on)) => RigInv
<1> SUFFICES ASSUME NEW on \in BOOLEAN, RigInit(on) PROVE RigInv
  OBVIOUS
<1>1. AtPhase
  <2>1. CASE on
    <3>1. todo \in Tools /\ at = "start"
      BY <2>1 DEF RigInit
    <3>2. CASE todo \in {<<p>> : p \in Phases \cup {"bench", "check", "run"}}
      <4>1. PICK p \in AllPhases : todo = <<p>>
        BY <3>2 DEF AllPhases
      <4>2. todo \in Seq(AllPhases) /\ todo # << >> /\ Head(todo) = p
        BY <4>1
      <4>3. "start" \in AtOf(p)
        BY DEF AllPhases, Phases, AtOf
      <4> QED
        BY <3>1, <4>2, <4>3 DEF AtPhase, Phase
    <3>3. CASE todo = <<"reboots", "concurrent", "fastboot", "idle">>
      <4>1. {"reboots", "concurrent", "fastboot", "idle"} \subseteq AllPhases
        BY DEF AllPhases, Phases
      <4>2. todo \in Seq(AllPhases) /\ todo # << >> /\ Head(todo) = "reboots"
        BY <3>3, <4>1
      <4>3. "start" \in AtOf("reboots")
        BY DEF AtOf
      <4> QED
        BY <3>1, <4>2, <4>3 DEF AtPhase, Phase
    <3> QED
      BY <3>1, <3>2, <3>3 DEF Tools
  <2>2. CASE ~on
    BY <2>2, EmptySeq DEF RigInit, AtPhase
  <2> QED
    BY <2>1, <2>2
<1>2. at \in {"off", "start"} /\ watch = "adb" /\ trouble \in 0 .. MaxTrouble
      /\ xfer = Still /\ files = [a |-> "none", b |-> "none", back |-> "none"]
      /\ seen = {} /\ deed = {} /\ hollow = {}
      /\ results = [p \in Phases \cup {"bench", "check", "run"} |-> "none"]
  BY RigAssumption DEF RigInit
<1>3. round \in 1 .. Rounds /\ passed \in 0 .. Rounds /\ passed <= round - 1
  <2>1. round = 1 /\ passed = 0 /\ Rounds \in Nat \ {0}
    BY RigAssumption DEF RigInit
  <2> QED
    BY <2>1
<1>4. RigTypeOK
  BY <1>2, <1>3 DEF RigTypeOK
<1>5. Rounding /\ CameBack /\ NotHollow
  BY <1>2, <1>3 DEF Rounding, CameBack, NotHollow
<1>6. Moved
  BY <1>2 DEF Moved, Still
<1> QED
  BY <1>1, <1>4, <1>5, <1>6 DEF RigInv

LEMMA EmptySees == \A x : x \notin {}
  OBVIOUS

LEMMA Spent ==
  ASSUME RigInv
  PROVE  trouble > 0 => trouble - 1 \in 0 .. MaxTrouble
<1>1. trouble \in Nat /\ trouble <= MaxTrouble /\ MaxTrouble \in Nat
  BY WorldTypes, RigAssumption
<1> QED
  BY <1>1

LEMMA FailsSpends == ASSUME RigInv, NEW there, Fails(there) PROVE trouble' \in 0 .. MaxTrouble
  BY Spent, WorldTypes DEF Fails

\* A step to the next that only looks, or acts on the board.
LEMMA LookStep ==
  ASSUME RigInv, NEW from, NEW to, NEW saw, NEW doing, Go(from, to, saw, doing),
         from \notin {"off", "over", "trace"}, to \in AtOf(Phase), to # "trace", ~image => to # "booted",
         UNCHANGED <<xfer, files, image, watch>>, trouble' \in 0 .. MaxTrouble,
         "pushed" \notin saw,
         "vars" \in saw => "fastboot" \in doing /\ watch = "fastboot"
  PROVE  RigInv'
<1>1. /\ at = from /\ at' = to /\ seen' = seen \cup saw /\ deed' = deed \cup doing
      /\ UNCHANGED <<todo, round, passed, results, hollow>>
  BY DEF Go
<1> QED
  BY <1>1, WorldTypes, GoStep

\* A round that is lost grades nothing as done.
LEMMA FailStep ==
  ASSUME RigInv, at \notin {"off", "over", "trace"}, EndRound(FALSE, TRUE), Phase # "bench",
         UNCHANGED <<files, image, watch, trouble>>
  PROVE  RigInv'
  BY EndRoundStep, WorldTypes

LEMMA RigStartStep == ASSUME RigInv, RigStart PROVE RigInv'
<1>1. at = "start" /\ UNCHANGED <<files, image, watch, trouble>>
  BY DEF RigStart, world
<1>2. Phase \in AllPhases
  BY <1>1, AtWhich DEF RigInv
<1>3. Enter(Phase) \in AtOf(Phase) /\ Enter(Phase) \notin {"trace", "booted"}
  BY <1>2, AtSets
<1>4. CASE Go("start", Enter(Phase), {}, {}) /\ UNCHANGED xfer
  BY <1>1, <1>3, <1>4, WorldTypes, LookStep
<1>5. CASE Quit
  BY <1>1, <1>5, WorldTypes, QuitStep
<1> QED
  BY <1>4, <1>5 DEF RigStart

LEMMA RebootBoardStep == ASSUME RigInv, RebootBoard PROVE RigInv'
<1>1. UNCHANGED <<xfer, files, image, watch>> /\ at = "reboot"
  BY DEF RebootBoard, Go
<1>2. Phase = "reboots"
  BY <1>1, AtWhich DEF RigInv
<1>3. "prompt" \in AtOf(Phase)
  BY <1>2 DEF AtOf, CheckSteps
<1>4. PICK doing \in {{}, {"booted"}} : Go("reboot", "prompt", {}, doing) /\ trouble' \in 0 .. MaxTrouble
  BY WorldTypes, FailsSpends DEF RebootBoard
<1> QED
  BY <1>1, <1>3, <1>4, LookStep

LEMMA FelStep == ASSUME RigInv, Fel PROVE RigInv'
<1>1. at = "fel" /\ UNCHANGED <<files, image, watch, trouble>>
  BY DEF Fel
<1>2. Phase = "run"
  BY <1>1, AtWhich DEF RigInv
<1>3. "console" \in AtOf(Phase)
  BY <1>2 DEF AtOf
<1>4. CASE Quit
  BY <1>1, <1>4, WorldTypes, QuitStep
<1>5. CASE Go("fel", "console", {}, {}) /\ UNCHANGED xfer
  BY <1>1, <1>3, <1>5, WorldTypes, LookStep
<1> QED
  BY <1>4, <1>5 DEF Fel

LEMMA WaitConsoleStep == ASSUME RigInv, WaitConsole PROVE RigInv'
<1>1. at = "console" /\ UNCHANGED <<files, image, watch, trouble>>
  BY DEF WaitConsole, world
<1>2. Phase = "run"
  BY <1>1, AtWhich DEF RigInv
<1>3. "prompt" \in AtOf(Phase)
  BY <1>2 DEF AtOf, CheckSteps
<1>4. CASE Quit
  BY <1>1, <1>4, WorldTypes, QuitStep
<1>5. CASE Go("console", "prompt", {}, {}) /\ UNCHANGED xfer
  BY <1>1, <1>3, <1>5, WorldTypes, LookStep
<1> QED
  BY <1>4, <1>5 DEF WaitConsole

\* The check can be reached in every phase it grades.
LEMMA Checking ==
  ASSUME RigInv, at \in CheckSteps
  PROVE  Phase \in AllPhases /\ Phase \notin Hard /\ CheckSteps \subseteq AtOf(Phase)
<1>1. Phase \in AllPhases /\ Phase \notin Hard
  BY AtWhich DEF RigInv, CheckSteps
<1> QED
  BY <1>1 DEF AllPhases, Phases, Hard, AtOf

LEMMA CheckStep ==
  ASSUME RigInv, Prompt \/ Status \/ Look \/ Unwedge \/ LookAgain \/ Verdict
  PROVE  RigInv'
<1>1. at \in CheckSteps /\ UNCHANGED <<files, image, watch, trouble>>
  BY DEF Prompt, Status, Look, Unwedge, LookAgain, Verdict, Go, world, CheckSteps
<1>2. Phase \in AllPhases /\ Phase \notin Hard /\ CheckSteps \subseteq AtOf(Phase)
  BY <1>1, Checking
<1>3. Phase # "bench" /\ at \notin {"off", "over", "trace"}
  BY <1>1, <1>2 DEF Hard, CheckSteps
<1>4. ASSUME NEW from \in CheckSteps, NEW to \in CheckSteps, NEW saw, Go(from, to, saw, {}), UNCHANGED xfer,
             "pushed" \notin saw, "vars" \notin saw
      PROVE  RigInv'
  <2>1. from \notin {"off", "over", "trace"} /\ to \notin {"trace", "booted"} /\ to \in AtOf(Phase)
    BY <1>2, <1>4 DEF CheckSteps
  <2> QED
    BY <1>1, <1>4, <2>1, WorldTypes, LookStep
<1>5. /\ "prompt" \in CheckSteps /\ "status" \in CheckSteps /\ "look" \in CheckSteps
      /\ "unwedge" \in CheckSteps /\ "look again" \in CheckSteps /\ "verdict" \in CheckSteps
  BY DEF CheckSteps
<1>6. CASE Prompt
  <2>1. (Go("prompt", "status", {}, {}) /\ UNCHANGED xfer) \/ EndRound(FALSE, TRUE)
    BY <1>6 DEF Prompt
  <2> QED
    BY <1>1, <1>3, <1>4, <1>5, <2>1, FailStep
<1>7. CASE Status
  <2>1. (Go("status", "look", If(RowsPass, "rows"), {}) /\ UNCHANGED xfer) \/ EndRound(FALSE, TRUE)
    BY <1>7 DEF Status
  <2>2. "pushed" \notin If(RowsPass, "rows") /\ "vars" \notin If(RowsPass, "rows")
    BY DEF If
  <2> QED
    BY <1>1, <1>3, <1>4, <1>5, <2>1, <2>2, FailStep
<1>8. CASE Look
  <2>1. Go("look", IF Adb THEN "verdict" ELSE "unwedge", If(Adb, "listed"), {}) /\ UNCHANGED xfer
    BY <1>8 DEF Look
  <2>2. "pushed" \notin If(Adb, "listed") /\ "vars" \notin If(Adb, "listed")
    BY DEF If
  <2>3. (IF Adb THEN "verdict" ELSE "unwedge") \in CheckSteps
    BY <1>5
  <2> QED
    BY <1>4, <1>5, <2>1, <2>2, <2>3
<1>9. CASE Unwedge
  BY <1>4, <1>5, <1>9 DEF Unwedge
<1>10. CASE LookAgain
  <2>1. Go("look again", "verdict", If(Adb, "listed"), {}) /\ UNCHANGED xfer
    BY <1>10 DEF LookAgain
  <2>2. "pushed" \notin If(Adb, "listed") /\ "vars" \notin If(Adb, "listed")
    BY DEF If
  <2> QED
    BY <1>4, <1>5, <2>1, <2>2
<1>11. CASE Verdict
  <2>1. EndRound(CheckPasses /\ (Phase = "idle" => "shell" \in seen), TRUE)
    BY <1>11 DEF Verdict
  <2>2. (CheckPasses /\ (Phase = "idle" => "shell" \in seen)) \in BOOLEAN
    BY DEF CheckPasses
  <2> QED
    BY <1>1, <1>2, <1>3, <2>1, <2>2, WorldTypes, EndRoundStep
<1> QED
  BY <1>6, <1>7, <1>8, <1>9, <1>10, <1>11

LEMMA IdleStep == ASSUME RigInv, Idle PROVE RigInv'
<1>1. Go("idle", "prompt", If(Adb, "shell"), {}) /\ UNCHANGED <<xfer, files, image, watch, trouble>>
  BY DEF Idle, world
<1>2. Phase = "idle"
  BY <1>1, AtWhich DEF RigInv, Go
<1>3. "prompt" \in AtOf(Phase)
  BY <1>2 DEF AtOf, CheckSteps
<1>4. "pushed" \notin If(Adb, "shell") /\ "vars" \notin If(Adb, "shell")
  BY DEF If
<1> QED
  BY <1>1, <1>3, <1>4, WorldTypes, LookStep

-----------------------------------------------------------------------------
\* The transfers.
LEMMA SeedStep == ASSUME RigInv, Seed PROVE RigInv'
<1>1. at = "seed" /\ UNCHANGED <<image, rig, watch>>
  BY DEF Seed
<1>2. Phase = "concurrent" /\ "transfer" \in AtOf("concurrent")
  BY <1>1, AtWhich DEF RigInv, AtOf
<1>3. CASE Fails(Adb) /\ Quit /\ files' \in {files, [files EXCEPT !.b = "partial"]}
  <2>1. DOMAIN files' = DOMAIN files
        /\ \A f \in DOMAIN files' : files'[f] \in {"none", "partial", "damaged", "whole"}
    BY <1>3, WorldTypes
  <2>2. EndPhase("fail") /\ hollow' = hollow /\ trouble' \in 0 .. MaxTrouble
    BY <1>3, FailsSpends DEF Quit
  <2> QED
    BY <1>1, <2>1, <2>2, EndPhaseKeeps DEF RigInv, NotHollow
<1>4. ASSUME NEW x \in {"damaged", "whole"}, files' = [files EXCEPT !.b = x], Go("seed", "transfer", {}, {}),
             UNCHANGED xfer, trouble' \in 0 .. MaxTrouble
      PROVE  RigInv'
  <2>1. DOMAIN files' = DOMAIN files /\ files'.a = files.a /\ files'.back = files.back
        /\ \A f \in DOMAIN files' : files'[f] \in {"none", "partial", "damaged", "whole"}
    BY <1>4, WorldTypes
  <2>2. /\ at' = "transfer" /\ seen' = seen \cup {} /\ deed' = deed \cup {}
        /\ UNCHANGED <<todo, round, passed, results, hollow>>
    BY <1>4 DEF Go
  <2> QED
    BY <1>1, <1>2, <1>4, <2>1, <2>2, WorldTypes, GoStep
<1>5. trouble \in Nat /\ trouble <= MaxTrouble /\ MaxTrouble \in Nat
  BY WorldTypes, RigAssumption
<1>6. trouble > 0 => trouble - 1 \in 0 .. MaxTrouble
  BY <1>5
<1>7. CASE Adb /\ files' = [files EXCEPT !.b = "whole"] /\ Go("seed", "transfer", {}, {})
           /\ UNCHANGED <<xfer, trouble>>
  BY <1>4, <1>7, WorldTypes
<1>8. CASE Adb /\ trouble > 0 /\ trouble' = trouble - 1
           /\ files' = [files EXCEPT !.b = "damaged"] /\ Go("seed", "transfer", {}, {})
           /\ UNCHANGED xfer
  BY <1>4, <1>6, <1>8
<1> QED
  BY <1>3, <1>7, <1>8 DEF Seed

\* Two transfers that are only due have moved nothing.
LEMMA StartTransferStep == ASSUME RigInv, StartTransfer PROVE RigInv'
<1>1. /\ at = "transfer" /\ at' = "join" /\ seen' = seen /\ deed' = deed
      /\ UNCHANGED <<todo, round, passed, results, hollow, image, rig, watch, trouble>>
      /\ xfer' = [push |-> "due", pull |-> IF Phase = "bench" THEN "idle" ELSE "due"]
      /\ files' = IF Phase = "bench" THEN files ELSE [files EXCEPT !.back = "none"]
  BY DEF StartTransfer, Go, world
<1>2. Phase \in {"concurrent", "bench"} /\ todo # << >>
  BY <1>1, AtWhich DEF RigInv
<1>3. "join" \in AtOf(Phase)
  BY <1>2 DEF AtOf
<1>4. AtPhase'
  BY <1>1, <1>2, <1>3 DEF RigInv, AtPhase, Phase
<1>5. DOMAIN files' = DOMAIN files
      /\ \A f \in DOMAIN files' : files'[f] \in {"none", "partial", "damaged", "whole"}
  BY <1>1, WorldTypes
<1>6. RigTypeOK' /\ Rounding'
  BY <1>1, <1>5 DEF RigInv, RigTypeOK, Rounding
<1>7. Moved'
  <2>1. DOMAIN xfer' = {"push", "pull"} /\ xfer'.push # "ok" /\ xfer'.pull # "ok"
    BY <1>1
  <2> QED
    BY <1>1, <1>5, <2>1 DEF RigInv, Moved
<1>8. CameBack' /\ NotHollow'
  BY <1>1 DEF RigInv, CameBack, NotHollow
<1> QED
  BY <1>4, <1>6, <1>7, <1>8 DEF RigInv

LEMMA BeginStep == ASSUME RigInv, NEW t \in {"push", "pull"}, Begin(t) PROVE RigInv'
<1>1. /\ UNCHANGED <<todo, at, round, passed, seen, results, deed, hollow, image, rig, watch>>
      /\ trouble' \in 0 .. MaxTrouble
  BY WorldTypes, FailsSpends DEF Begin, progress
<1>2. \/ xfer' = [xfer EXCEPT ![t] = "runs"] /\ files' = [files EXCEPT ![Target(t)] = "partial"]
      \/ xfer' = [xfer EXCEPT ![t] = "failed"] /\ UNCHANGED files
  BY DEF Begin
<1>3. DOMAIN xfer' = DOMAIN xfer /\ DOMAIN files' = DOMAIN files
      /\ \A f \in DOMAIN files' : files'[f] \in {"none", "partial", "damaged", "whole"}
  BY <1>2, WorldTypes
<1>4. CASE t = "push"
  <2>1. xfer'.push # "ok" /\ xfer'.pull = xfer.pull /\ files'.back = files.back
    BY <1>2, <1>4, WorldTypes DEF Target
  <2> QED
    BY <1>1, <1>3, <2>1, WorldTypes, WorldStep
<1>5. CASE t = "pull"
  <2>1. xfer'.pull # "ok" /\ xfer'.push = xfer.push /\ files'.a = files.a
    BY <1>2, <1>5, WorldTypes DEF Target
  <2> QED
    BY <1>1, <1>3, <2>1, WorldTypes, WorldStep
<1> QED
  BY <1>4, <1>5

LEMMA EndStep == ASSUME RigInv, NEW t \in {"push", "pull"}, End(t) PROVE RigInv'
<1>1. UNCHANGED <<todo, at, round, passed, seen, results, hollow, image, rig, watch>>
  BY DEF End
<1>2. trouble \in Nat /\ trouble <= MaxTrouble /\ MaxTrouble \in Nat
  BY WorldTypes, RigAssumption
<1>3. trouble > 0 => trouble - 1 \in 0 .. MaxTrouble
  BY <1>2
<1>4. Source(t) \in {"none", "partial", "damaged", "whole"}
  BY WorldTypes DEF Source
<1>5. CASE Fails(xfer[t] = "runs") /\ xfer' = [xfer EXCEPT ![t] = "failed"] /\ UNCHANGED <<files, deed>>
  <2>1. DOMAIN xfer' = DOMAIN xfer
        /\ (xfer'.push = "ok" => xfer.push = "ok") /\ (xfer'.pull = "ok" => xfer.pull = "ok")
    BY <1>5, WorldTypes
  <2>2. trouble' \in 0 .. MaxTrouble
    BY <1>5, FailsSpends
  <2> QED
    BY <1>1, <1>5, <2>1, <2>2, WorldTypes, WorldStep
<1>6. ASSUME NEW x \in {"none", "partial", "damaged", "whole"}, files' = [files EXCEPT ![Target(t)] = x],
             trouble' \in 0 .. MaxTrouble, xfer' = [xfer EXCEPT ![t] = "ok"],
             deed' = deed \cup If(files'[Target(t)] = "whole", IF t = "push" THEN "pushed" ELSE "pulled")
      PROVE  RigInv'
  <2>1. DOMAIN xfer' = DOMAIN xfer /\ DOMAIN files' = DOMAIN files
        /\ \A f \in DOMAIN files' : files'[f] \in {"none", "partial", "damaged", "whole"}
    BY <1>6, WorldTypes
  <2>2. CASE t = "push"
    <3>1. xfer'.pull = xfer.pull /\ files'.back = files.back
      BY <1>6, <2>2, WorldTypes DEF Target
    <3>2. deed \subseteq deed' /\ (files'.a = "whole" => "pushed" \in deed')
      BY <1>6, <2>2 DEF If, Target
    <3> QED
      BY <1>1, <1>6, <2>1, <3>1, <3>2, WorldTypes, WorldStep
  <2>3. CASE t = "pull"
    <3>1. xfer'.push = xfer.push /\ files'.a = files.a
      BY <1>6, <2>3, WorldTypes DEF Target
    <3>2. deed \subseteq deed' /\ (files'.back = "whole" => "pulled" \in deed')
      BY <1>6, <2>3 DEF If, Target
    <3> QED
      BY <1>1, <1>6, <2>1, <3>1, <3>2, WorldTypes, WorldStep
  <2> QED
    BY <2>2, <2>3
<1>7. CASE files' = [files EXCEPT ![Target(t)] = Source(t)] /\ UNCHANGED trouble
           /\ xfer' = [xfer EXCEPT ![t] = "ok"]
           /\ deed' = deed \cup If(files'[Target(t)] = "whole", IF t = "push" THEN "pushed" ELSE "pulled")
  BY <1>4, <1>6, <1>7, WorldTypes
<1>8. CASE trouble > 0 /\ trouble' = trouble - 1
           /\ files' = [files EXCEPT ![Target(t)] = "damaged"]
           /\ xfer' = [xfer EXCEPT ![t] = "ok"]
           /\ deed' = deed \cup If(files'[Target(t)] = "whole", IF t = "push" THEN "pushed" ELSE "pulled")
  BY <1>3, <1>6, <1>8
<1> QED
  BY <1>5, <1>7, <1>8 DEF End

\* Both sums right and both transfers done: both files were moved whole.
LEMMA SumsTell ==
  ASSUME RigInv, NEW pushed, NEW pulled, BothSums(pushed, pulled),
         pushed = "whole" => files.a = "whole" \/ "pushed" \in deed,
         pulled = "whole" => files.back = "whole"
  PROVE  {"pushed", "pulled"} \subseteq deed
<1>1. xfer = [push |-> "ok", pull |-> "ok"] /\ pushed = "whole" /\ pulled = "whole"
  BY DEF BothSums
<1>2. xfer.push = "ok" /\ xfer.pull = "ok"
  BY <1>1
<1> QED
  BY <1>1, <1>2 DEF RigInv, Moved

LEMMA GradeConcurrentStep == ASSUME RigInv, GradeConcurrent PROVE RigInv'
<1>1. at = "join" /\ Phase = "concurrent" /\ UNCHANGED <<files, image, watch>>
  BY DEF GradeConcurrent
<1>2. Adb \in BOOLEAN
  BY DEF Adb
<1>3. PICK sum \in {files.a, "?"}, back \in {Adb, TRUE} :
        LET ok == BothSums(sum, files.back)
        IN /\ IF sum = "?" THEN Fails(Adb) ELSE Adb /\ UNCHANGED trouble
           /\ EndRound(ok, ok \/ back)
  BY DEF GradeConcurrent
<1> DEFINE ok == BothSums(sum, files.back)
<1>4. EndRound(ok, ok \/ back) /\ trouble' \in 0 .. MaxTrouble
  BY <1>3, WorldTypes, FailsSpends
<1>5. ok \in BOOLEAN
  BY DEF BothSums
<1>6. ok => Wanted(Phase) \ deed = {}
  <2>1. sum = "whole" => files.a = "whole"
    OBVIOUS
  <2>2. ok => {"pushed", "pulled"} \subseteq deed
    BY <2>1, SumsTell
  <2>3. Wanted(Phase) = {"pushed", "pulled"}
    BY <1>1 DEF Wanted
  <2> QED
    BY <2>2, <2>3
<1> HIDE DEF ok
<1>7. (ok \/ back) \in BOOLEAN
  BY <1>2, <1>5
<1>8. ok /\ Phase \in Hard => \A w \in Wanted(Phase) \ deed : image /\ w = "back"
  BY <1>6
<1> QED
  BY <1>1, <1>4, <1>5, <1>7, <1>8, EndRoundStep

LEMMA SumPushedStep == ASSUME RigInv, SumPushed PROVE RigInv'
<1>1. /\ at = "join" /\ Phase = "bench" /\ xfer.pull = "idle" /\ UNCHANGED <<files, image, rig, watch>>
      /\ trouble' \in 0 .. MaxTrouble
  BY WorldTypes, FailsSpends DEF SumPushed
<1>2. CASE Quit
  BY <1>1, <1>2, QuitStep
<1>3. CASE xfer.push = "ok" /\ Go("join", "join", If(files.a = "whole", "pushed"), {})
           /\ xfer' = [xfer EXCEPT !.pull = "due"]
  <2>1. /\ at' = "join" /\ seen' = seen \cup If(files.a = "whole", "pushed") /\ deed' = deed
        /\ UNCHANGED <<todo, round, passed, results, hollow>>
    BY <1>3 DEF Go
  <2>2. DOMAIN xfer' = {"push", "pull"} /\ xfer'.push = "ok" /\ xfer'.pull # "ok"
    BY <1>3, WorldTypes
  <2>3. "pushed" \in seen' => "pushed" \in deed
    BY <1>3, <2>1 DEF If, RigInv, Moved
  <2>4. Moved'
    BY <1>1, <1>3, <2>1, <2>2, <2>3 DEF RigInv, Moved
  <2>5. "vars" \in seen' => "vars" \in seen
    BY <2>1 DEF If
  <2>6. CameBack' /\ NotHollow'
    BY <1>1, <2>1, <2>5 DEF RigInv, CameBack, NotHollow
  <2>7. AtPhase' /\ RigTypeOK' /\ Rounding'
    BY <1>1, <2>1 DEF RigInv, AtPhase, Phase, RigTypeOK, Rounding
  <2> QED
    BY <2>4, <2>6, <2>7 DEF RigInv
<1> QED
  BY <1>2, <1>3 DEF SumPushed

LEMMA GradeBenchStep == ASSUME RigInv, GradeBench PROVE RigInv'
<1> DEFINE ok == BothSums(IF "pushed" \in seen THEN "whole" ELSE "?", files.back)
<1>1. at = "join" /\ Phase = "bench" /\ UNCHANGED <<files, image, watch, trouble>>
  BY DEF GradeBench, world
<1>2. ok \in BOOLEAN
  BY DEF BothSums
<1>3. ok => Wanted(Phase) \ deed = {}
  <2>1. (IF "pushed" \in seen THEN "whole" ELSE "?") = "whole" => "pushed" \in deed
    BY DEF RigInv, Moved
  <2>2. ok => {"pushed", "pulled"} \subseteq deed
    BY <2>1, SumsTell
  <2>3. Wanted(Phase) = {"pushed", "pulled"}
    BY <1>1 DEF Wanted
  <2> QED
    BY <2>2, <2>3
<1>4. EndRound(ok, TRUE) \/ Quit
  BY DEF GradeBench
<1> HIDE DEF ok
<1>5. CASE Quit
  BY <1>1, <1>5, WorldTypes, QuitStep
<1>6. CASE EndRound(ok, TRUE)
  <2>1. ok /\ Phase \in Hard => \A w \in Wanted(Phase) \ deed : image /\ w = "back"
    BY <1>3
  <2> QED
    BY <1>1, <1>2, <1>6, <2>1, WorldTypes, EndRoundStep
<1> QED
  BY <1>4, <1>5, <1>6

LEMMA TraceStep == ASSUME RigInv, Trace PROVE RigInv'
<1>1. at = "trace" /\ UNCHANGED <<hollow, files, image, watch, trouble>>
  BY DEF Trace, world
<1>2. Grade(passed = Rounds) \in {"pass", "fail", "lost"}
  BY DEF Grade
<1>3. PICK v \in {"pass", "fail", "lost"} : EndPhase(v)
  BY <1>2 DEF Trace
<1>4. RigTypeOK' /\ AtPhase' /\ Rounding' /\ Moved' /\ CameBack'
  BY <1>1, <1>3, WorldTypes, EndPhaseKeeps
<1> QED
  BY <1>1, <1>4 DEF RigInv, NotHollow

-----------------------------------------------------------------------------
\* The fastboot cycles.
LEMMA GoneKeeps ==
  ASSUME RigInv
  PROVE  /\ DOMAIN Gone(files) = DOMAIN files /\ Gone(files).a = "none" /\ Gone(files).back = files.back
         /\ \A f \in DOMAIN Gone(files) : Gone(files)[f] \in {"none", "partial", "damaged", "whole"}
  BY WorldTypes DEF Gone

LEMMA ToBootloaderStep == ASSUME RigInv, ToBootloader PROVE RigInv'
<1>1. /\ at = "bootloader" /\ at' = "wait fastboot"
      /\ seen' = seen \cup {} /\ deed' = deed \cup {}
      /\ UNCHANGED <<todo, round, passed, results, hollow, xfer, image, rig>>
      /\ trouble' \in 0 .. MaxTrouble
      /\ \/ watch' = "loading" /\ files' = Gone(files)
         \/ watch' = watch /\ files' = files
  BY WorldTypes, FailsSpends DEF ToBootloader, Go
<1>2. Phase = "fastboot" /\ "wait fastboot" \in AtOf("fastboot")
  BY <1>1, AtWhich DEF RigInv, AtOf
<1>3. CASE watch' = "loading" /\ files' = Gone(files)
  BY <1>1, <1>2, <1>3, GoneKeeps, WorldTypes, GoStep
<1>4. CASE watch' = watch /\ files' = files
  BY <1>1, <1>2, <1>4, WorldTypes, GoStep
<1> QED
  BY <1>1, <1>3, <1>4

LEMMA WaitFastbootStep == ASSUME RigInv, WaitFastboot PROVE RigInv'
<1>1. at = "wait fastboot" /\ UNCHANGED <<files, image, watch, trouble>>
  BY DEF WaitFastboot, world
<1>2. Phase = "fastboot" /\ "getvar" \in AtOf("fastboot")
  BY <1>1, AtWhich DEF RigInv, AtOf
<1>3. CASE Go("wait fastboot", "getvar", {}, {}) /\ UNCHANGED xfer
  BY <1>1, <1>2, <1>3, WorldTypes, LookStep
<1>4. CASE EndRound(FALSE, TRUE)
  BY <1>1, <1>2, <1>4, FailStep
<1> QED
  BY <1>3, <1>4 DEF WaitFastboot

LEMMA GetVarsStep == ASSUME RigInv, GetVars PROVE RigInv'
<1>1. at = "getvar" /\ UNCHANGED <<xfer, files, image, watch>>
  BY DEF GetVars, Go
<1>2. Phase = "fastboot" /\ "leave" \in AtOf("fastboot")
  BY <1>1, AtWhich DEF RigInv, AtOf
<1>3. CASE Fastboot /\ Go("getvar", "leave", {"vars"}, {"fastboot"}) /\ UNCHANGED trouble
  <2>1. watch = "fastboot"
    BY <1>3 DEF Fastboot
  <2> QED
    BY <1>1, <1>2, <1>3, <2>1, WorldTypes, LookStep
<1>4. CASE Fails(Fastboot) /\ Go("getvar", "leave", {}, If(Fastboot, "fastboot"))
  <2>1. trouble' \in 0 .. MaxTrouble
    BY <1>4, FailsSpends
  <2> QED
    BY <1>1, <1>2, <1>4, <2>1, LookStep
<1> QED
  BY <1>3, <1>4 DEF GetVars

LEMMA LeaveStep == ASSUME RigInv, Leave PROVE RigInv'
<1>1. /\ at = "leave" /\ at' = (IF image THEN "booted" ELSE "wait back")
      /\ seen' = seen \cup {} /\ deed' = deed \cup {}
      /\ UNCHANGED <<todo, round, passed, results, hollow, xfer, files, image, rig>>
      /\ trouble' \in 0 .. MaxTrouble
  BY WorldTypes, FailsSpends DEF Leave, Go
<1>2. Phase = "fastboot" /\ "booted" \in AtOf("fastboot") /\ "wait back" \in AtOf("fastboot")
  BY <1>1, AtWhich DEF RigInv, AtOf
<1>3. watch' \in {"down", watch}
  BY DEF Leave
<1> QED
  BY <1>1, <1>2, <1>3, WorldTypes, GoStep

\* Only a cycle that boots an image gets here.
LEMMA LeaveImageStep == ASSUME RigInv, LeaveImage PROVE RigInv'
<1>1. /\ at = "booted" /\ at' = "wait back"
      /\ UNCHANGED <<todo, round, passed, seen, results, hollow, xfer, files, image, rig>>
      /\ watch' \in {"leaving", watch} /\ deed' = deed \ {"back"} /\ trouble' \in 0 .. MaxTrouble
  BY WorldTypes, FailsSpends DEF LeaveImage
<1>2. image /\ Phase = "fastboot" /\ todo # << >> /\ "wait back" \in AtOf("fastboot")
  BY <1>1, AtWhich DEF RigInv, AtOf, CameBack
<1>3. AtPhase'
  BY <1>1, <1>2 DEF RigInv, AtPhase, Phase
<1>4. RigTypeOK' /\ Rounding'
  BY <1>1 DEF RigInv, RigTypeOK, Rounding
<1>5. \A d \in {"pushed", "pulled", "fastboot"} : d \in deed => d \in deed'
  BY <1>1
<1>6. Moved'
  BY <1>1, <1>5 DEF RigInv, Moved
<1>7. CameBack' /\ NotHollow'
  BY <1>1, <1>2, <1>5 DEF RigInv, CameBack, NotHollow
<1> QED
  BY <1>3, <1>4, <1>6, <1>7 DEF RigInv

LEMMA WaitBackStep == ASSUME RigInv, WaitBack PROVE RigInv'
<1> DEFINE ok == Adb /\ "vars" \in seen
<1>1. at = "wait back" /\ EndRound(ok, Adb) /\ UNCHANGED <<files, image, watch, trouble>>
  BY DEF WaitBack, world
<1>2. Phase = "fastboot" /\ Wanted(Phase) = {"fastboot", "back"}
  BY <1>1, AtWhich DEF RigInv, Wanted
<1>3. ok \in BOOLEAN /\ Adb \in BOOLEAN
  BY DEF Adb
<1>4. ok => "fastboot" \in deed /\ (~image => "back" \in deed)
  <2>1. ok /\ ~image => watch = "adb"
    BY WorldTypes DEF Adb
  <2> QED
    BY <2>1 DEF RigInv, CameBack
<1> HIDE DEF ok
<1>5. ok /\ Phase \in Hard => \A w \in Wanted(Phase) \ deed : image /\ w = "back"
  BY <1>2, <1>4 DEF RigInv, RigTypeOK
<1>6. Phase # "bench"
  BY <1>2
<1> QED
  BY <1>1, <1>3, <1>5, <1>6, WorldTypes, EndRoundStep

-----------------------------------------------------------------------------
\* The board, the watch and the bus.
LEMMA CutKeeps ==
  ASSUME RigInv, Cut
  PROVE  /\ DOMAIN xfer' = DOMAIN xfer
         /\ xfer'.push = "ok" => xfer.push = "ok"
         /\ xfer'.pull = "ok" => xfer.pull = "ok"
  BY WorldTypes DEF Cut

LEMMA BoardStep == ASSUME RigInv, BoardBoots \/ BoardDies PROVE RigInv'
<1>1. UNCHANGED <<todo, at, round, passed, seen, results, deed, hollow, files, image, watch>>
  BY DEF BoardBoots, BoardDies, progress
<1>2. trouble' \in 0 .. MaxTrouble
  BY Spent, WorldTypes DEF BoardBoots, BoardDies, Arrives
<1>3. /\ DOMAIN xfer' = DOMAIN xfer
      /\ xfer'.push = "ok" => xfer.push = "ok"
      /\ xfer'.pull = "ok" => xfer.pull = "ok"
  BY CutKeeps DEF BoardBoots, BoardDies
<1> QED
  BY <1>1, <1>2, <1>3, WorldTypes, WorldStep

LEMMA WatchMovesStep == ASSUME RigInv, WatchMoves PROVE RigInv'
<1>1. /\ UNCHANGED <<todo, at, round, passed, seen, results, hollow, xfer, files, image>>
      /\ deed' = deed \cup If(watch = "down" /\ "fastboot" \in deed, "back")
      /\ watch \in {"loading", "down", "leaving"}
      /\ watch' = CASE watch = "loading" -> "fastboot" [] watch = "down" -> "adb" [] watch = "leaving" -> "down"
  BY DEF WatchMoves
<1>2. trouble' \in 0 .. MaxTrouble
  BY Spent, WorldTypes DEF WatchMoves, Arrives
<1>3. watch' \in {"fastboot", "adb", "down"} /\ (watch' = "adb" => watch = "down")
  BY <1>1
<1>4. ~image /\ watch' = "adb" /\ "vars" \in seen => "back" \in deed'
  BY <1>1, <1>3 DEF RigInv, CameBack, If
<1> QED
  BY <1>1, <1>2, <1>3, <1>4, WorldTypes, WorldStep

LEMMA WatchResetsStep == ASSUME RigInv, WatchResets PROVE RigInv'
<1>1. /\ UNCHANGED <<todo, at, round, passed, seen, results, deed, hollow, image>>
      /\ watch' = "down" /\ files' = Gone(files) /\ trouble' \in 0 .. MaxTrouble /\ Cut
  BY Spent DEF WatchResets, progress
<1>2. /\ DOMAIN xfer' = DOMAIN xfer
      /\ xfer'.push = "ok" => xfer.push = "ok"
      /\ xfer'.pull = "ok" => xfer.pull = "ok"
  BY <1>1, CutKeeps
<1> QED
  BY <1>1, <1>2, GoneKeeps, WorldTypes, WorldStep

-----------------------------------------------------------------------------
LEMMA RigStays == ASSUME RigInv, UNCHANGED rigVars PROVE RigInv'
<1>1. UNCHANGED <<todo, at, round, passed, seen, results, deed, hollow, xfer, files, image, watch, trouble>>
  BY DEF rigVars, progress, world
<1> QED
  BY <1>1, WorldTypes, WorldStep

LEMMA RigInvStep == RigInv /\ [Next]_<<vars, rigVars>> => RigInv'
<1> SUFFICES ASSUME RigInv, [Next]_<<vars, rigVars>> PROVE RigInv'
  OBVIOUS
<1>1. CASE UNCHANGED <<vars, rigVars>>
  BY <1>1, RigStays
<1>2. CASE Script \/ Appliance \/ Over
  BY <1>2, RigStays DEF Script, Appliance, Over, Same
<1>3. CASE Soaking
  BY <1>3, RigStartStep, RebootBoardStep, FelStep, WaitConsoleStep, CheckStep, IdleStep DEF Soaking
<1>4. CASE Transfers
  BY <1>4, SeedStep, StartTransferStep, BeginStep, EndStep, GradeConcurrentStep, SumPushedStep,
     GradeBenchStep, TraceStep DEF Transfers
<1>5. CASE FastbootCycle
  BY <1>5, ToBootloaderStep, WaitFastbootStep, GetVarsStep, LeaveStep, LeaveImageStep, WaitBackStep
     DEF FastbootCycle
<1>6. CASE World
  BY <1>6, BoardStep, WatchMovesStep, WatchResetsStep DEF World
<1> QED
  BY <1>1, <1>2, <1>3, <1>4, <1>5, <1>6 DEF Next

LEMMA StartUpRigInv == StartUp => RigInv
<1> SUFFICES ASSUME StartUp PROVE RigInv
  OBVIOUS
<1>1. RigInit(program = "none") /\ (program = "none") \in BOOLEAN
  BY DEF StartUp
<1> QED
  BY <1>1, RigInit1

(***************************************************************************)
(* A concurrent phase or a benchmark that passed moved both files whole in *)
(* each of its rounds, and a fastboot phase that passed had the watch in   *)
(* fastboot in each and, where no image is booted, up again after it       *)
(* (RigPassIsTrue): the sums are of the files this round moved, the        *)
(* variables and the adb that is back are of this round's fastboot.        *)
(***************************************************************************)
THEOREM RigPassesAreTrue == Spec => []RigPassIsTrue
<1>1. ASSUME RigInv PROVE RigPassIsTrue
  <2>1. \A p \in Hard : \A w \in Wanted(p) : <<p, w>> \in hollow => image /\ w = "back"
    BY <1>1 DEF RigInv, NotHollow
  <2>2. Wanted("concurrent") = {"pushed", "pulled"} /\ Wanted("bench") = {"pushed", "pulled"}
        /\ Wanted("fastboot") = {"fastboot", "back"}
    BY DEF Wanted
  <2>3. \A p \in {"concurrent", "bench"}, w \in {"pushed", "pulled"} : <<p, w>> \notin hollow
    BY <2>1, <2>2 DEF Hard
  <2>4. hollow \cap ({"concurrent"} \X Wanted("concurrent")) = {}
        /\ hollow \cap ({"bench"} \X Wanted("bench")) = {}
    BY <2>2, <2>3
  <2>5. <<"fastboot", "fastboot">> \notin hollow /\ (<<"fastboot", "back">> \in hollow => image)
    BY <2>1, <2>2 DEF Hard
  <2> QED
    BY <2>4, <2>5 DEF RigPassIsTrue
<1> QED
  BY <1>1, StartUpRigInv, RigInvStep, PTL DEF Spec

(***************************************************************************)
(* The types of the tools of both kinds (ToolsTypeOK).                     *)
(***************************************************************************)
THEOREM ToolsTyping == Spec => []ToolsTypeOK
<1>1. RigInv => RigTypeOK
  BY DEF RigInv
<1> QED
  BY <1>1, Typing, StartUpRigInv, RigInvStep, PTL DEF Spec, ToolsTypeOK
=============================================================================
