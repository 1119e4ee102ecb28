-------------------------- MODULE CardFlashProofs --------------------------
(***************************************************************************)
(* A way up is left at every instant but while the SPL itself is torn, and *)
(* then the rest of one; a script that ends well has flashed what it is    *)
(* about.  That holds for any builds and any number of runs, power cuts    *)
(* and bad writes, as long as no read fails.                               *)
(*                                                                         *)
(* The invariant follows a run through its plan: what lies behind it holds *)
(* the target (Flashed), what it is about to write does not (Needed).  So  *)
(* a run leaves at most one copy torn, with the target in all copies its   *)
(* script writes before (AtMostOneTorn), and a rerun comes to that copy    *)
(* before it writes another.  A rerun over the other link keeps only the   *)
(* part of this that is about the two copies of a file (RawAfterFat).  A   *)
(* torn SPL is one that the run at work has still to write, or that a run  *)
(* ended at (SplInHand).                                                   *)
(***************************************************************************)
EXTENDS CardFlash, SequenceTheorems, TLAPS

Flashing == {"uart", "usb"}

\* Where a script comes to a copy, and in which group of its plan.
Place(l, c) ==
  CASE c = "spl" -> 1
    [] c = "fatKernel" -> 2
    [] c = "rawKernel" -> IF l = "uart" THEN 3 ELSE 6
    [] c = "fatDtb" -> IF l = "uart" THEN 4 ELSE 3
    [] c = "rawDtb" -> 5
    [] OTHER -> IF l = "uart" THEN 6 ELSE 4

GroupOf(l, c) ==
  CASE c = "spl" -> 1
    [] c \in {"fatKernel", "rawKernel"} /\ l = "uart" -> 2
    [] c \in {"fatDtb", "rawDtb"} /\ l = "uart" -> 3
    [] c = "scr" /\ l = "uart" -> 4
    [] OTHER -> Place(l, c)

Ahead(c) == IF link \in Flashing THEN GroupOf(link, c) > group \/ c \in Todo
                                 ELSE c \in Todo

-----------------------------------------------------------------------------
(***************************************************************************)
(* What holds of the script whatever it reads.                             *)
(***************************************************************************)
Pair(a, b) ==
  \/ check \in {<<a, b>>, <<a>>} /\ write = << >>
  \/ check = <<b>> /\ write \in {<< >>, <<a>>}
  \/ check = << >> /\ write \in {<< >>, <<a>>, <<b>>, <<a, b>>}

Shape ==
  /\ \E a, b \in Copies :
       /\ a # b /\ Pair(a, b)
       /\ link \in Flashing => Place(link, a) < Place(link, b)
  /\ \A c \in Todo : IF link \in Flashing THEN GroupOf(link, c) = group ELSE c \in only
  /\ link \notin Flashing => check = << >>

Stages ==
  /\ stage \in {"writing", "verify"} => check = << >> /\ write # << >>
  /\ stage \in {"vehicle", "done"} => Todo = {} /\ group = Len(Plan(link))
  /\ stage = "vehicle" => link \in Dfu

Budget ==
  budget \in [runs : Nat, cuts : Nat, badWrites : Nat, misreads : 0 .. MaxMisreads]

Scope ==
  /\ link \in Flashing => only = Copies
  /\ link = "fw" => "rawKernel" \in only
  /\ "other" \notin mixed => ~force /\ link # "fw" /\ (link = "tool" => only = {"spl"})

Frame == TypeOK /\ Shape /\ Stages /\ Budget /\ Scope

(***************************************************************************)
(* What holds of the card while no read fails.                             *)
(***************************************************************************)
Excused(c) ==
  \/ c = "spl" /\ link \in Flashing
  \/ c = Vehicle /\ stage = "vehicle"
  \/ c = "scr" /\ link = "usb" /\ stage = "done" /\ mixed \cap {"other", "vehicle"} # {}

Flashed ==
  stage \in {"go", "writing", "verify", "vehicle", "done"} =>
    \A c \in only : ~Ahead(c) /\ ~Excused(c) => card[c] = target

Needed ==
  stage \in {"go", "writing", "verify"} =>
    \A c \in Elems(write) \ {"spl"} : card[c] # target \/ (stage = "verify" /\ c = Head(write))

RawAfterFat == \A p \in Pairs : card[p[2]] = "torn" => card[p[1]] = target

AtMostOneTorn ==
  /\ link \in Flashing =>
       \A c, d \in Copies \ {"spl"} :
         card[c] = "torn" /\ Place(link, d) < Place(link, c) => card[d] = target
  /\ link = "tool" => \A c \in Copies \ {"spl"} : card[c] # "torn"

Fresh == stage = "idle" => \A c \in Copies : card[c] # "torn"

SplInHand ==
  /\ "spl" \in Elems(write) => uboot # "never"
  /\ card["spl"] = "torn" =>
       SplWindow /\ (stage \in {"go", "writing", "verify"} => uboot # "never")

CardInv ==
  NoMisread =>
    /\ Flashed
    /\ "other" \notin mixed => Needed /\ RawAfterFat
    /\ mixed \subseteq {"spl"} => AtMostOneTorn
    /\ mixed = {} => SplInHand

\* Over the UART, beyond the first group.
SplWorks == link = "uart" /\ group > 1 => card["spl"] # "torn"

IInv == Frame /\ CardInv /\ Fresh /\ SplWorks

-----------------------------------------------------------------------------
LEMMA AppendTwo == ASSUME NEW a, NEW b PROVE Append(<<a>>, b) = <<a, b>>
<1>1. <<a>> \in Seq({a, b}) /\ <<a, b>> \in Seq({a, b}) /\ b \in {a, b} /\ Len(<<a>>) = 1
  OBVIOUS
<1>2. Append(<<a>>, b) \in Seq({a, b}) /\ Len(Append(<<a>>, b)) = 2
      /\ Append(<<a>>, b)[1] = a /\ Append(<<a>>, b)[2] = b
  BY <1>1, AppendProperties
<1>3. \A i \in 1 .. 2 : Append(<<a>>, b)[i] = <<a, b>>[i]
  BY <1>2
<1> QED
  BY <1>1, <1>2, <1>3, SeqEqual

LEMMA Distinct ==
  ASSUME NEW a, NEW b, a # b
  PROVE  /\ <<a>> # << >> /\ <<a, b>> # << >> /\ <<a>> # <<b>>
         /\ <<a>> # <<a, b>> /\ <<b>> # <<a, b>>
         /\ Len(<< >>) = 0 /\ Len(<<a>>) = 1 /\ Len(<<a, b>>) = 2
<1>1. <<a>> # << >> /\ <<a, b>> # << >> /\ <<a>> # <<b>>
  OBVIOUS
<1>2. Len(<< >>) = 0 /\ Len(<<a>>) = 1 /\ Len(<<a, b>>) = 2 /\ Len(<<b>>) = 1
  OBVIOUS
<1> QED
  BY <1>1, <1>2

LEMMA Ends ==
  ASSUME NEW a, NEW b
  PROVE  /\ Head(<<a>>) = a /\ Tail(<<a>>) = << >>
         /\ Head(<<a, b>>) = a /\ Tail(<<a, b>>) = <<b>>
         /\ Append(<< >>, a) = <<a>> /\ Append(<<a>>, b) = <<a, b>>
<1>1. Head(<<a>>) = a /\ Tail(<<a>>) = << >> /\ Head(<<a, b>>) = a
  OBVIOUS
<1>2. Tail(<<a, b>>) = <<b>>
  OBVIOUS
<1>3. Append(<< >>, a) = <<a>>
  OBVIOUS
<1> QED
  BY <1>1, <1>2, <1>3, AppendTwo

LEMMA ElemsOf ==
  ASSUME NEW a, NEW b
  PROVE  Elems(<< >>) = {} /\ Elems(<<a>>) = {a} /\ Elems(<<a, b>>) = {a, b}
<1>1. 1 .. 0 = {} /\ 1 .. 1 = {1} /\ 1 .. 2 = {1, 2}
  OBVIOUS
<1>2. Len(<< >>) = 0 /\ Len(<<a>>) = 1 /\ Len(<<a, b>>) = 2
  OBVIOUS
<1>3. <<a>>[1] = a /\ <<a, b>>[1] = a /\ <<a, b>>[2] = b
  OBVIOUS
<1> QED
  BY <1>1, <1>2, <1>3 DEF Elems

LEMMA UartOrder ==
  /\ Place("uart", "spl") = 1 /\ Place("uart", "fatKernel") = 2 /\ Place("uart", "rawKernel") = 3
  /\ Place("uart", "fatDtb") = 4 /\ Place("uart", "rawDtb") = 5 /\ Place("uart", "scr") = 6
  /\ GroupOf("uart", "spl") = 1 /\ GroupOf("uart", "fatKernel") = 2
  /\ GroupOf("uart", "rawKernel") = 2
  /\ GroupOf("uart", "fatDtb") = 3 /\ GroupOf("uart", "rawDtb") = 3 /\ GroupOf("uart", "scr") = 4
  BY DEF Place, GroupOf

LEMMA UsbOrder ==
  /\ Place("usb", "spl") = 1 /\ Place("usb", "fatKernel") = 2 /\ Place("usb", "rawKernel") = 6
  /\ Place("usb", "fatDtb") = 3 /\ Place("usb", "rawDtb") = 5 /\ Place("usb", "scr") = 4
  /\ GroupOf("usb", "spl") = 1 /\ GroupOf("usb", "fatKernel") = 2 /\ GroupOf("usb", "rawKernel") = 6
  /\ GroupOf("usb", "fatDtb") = 3 /\ GroupOf("usb", "rawDtb") = 5 /\ GroupOf("usb", "scr") = 4
  BY DEF Place, GroupOf

LEMMA Places ==
  ASSUME NEW l \in Flashing
  PROVE  /\ \A c \in Copies : GroupOf(l, c) \in 1 .. Len(Plan(l)) /\ Place(l, c) \in 1 .. 6
         /\ \A c, d \in Copies : Place(l, c) = Place(l, d) => c = d
         /\ \A c, d \in Copies : Place(l, d) < Place(l, c) => GroupOf(l, d) <= GroupOf(l, c)
<1>1. Len(Plan("uart")) = 4 /\ Len(Plan("usb")) = 6
  BY DEF Plan
<1>2. CASE l = "uart"
  <2>1. \A c \in Copies : GroupOf(l, c) \in 1 .. 4 /\ Place(l, c) \in 1 .. 6
    BY <1>2, UartOrder DEF Copies
  <2>2. \A c, d \in Copies : Place(l, c) = Place(l, d) => c = d
    BY <1>2, UartOrder DEF Copies
  <2>3. \A c, d \in Copies : Place(l, d) < Place(l, c) => GroupOf(l, d) <= GroupOf(l, c)
    BY <1>2, UartOrder DEF Copies
  <2> QED
    BY <1>1, <1>2, <2>1, <2>2, <2>3
<1>3. CASE l = "usb"
  <2>1. \A c \in Copies : GroupOf(l, c) = Place(l, c) /\ Place(l, c) \in 1 .. 6
    BY <1>3, UsbOrder DEF Copies
  <2>2. \A c, d \in Copies : Place(l, c) = Place(l, d) => c = d
    BY <1>3, UsbOrder DEF Copies
  <2>3. Len(Plan(l)) = 6
    BY <1>1, <1>3
  <2>4. \A c \in Copies : GroupOf(l, c) \in 1 .. Len(Plan(l))
    BY <2>1, <2>3
  <2>5. \A c, d \in Copies : Place(l, d) < Place(l, c) => GroupOf(l, d) <= GroupOf(l, c)
    BY <2>1
  <2> QED
    BY <2>1, <2>2, <2>4, <2>5
<1> QED
  BY <1>2, <1>3 DEF Flashing

LEMMA Plans ==
  /\ Plan("uart")[1] = <<"spl">> /\ Plan("uart")[2] = <<"fatKernel", "rawKernel">>
  /\ Plan("uart")[3] = <<"fatDtb", "rawDtb">> /\ Plan("uart")[4] = <<"scr">>
  /\ Plan("usb")[1] = <<"spl">> /\ Plan("usb")[2] = <<"fatKernel">>
  /\ Plan("usb")[3] = <<"fatDtb">> /\ Plan("usb")[4] = <<"scr">>
  /\ Plan("usb")[5] = <<"rawDtb">> /\ Plan("usb")[6] = <<"rawKernel">>
  /\ Len(Plan("uart")) = 4 /\ Len(Plan("usb")) = 6
  /\ \A l : l \notin Flashing => Len(Plan(l)) = 1 /\ Plan(l)[1] = << >>
  BY DEF Plan, Flashing

\* A group of a plan is one copy or two, in their order.
Grouped(l, g) ==
  \E a, b \in Copies :
    /\ a # b /\ Place(l, a) < Place(l, b)
    /\ Plan(l)[g] \in {<<a>>, <<b>>, <<a, b>>}
    /\ \A c \in Elems(Plan(l)[g]) : c \in Copies /\ GroupOf(l, c) = g
    /\ \A c \in Copies : GroupOf(l, c) = g => c \in Elems(Plan(l)[g])

LEMMA UartGroups == ASSUME NEW g \in 1 .. 4 PROVE Grouped("uart", g)
<1>1. CASE g = 1
  <2>1. Plan("uart")[g] = <<"spl">> /\ Elems(<<"spl">>) = {"spl"}
    BY <1>1, Plans, ElemsOf
  <2> QED
    BY <1>1, <2>1, UartOrder DEF Copies, Grouped
<1>2. CASE g = 2
  <2>1. /\ Plan("uart")[g] = <<"fatKernel", "rawKernel">>
        /\ Elems(<<"fatKernel", "rawKernel">>) = {"fatKernel", "rawKernel"}
    BY <1>2, Plans, ElemsOf
  <2> QED
    BY <1>2, <2>1, UartOrder DEF Copies, Grouped
<1>3. CASE g = 3
  <2>1. /\ Plan("uart")[g] = <<"fatDtb", "rawDtb">>
        /\ Elems(<<"fatDtb", "rawDtb">>) = {"fatDtb", "rawDtb"}
    BY <1>3, Plans, ElemsOf
  <2> QED
    BY <1>3, <2>1, UartOrder DEF Copies, Grouped
<1>4. CASE g = 4
  <2>1. Plan("uart")[g] = <<"scr">> /\ Elems(<<"scr">>) = {"scr"}
    BY <1>4, Plans, ElemsOf
  <2> QED
    BY <1>4, <2>1, UartOrder DEF Copies, Grouped
<1> QED
  BY <1>1, <1>2, <1>3, <1>4

LEMMA UsbGroups == ASSUME NEW g \in 1 .. 6 PROVE Grouped("usb", g)
<1>1. PICK c \in Copies : Plan("usb")[g] = <<c>> /\ Place("usb", c) = g
  BY Plans, UsbOrder DEF Copies
<1>2. Elems(Plan("usb")[g]) = {c}
  BY <1>1, ElemsOf
<1>3. \A d \in Copies : GroupOf("usb", d) = Place("usb", d)
  BY UsbOrder DEF Copies
<1>4. \A d \in Copies : Place("usb", d) = Place("usb", c) => d = c
  BY Places DEF Flashing
<1>5. \E d \in Copies :
        d # c /\ (Place("usb", c) < Place("usb", d) \/ Place("usb", d) < Place("usb", c))
  BY UsbOrder DEF Copies
<1>6. \A d \in Elems(Plan("usb")[g]) : d \in Copies /\ GroupOf("usb", d) = g
  BY <1>1, <1>2, <1>3
<1>7. \A d \in Copies : GroupOf("usb", d) = g => d \in Elems(Plan("usb")[g])
  BY <1>1, <1>2, <1>3, <1>4
<1> QED
  BY <1>1, <1>5, <1>6, <1>7 DEF Grouped

LEMMA Groups == ASSUME NEW l \in Flashing, NEW g \in 1 .. Len(Plan(l)) PROVE Grouped(l, g)
<1>1. CASE l = "uart"
  BY <1>1, UartGroups, Plans
<1>2. CASE l = "usb"
  BY <1>2, UsbGroups, Plans
<1> QED
  BY <1>1, <1>2 DEF Flashing

(***************************************************************************)
(* One copy compared, and one written.                                     *)
(***************************************************************************)
LEMMA ComparePair ==
  ASSUME NEW a \in Copies, NEW b \in Copies, a # b, Pair(a, b), check # << >>,
         check' = Tail(check), write' = write \/ write' = Append(write, Head(check))
  PROVE  /\ Pair(a, b)'
         /\ Head(check) \in Elems(check) /\ Head(check) \notin Elems(write)
         /\ Elems(check') = Elems(check) \ {Head(check)}
         /\ write' = Append(write, Head(check)) => Elems(write') = Elems(write) \cup {Head(check)}
<1> DEFINE c == Head(check)
<1>0. /\ Elems(<< >>) = {} /\ Elems(<<a>>) = {a} /\ Elems(<<b>>) = {b} /\ Elems(<<a, b>>) = {a, b}
  BY ElemsOf
<1>1. CASE check = <<a, b>> /\ write = << >>
  <2>1. c = a /\ check' = <<b>> /\ write' \in {<< >>, <<a>>} /\ Append(write, c) = <<a>>
    BY <1>1, Ends
  <2> QED
    BY <1>0, <1>1, <2>1, Distinct DEF Pair
<1>2. CASE check = <<a>> /\ write = << >>
  <2>1. c = a /\ check' = << >> /\ write' \in {<< >>, <<a>>} /\ Append(write, c) = <<a>>
    BY <1>2, Ends
  <2> QED
    BY <1>0, <1>2, <2>1, Distinct DEF Pair
<1>3. CASE check = <<b>> /\ write = << >>
  <2>1. c = b /\ check' = << >> /\ write' \in {<< >>, <<b>>} /\ Append(write, c) = <<b>>
    BY <1>3, Ends
  <2> QED
    BY <1>0, <1>3, <2>1, Distinct DEF Pair
<1>4. CASE check = <<b>> /\ write = <<a>>
  <2>1. c = b /\ check' = << >> /\ write' \in {<<a>>, <<a, b>>} /\ Append(write, c) = <<a, b>>
    BY <1>4, Ends
  <2> QED
    BY <1>0, <1>4, <2>1, Distinct DEF Pair
<1> QED
  BY <1>1, <1>2, <1>3, <1>4 DEF Pair

LEMMA WritePair ==
  ASSUME NEW a \in Copies, NEW b \in Copies, a # b, Pair(a, b), check = << >>, write # << >>
  PROVE  /\ Elems(write) = {Head(write)} \cup Elems(Tail(write))
         /\ Head(write) \notin Elems(Tail(write))
         /\ Head(write) \in {a, b} /\ Elems(Tail(write)) \subseteq {b}
         /\ Tail(write) \in {<< >>, <<b>>}
<1>0. /\ Elems(<< >>) = {} /\ Elems(<<a>>) = {a} /\ Elems(<<b>>) = {b} /\ Elems(<<a, b>>) = {a, b}
  BY ElemsOf
<1>1. CASE write = <<a>>
  <2>1. Head(write) = a /\ Tail(write) = << >>
    BY <1>1, Ends
  <2> QED
    BY <1>0, <1>1, <2>1
<1>2. CASE write = <<b>>
  <2>1. Head(write) = b /\ Tail(write) = << >>
    BY <1>2, Ends
  <2> QED
    BY <1>0, <1>2, <2>1
<1>3. CASE write = <<a, b>>
  <2>1. Head(write) = a /\ Tail(write) = <<b>>
    BY <1>3, Ends
  <2> QED
    BY <1>0, <1>3, <2>1
<1>4. check \notin {<<a, b>>, <<a>>, <<b>>}
  BY Distinct
<1> QED
  BY <1>1, <1>2, <1>3, <1>4 DEF Pair

LEMMA ShortSeqs ==
  ASSUME NEW a, NEW b, NEW s \in {<< >>, <<a>>, <<b>>, <<a, b>>}
  PROVE  Len(s) \in 0 .. 2
<1>1. Len(<< >>) = 0 /\ Len(<<a>>) = 1 /\ Len(<<b>>) = 1 /\ Len(<<a, b>>) = 2
  OBVIOUS
<1> QED
  BY <1>1

LEMMA PairShort ==
  ASSUME NEW a \in Copies, NEW b \in Copies, a # b, Pair(a, b)
  PROVE  Len(check) \in 0 .. 2 /\ Len(write) \in 0 .. 2 /\ Todo \subseteq Copies
<1>1. /\ Elems(<< >>) = {} /\ Elems(<<a>>) = {a} /\ Elems(<<b>>) = {b} /\ Elems(<<a, b>>) = {a, b}
  BY ElemsOf
<1>3. {check, write} \subseteq {<< >>, <<a>>, <<b>>, <<a, b>>}
  BY DEF Pair
<1>4. Len(check) \in 0 .. 2 /\ Len(write) \in 0 .. 2
  BY <1>3, ShortSeqs
<1>5. Elems(check) \subseteq {a, b} /\ Elems(write) \subseteq {a, b}
  BY <1>1, <1>3
<1>6. Todo \subseteq Copies
  BY <1>5 DEF Todo
<1> QED
  BY <1>4, <1>6

-----------------------------------------------------------------------------
(***************************************************************************)
(* What the script knows of its own place.                                 *)
(***************************************************************************)
LEMMA AllBehind ==
  ASSUME Frame, Todo = {}, group = Len(Plan(link))
  PROVE  \A c \in Copies : ~Ahead(c)
<1>1. link \in Flashing => \A c \in Copies : GroupOf(link, c) <= group /\ GroupOf(link, c) \in Nat
  BY Places
<1>2. group \in Nat
  BY DEF Frame, TypeOK
<1> QED
  BY <1>1, <1>2 DEF Ahead

LEMMA NextToWrite ==
  ASSUME Frame, check = << >>, write # << >>
  PROVE  /\ Head(write) \in Copies /\ Head(write) \in Elems(write) /\ Ahead(Head(write))
         /\ Elems(Tail(write)) = Elems(write) \ {Head(write)}
         /\ Todo = Elems(write)
         /\ link \notin Flashing => Head(write) \in only
         /\ link \in Flashing =>
              /\ GroupOf(link, Head(write)) = group
              /\ \A d \in Copies : Place(link, d) < Place(link, Head(write)) => ~Ahead(d)
<1>1. PICK a, b \in Copies :
        a # b /\ Pair(a, b) /\ (link \in Flashing => Place(link, a) < Place(link, b))
  BY DEF Frame, Shape
<1>2. /\ Elems(write) = {Head(write)} \cup Elems(Tail(write))
      /\ Head(write) \notin Elems(Tail(write))
      /\ Head(write) \in {a, b} /\ Elems(Tail(write)) \subseteq {b}
  BY <1>1, WritePair
<1>3. Todo = Elems(write) /\ Head(write) \in Todo /\ Head(write) \in Copies
  BY <1>1, <1>2, ElemsOf DEF Todo
<1>4. IF link \in Flashing THEN GroupOf(link, Head(write)) = group ELSE Head(write) \in only
  BY <1>3 DEF Frame, Shape
<1>5. ASSUME link \in Flashing, NEW d \in Copies, Place(link, d) < Place(link, Head(write))
      PROVE  ~Ahead(d)
  <2>1. GroupOf(link, d) <= group /\ GroupOf(link, d) \in Nat /\ group \in Nat
    BY <1>3, <1>4, <1>5, Places DEF Frame, TypeOK
  <2>2. \A x, y \in Copies : Place(link, x) \in 1 .. 6
    BY <1>5, Places
  <2>3. d # Head(write)
    BY <1>3, <1>5, <2>2
  <2>4. d # b \/ b = Head(write) \/ Elems(Tail(write)) = {}
    BY <1>1, <1>2, <1>5, <2>2
  <2>5. d \notin Todo
    BY <1>2, <1>3, <2>3, <2>4
  <2> QED
    BY <1>5, <2>1, <2>5 DEF Ahead
<1>6. Elems(Tail(write)) = Elems(write) \ {Head(write)}
  BY <1>2
<1> QED
  BY <1>3, <1>4, <1>5, <1>6 DEF Ahead

LEMMA BudgetStep ==
  ASSUME Budget,
         \/ UNCHANGED budget
         \/ \E what \in {"runs", "cuts", "badWrites", "misreads"} : Spend(what)
  PROVE  Budget' /\ (NoMisread' => NoMisread)
<1>1. CASE UNCHANGED budget
  BY <1>1 DEF Budget, NoMisread
<1>2. CASE Spend("runs")
  BY <1>2, FlashAssumption DEF Spend, Budget, NoMisread
<1>3. CASE Spend("cuts")
  BY <1>3, FlashAssumption DEF Spend, Budget, NoMisread
<1>4. CASE Spend("badWrites")
  BY <1>4, FlashAssumption DEF Spend, Budget, NoMisread
<1>5. CASE Spend("misreads")
  BY <1>5, FlashAssumption DEF Spend, Budget, NoMisread
<1> QED
  BY <1>1, <1>2, <1>3, <1>4, <1>5

LEMMA ReadStep ==
  ASSUME Frame, NEW c \in Copies, NEW seen, Read(c, seen)
  PROVE  /\ Budget'
         /\ NoMisread' => NoMisread /\ seen = card[c]
         /\ ram' \in {Junk} \cup {<<File(x), y>> : x \in Copies, y \in Contents}
<1>1. CASE ReadGood(c, seen)
  <2>1. Budget' /\ (NoMisread' => NoMisread) /\ seen = card[c]
    BY <1>1, BudgetStep DEF ReadGood, Frame
  <2>2. card[c] \in Contents
    BY DEF Frame, TypeOK
  <2> QED
    BY <1>1, <2>1, <2>2 DEF ReadGood, Frame, TypeOK
<1>2. CASE ReadBad(c, seen)
  <2>1. Budget'
    BY <1>2, BudgetStep DEF ReadBad, Frame
  <2>2. ~NoMisread'
    BY <1>2, FlashAssumption DEF ReadBad, Spend, NoMisread, Frame, Budget
  <2> QED
    BY <1>2, <2>1, <2>2 DEF ReadBad, Frame, TypeOK
<1> QED
  BY <1>1, <1>2 DEF Read

LEMMA PutStep ==
  ASSUME Frame, NEW c \in Copies, NEW x \in Contents, Put(c, x)
  PROVE  /\ card' \in [Copies -> Contents] /\ card'[c] = x
         /\ \A d \in Copies \ {c} : card'[d] = card[d]
  BY DEF Put, Frame, TypeOK

LEMMA Targets == ASSUME Frame PROVE target # "torn" /\ target \in Contents /\ "torn" \in Contents
  BY FlashAssumption DEF Frame, TypeOK, Contents

\* Steps that leave the script's place and scope alone.
LEMMA SameJob ==
  ASSUME Shape, UNCHANGED <<job, link, only>>
  PROVE  Shape' /\ Todo' = Todo /\ (\A c : Ahead(c)' <=> Ahead(c))
<1>1. Todo' = Todo /\ \A a, b : Pair(a, b)' <=> Pair(a, b)
  BY DEF Todo, Elems, Pair, job
<1> QED
  BY <1>1 DEF Shape, Ahead, job

-----------------------------------------------------------------------------
LEMMA InitIInv == Init => IInv
<1> SUFFICES ASSUME Init PROVE IInv
  OBVIOUS
<1>1. Todo = {} /\ Len(Plan(link)) = 4
  BY ElemsOf, Plans DEF Init, Todo
<1>2. TypeOK
  <2>1. Len(<< >>) = 0
    OBVIOUS
  <2>2. Len(check) \in 0 .. 2 /\ Len(write) \in 0 .. 2 /\ group \in 1 .. Len(Plan(link))
    BY <1>1, <2>1 DEF Init
  <2>3. card \in [Copies -> Contents] /\ ram \in {Junk}
    BY DEF Init, Contents
  <2>4. only \subseteq Copies /\ target \in Builds \cup {"old"} /\ link \in Serial \cup Dfu
    BY DEF Init, Serial
  <2>5. force \in BOOLEAN /\ uboot \in {"never", "differs", "always"} /\ stage = "idle"
        /\ mixed = {}
    BY DEF Init
  <2> QED
    BY <2>2, <2>3, <2>4, <2>5 DEF TypeOK
<1>3. Shape
  <2>1. Pair("spl", "scr") /\ "spl" \in Copies /\ "scr" \in Copies
    BY DEF Init, Pair, Copies
  <2>2. link \in Flashing /\ Place(link, "spl") < Place(link, "scr")
    BY UartOrder DEF Init, Flashing
  <2> QED
    BY <1>1, <2>1, <2>2 DEF Shape
<1>4. Stages /\ Scope /\ Fresh /\ SplWorks
  BY DEF Init, Stages, Scope, Fresh, SplWorks, Flashing
<1>5. Budget
  BY FlashAssumption DEF Init, Budget
<1>6. CardInv
  <2>1. Elems(write) = {}
    BY ElemsOf DEF Init
  <2>2. SplInHand
    BY <2>1 DEF Init, SplInHand, Copies
  <2> QED
    BY <2>2 DEF Init, CardInv, Flashed, Needed, RawAfterFat, AtMostOneTorn, Pairs, Copies
<1> QED
  BY <1>2, <1>3, <1>4, <1>5, <1>6 DEF IInv, Frame

(***************************************************************************)
(* A run begins.                                                           *)
(***************************************************************************)
Starts(over, build, u, f, files, atOnce) ==
  /\ build \in Builds /\ u \in {"never", "differs", "always"} /\ f \in BOOLEAN
  /\ StartRun(over, build, u, f, files, atOnce)
  /\ \/ over \in Flashing /\ files = Copies /\ atOnce = << >>
     \/ over = "tool" /\ u = "always"
          /\ \E c \in {"spl"} \cup FatCopies : f = (c # "spl") /\ files = {c} /\ atOnce = <<c>>
     \/ over = "fw" /\ f /\ files \in {{"rawKernel"}, {"spl", "rawKernel"}}
          /\ atOnce = IF "spl" \in files THEN <<"spl", "rawKernel">> ELSE <<"rawKernel">>

LEMMA StartsAre ==
  ASSUME NEW build \in Builds, Flash(build) \/ FlashFile(build) \/ FlashFirmware(build)
  PROVE  \E over, u, f, files, atOnce : Starts(over, build, u, f, files, atOnce)
<1>1. CASE Flash(build)
  BY <1>1 DEF Flash, Starts, Flashing
<1>2. CASE FlashFile(build)
  <2>1. PICK c \in {"spl"} \cup FatCopies : StartRun("tool", build, "always", c # "spl", {c}, <<c>>)
    BY <1>2 DEF FlashFile
  <2>2. Starts("tool", build, "always", c # "spl", {c}, <<c>>)
    BY <2>1 DEF Starts
  <2> QED
    BY <2>2
<1>3. CASE FlashFirmware(build)
  <2>1. PICK w \in {<<"rawKernel">>, <<"spl", "rawKernel">>} :
          StartRun("fw", build, "always", TRUE, {w[i] : i \in 1 .. Len(w)}, w)
    BY <1>3 DEF FlashFirmware
  <2>2. StartRun("fw", build, "always", TRUE, Elems(w), w)
    BY <2>1 DEF Elems
  <2>3. CASE w = <<"rawKernel">>
    <3>1. Elems(w) = {"rawKernel"}
      BY <2>3, ElemsOf
    <3>2. Starts("fw", build, "always", TRUE, Elems(w), w)
      BY <2>2, <2>3, <3>1 DEF Starts
    <3> QED
      BY <3>2
  <2>4. CASE w = <<"spl", "rawKernel">>
    <3>1. Elems(w) = {"spl", "rawKernel"}
      BY <2>4, ElemsOf
    <3>2. Starts("fw", build, "always", TRUE, Elems(w), w)
      BY <2>2, <2>4, <3>1 DEF Starts
    <3> QED
      BY <3>2
  <2> QED
    BY <2>1, <2>3, <2>4
<1> QED
  BY <1>1, <1>2, <1>3

LEMMA MixingIs ==
  ASSUME NEW over, NEW build, NEW u, NEW blind \in BOOLEAN
  PROVE  \/ Mixing(over, build, u, blind) = {"other"}
         \/ /\ ~blind /\ "other" \notin mixed /\ (Settled \/ target = build)
            /\ mixed \subseteq Mixing(over, build, u, blind)
            /\ Mixing(over, build, u, blind) \subseteq mixed \cup {"link", "spl"}
            /\ "link" \in Mixing(over, build, u, blind) \/ Settled \/ link = over
            /\ "spl" \in Mixing(over, build, u, blind) \/ card["spl"] # "torn" \/ u # "never"
<1> DEFINE Other == blind \/ "other" \in mixed \/ (~Settled /\ target # build)
           Over  == IF ~Settled /\ link # over THEN {"link"} ELSE {}
           Bare  == IF card["spl"] = "torn" /\ u = "never" THEN {"spl"} ELSE {}
<1>1. CASE Other
  BY <1>1 DEF Mixing
<1>2. CASE ~Other
  <2>1. Mixing(over, build, u, blind) = mixed \cup Over \cup Bare
    BY <1>2 DEF Mixing
  <2>2. Over \subseteq {"link"} /\ ("link" \in Over \/ Settled \/ link = over)
    OBVIOUS
  <2>3. Bare \subseteq {"spl"} /\ ("spl" \in Bare \/ card["spl"] # "torn" \/ u # "never")
    OBVIOUS
  <2> QED
    BY <1>2, <2>1, <2>2, <2>3
<1> QED
  BY <1>1, <1>2

LEMMA StartFrame ==
  ASSUME Frame, NEW build, NEW over, NEW u, NEW f, NEW files, NEW atOnce,
         Starts(over, build, u, f, files, atOnce)
  PROVE  /\ Frame' /\ (NoMisread' => NoMisread)
         /\ over \notin Flashing => Todo' = files
         /\ over \in Flashing => Todo' = {"spl"}
<1>1. /\ link' = over /\ only' = files /\ target' = build /\ uboot' = u /\ force' = f
      /\ stage' = "go" /\ group' = 1 /\ check' = Plan(over)[1] /\ write' = atOnce
      /\ ram' \in {ram, Junk} /\ card' = card /\ Spend("runs")
      /\ mixed' = Mixing(over, build, u, f)
  BY DEF Starts, StartRun, FromTheTop
<1>2. Budget' /\ (NoMisread' => NoMisread)
  BY <1>1, BudgetStep DEF Frame
<1>3. /\ mixed' \subseteq {"other", "link", "vehicle", "spl"}
      /\ "other" \notin mixed' => ~f
  <2>1. f \in BOOLEAN /\ mixed \subseteq {"other", "link", "vehicle", "spl"}
    BY DEF Starts, Frame, TypeOK
  <2>2. mixed' = {"other"} \/ (~f /\ mixed' \subseteq mixed \cup {"link", "spl"})
    BY <1>1, <2>1, MixingIs
  <2>3. mixed' \subseteq {"other", "link", "vehicle", "spl"}
    BY <2>1, <2>2
  <2> QED
    BY <2>1, <2>2, <2>3
<1>4. Stages'
  BY <1>1 DEF Stages
<1>5. /\ files \subseteq Copies /\ over \in Serial \cup Dfu /\ f \in BOOLEAN
      /\ u \in {"never", "differs", "always"} /\ build \in Builds
  BY DEF Starts, FatCopies, Copies, Serial, Dfu, Flashing
<1>6. Scope'
  BY <1>1, <1>3 DEF Starts, Scope, Flashing
<1>7. over \in Flashing => check' = <<"spl">> /\ write' = << >>
  BY <1>1, Plans DEF Starts, Flashing
<1>8. over \notin Flashing => check' = << >> /\ Len(Plan(over)) = 1
  BY <1>1, Plans
<1>9. /\ over \notin Flashing => Todo' = files
      /\ over \in Flashing => Todo' = {"spl"}
  <2>1. CASE over \in Flashing
    BY <1>7, <2>1, ElemsOf DEF Todo
  <2>2. CASE over = "tool"
    <3>1. PICK c \in {"spl"} \cup FatCopies : files = {c} /\ atOnce = <<c>>
      BY <2>2 DEF Starts, Flashing
    <3>2. Elems(atOnce) = {c} /\ Elems(<< >>) = {} /\ check' = << >>
      BY <1>8, <2>2, <3>1, ElemsOf DEF Flashing
    <3> QED
      BY <1>1, <2>2, <3>1, <3>2 DEF Todo, Flashing
  <2>3. CASE over = "fw"
    <3>1. Elems(atOnce) = files /\ Elems(<< >>) = {} /\ check' = << >>
      BY <1>8, <2>3, ElemsOf DEF Flashing, Starts
    <3> QED
      BY <1>1, <2>3, <3>1 DEF Todo, Flashing
  <2> QED
    BY <2>1, <2>2, <2>3 DEF Starts
<1>10. \E a, b \in Copies : /\ a # b /\ Pair(a, b)'
                            /\ link' \in Flashing => Place(link', a) < Place(link', b)
  <2>1. CASE over \in Flashing
    <3>1. Pair("spl", "scr")' /\ "spl" \in Copies /\ "scr" \in Copies
      BY <1>7, <2>1 DEF Pair, Copies
    <3>2. Place(link', "spl") < Place(link', "scr")
      BY <1>1, <2>1, UartOrder, UsbOrder DEF Flashing
    <3> QED
      BY <3>1, <3>2
  <2>2. CASE over = "tool"
    <3>1. PICK c \in {"spl"} \cup FatCopies : atOnce = <<c>>
      BY <2>2 DEF Starts, Flashing
    <3>2. PICK d \in Copies : d # c
      BY DEF Copies
    <3>3. Pair(c, d)' /\ c \in Copies
      BY <1>1, <1>8, <2>2, <3>1 DEF Pair, Copies, FatCopies, Flashing
    <3> QED
      BY <1>1, <2>2, <3>2, <3>3 DEF Flashing
  <2>3. CASE over = "fw"
    <3>1. Pair("spl", "rawKernel")' /\ "spl" \in Copies /\ "rawKernel" \in Copies
      BY <1>1, <1>8, <2>3 DEF Pair, Copies, Flashing, Starts
    <3> QED
      BY <1>1, <2>3, <3>1 DEF Flashing
  <2> QED
    BY <2>1, <2>2, <2>3 DEF Starts
<1>11. Shape'
  <2>1. CASE over \in Flashing
    BY <1>1, <1>9, <1>10, <2>1, UartOrder, UsbOrder DEF Shape, Flashing
  <2>2. CASE over \notin Flashing
    BY <1>1, <1>8, <1>9, <1>10, <2>2 DEF Shape
  <2> QED
    BY <2>1, <2>2
<1>12. Len(check') \in 0 .. 2 /\ Len(write') \in 0 .. 2 /\ group' \in 1 .. Len(Plan(link'))
  <2>1. Len(<< >>) = 0 /\ \A a, b : Len(<<a>>) = 1 /\ Len(<<a, b>>) = 2
    OBVIOUS
  <2>2. Len(atOnce) \in 0 .. 2
    BY <2>1 DEF Starts
  <2>3. Len(check') \in 0 .. 2
    BY <1>7, <1>8, <2>1
  <2>4. 1 \in 1 .. Len(Plan(link'))
    BY <1>1, <1>8, Plans DEF Flashing
  <2> QED
    BY <1>1, <2>2, <2>3, <2>4
<1>13. TypeOK'
  BY <1>1, <1>3, <1>5, <1>12 DEF TypeOK, Frame
<1> QED
  BY <1>2, <1>4, <1>6, <1>9, <1>11, <1>13 DEF Frame

LEMMA StartStep ==
  ASSUME IInv, NEW build, NEW over, NEW u, NEW f, NEW files, NEW atOnce,
         Starts(over, build, u, f, files, atOnce)
  PROVE  IInv'
<1>1. /\ link' = over /\ only' = files /\ target' = build /\ stage' = "go" /\ group' = 1
      /\ card' = card /\ mixed' = Mixing(over, build, u, f) /\ write' = atOnce /\ uboot' = u
      /\ stage \in {"idle", "failed", "off", "done"}
  BY DEF Starts, StartRun, FromTheTop
<1>2. Frame' /\ (NoMisread' => NoMisread) /\ (over \notin Flashing => Todo' = files)
      /\ (over \in Flashing => Todo' = {"spl"})
  BY StartFrame DEF IInv
<1>3. Fresh' /\ SplWorks'
  BY <1>1 DEF Fresh, SplWorks
<1>4. Flashed'
  <2>1. CASE over \in Flashing
    <3>1. \A c \in Copies : GroupOf(over, c) <= 1 => c = "spl"
      BY <2>1, UartOrder, UsbOrder DEF Copies, Flashing
    <3>2. \A c \in Copies : GroupOf(over, c) > 1 => Ahead(c)'
      BY <1>1, <2>1 DEF Ahead
    <3>3. \A c \in Copies : GroupOf(over, c) \in Nat
      BY <2>1, Places
    <3>4. \A c \in Copies : ~Ahead(c)' => Excused(c)'
      BY <1>1, <1>2, <2>1, <3>1, <3>2, <3>3 DEF Excused
    <3>5. only' \subseteq Copies
      BY <1>2 DEF Frame, TypeOK
    <3> QED
      BY <3>4, <3>5 DEF Flashed
  <2>2. CASE over \notin Flashing
    BY <1>1, <1>2, <2>2 DEF Flashed, Ahead
  <2> QED
    BY <2>1, <2>2
<1>5. ASSUME NoMisread, "other" \notin mixed'
      PROVE  /\ Needed' /\ RawAfterFat'
             /\ mixed' \subseteq {"spl"} => AtMostOneTorn'
             /\ mixed' = {} => SplInHand'
  <2>1. "other" \notin mixed /\ ~f /\ (Settled \/ target = build)
        /\ (mixed' \subseteq {"spl"} => mixed \subseteq {"spl"} /\ (Settled \/ link = over))
        /\ (mixed' = {} => card["spl"] # "torn" \/ u # "never")
    <3>1. f \in BOOLEAN
      BY DEF Starts
    <3> QED
      BY <1>1, <1>5, <3>1, MixingIs
  <2>2. RawAfterFat /\ (mixed \subseteq {"spl"} => AtMostOneTorn) /\ Flashed
    BY <1>5, <2>1 DEF IInv, CardInv
  <2>3. Elems(atOnce) \subseteq {"spl"}
    BY <2>1, ElemsOf DEF Starts, FatCopies
  <2>4. Needed'
    BY <1>1, <2>3 DEF Needed
  <2>7. mixed' = {} => SplInHand'
    <3>1. "spl" \in Todo'
      <4>1. over = "tool" => files = {"spl"}
        BY <2>1 DEF Starts, Flashing
      <4> QED
        BY <1>2, <2>1, <4>1 DEF Starts
    <3>2. over \notin Flashing => u # "never"
      BY <2>1 DEF Starts
    <3>3. over \in Flashing => Elems(write') = {}
      BY <1>1, ElemsOf DEF Starts, Flashing
    <3> QED
      BY <1>1, <2>1, <3>1, <3>2, <3>3 DEF SplInHand, SplWindow
  <2>5. CASE Settled
    <3>1. \A c \in Copies \ {"spl"} :
            card[c] # "torn" \/ (c = "scr" /\ mixed \cap {"other", "vehicle"} # {})
      <4>1. CASE stage = "idle"
        BY <4>1 DEF IInv, Fresh
      <4>2. CASE stage = "done" /\ link \in Flashing
        <5>1. \A c \in Copies : ~Ahead(c)
          BY <4>2, AllBehind DEF IInv, Frame, Stages
        <5>2. only = Copies
          BY <4>2 DEF IInv, Frame, Scope
        <5> QED
          BY <2>2, <4>2, <5>1, <5>2, Targets DEF IInv, Flashed, Excused
      <4> QED
        BY <2>5, <4>1, <4>2 DEF Settled, Flashing
    <3>2. RawAfterFat'
      BY <1>1, <3>1 DEF RawAfterFat, Pairs, Copies
    <3>3. mixed' \subseteq {"spl"} => AtMostOneTorn'
      BY <1>1, <2>1, <3>1 DEF AtMostOneTorn
    <3> QED
      BY <2>4, <2>7, <3>2, <3>3
  <2>6. CASE ~Settled
    BY <1>1, <2>1, <2>2, <2>4, <2>6, <2>7 DEF RawAfterFat, AtMostOneTorn
  <2> QED
    BY <2>5, <2>6
<1> QED
  BY <1>2, <1>3, <1>4, <1>5 DEF IInv, CardInv

(***************************************************************************)
(* Reading and comparing.                                                  *)
(***************************************************************************)
LEMMA CompareFrame ==
  ASSUME Frame, Compare
  PROVE  /\ Frame' /\ (NoMisread' => NoMisread) /\ link \in Flashing
         /\ Head(check) \in Copies /\ Head(check) \notin Elems(write)
         /\ Head(check) \in Todo
         /\ \/ Todo' = Todo /\ Elems(write') = Elems(write) \cup {Head(check)}
               /\ (NoMisread' => Differs(Head(check), card[Head(check)]))
            \/ Todo' = Todo \ {Head(check)} /\ Elems(write') = Elems(write)
               /\ (NoMisread' => ~Differs(Head(check), card[Head(check)]))
<1> DEFINE c == Head(check)
<1>1. PICK seen \in Builds \cup {"old", "torn", "junk", "nothing"} :
        /\ Read(c, seen)
        /\ write' = IF Differs(c, seen) THEN Append(write, c) ELSE write
  BY DEF Compare
<1>2. /\ check # << >> /\ check' = Tail(check) /\ stage = "go"
      /\ UNCHANGED <<card, stage, group, opts>>
  BY DEF Compare
<1>3. PICK a, b \in Copies :
        a # b /\ Pair(a, b) /\ (link \in Flashing => Place(link, a) < Place(link, b))
  BY DEF Frame, Shape
<1>4. /\ Pair(a, b)'
      /\ c \in Elems(check) /\ c \notin Elems(write)
      /\ Elems(check') = Elems(check) \ {c}
      /\ write' = Append(write, c) => Elems(write') = Elems(write) \cup {c}
  BY <1>1, <1>2, <1>3, ComparePair
<1>5. link \in Flashing
  BY <1>2 DEF Frame, Shape
<1>6. c \in Copies /\ c \in Todo
  BY <1>3, <1>4, PairShort DEF Todo
<1>7. Budget' /\ (NoMisread' => NoMisread /\ seen = card[c])
      /\ ram' \in {Junk} \cup {<<File(x), y>> : x \in Copies, y \in Contents}
  BY <1>1, <1>6, ReadStep
<1>8. \/ /\ Todo' = Todo /\ Elems(write') = Elems(write) \cup {c}
         /\ NoMisread' => Differs(c, card[c])
      \/ /\ Todo' = Todo \ {c} /\ Elems(write') = Elems(write)
         /\ NoMisread' => ~Differs(c, card[c])
  <2>1. CASE Differs(c, seen)
    <3>1. Elems(write') = Elems(write) \cup {c}
      BY <1>1, <1>4, <2>1
    <3>2. Todo' = Todo
      BY <1>4, <3>1 DEF Todo
    <3> QED
      BY <1>7, <2>1, <3>1, <3>2
  <2>2. CASE ~Differs(c, seen)
    <3>1. write' = write
      BY <1>1, <2>2
    <3>2. Todo' = Todo \ {c}
      BY <1>4, <3>1 DEF Todo
    <3> QED
      BY <1>7, <2>2, <3>1, <3>2
  <2> QED
    BY <2>1, <2>2
<1>9. Shape'
  <2>1. Todo' \subseteq Todo
    BY <1>8
  <2> QED
    BY <1>2, <1>3, <1>4, <1>5, <2>1 DEF Shape, Frame, opts
<1>10. Len(check') \in 0 .. 2 /\ Len(write') \in 0 .. 2
  <2>1. check' \in {<< >>, <<a>>, <<b>>, <<a, b>>} /\ write' \in {<< >>, <<a>>, <<b>>, <<a, b>>}
    BY <1>4 DEF Pair
  <2> QED
    BY <2>1, ShortSeqs
<1>11. TypeOK'
  BY <1>2, <1>7, <1>10 DEF TypeOK, Frame, opts
<1>12. Stages' /\ Scope'
  BY <1>2 DEF Stages, Scope, Frame, opts
<1> QED
  BY <1>5, <1>4, <1>6, <1>7, <1>8, <1>9, <1>11, <1>12 DEF Frame

LEMMA CompareStep == ASSUME IInv, Compare PROVE IInv'
<1> DEFINE c == Head(check)
<1>1. /\ Frame' /\ (NoMisread' => NoMisread) /\ link \in Flashing
      /\ c \in Copies /\ c \notin Elems(write) /\ c \in Todo
      /\ \/ Todo' = Todo /\ Elems(write') = Elems(write) \cup {c}
            /\ (NoMisread' => Differs(c, card[c]))
         \/ Todo' = Todo \ {c} /\ Elems(write') = Elems(write)
            /\ (NoMisread' => ~Differs(c, card[c]))
  BY CompareFrame DEF IInv
<1>2. stage = "go" /\ stage' = "go" /\ card' = card /\ group' = group /\ UNCHANGED opts
  BY DEF Compare
<1>3. Fresh' /\ SplWorks'
  BY <1>2 DEF IInv, Fresh, SplWorks, opts
<1>4. ASSUME NoMisread' PROVE Flashed'
  <2>1. Flashed
    BY <1>1, <1>4 DEF IInv, CardInv
  <2>2. \A d : (~Ahead(d))' => ~Ahead(d) \/ (d = c /\ ~Differs(c, card[c]))
    BY <1>1, <1>2, <1>4 DEF Ahead, opts
  <2>3. ~Differs(c, card[c]) => c = "spl" \/ card[c] = target
    BY DEF Differs
  <2>4. \A d : Excused(d) => Excused(d)'
    BY <1>2 DEF Excused, Vehicle, opts
  <2>5. Excused("spl")
    BY <1>1 DEF Excused
  <2> QED
    BY <1>2, <2>1, <2>2, <2>3, <2>4, <2>5 DEF Flashed, opts
<1>5. ASSUME NoMisread', "other" \notin mixed' PROVE Needed'
  <2>1. Needed /\ ~force
    BY <1>1, <1>2, <1>5 DEF IInv, CardInv, Frame, Scope, opts
  <2>2. c # "spl" /\ Differs(c, card[c]) => card[c] # target
    BY <2>1 DEF Differs
  <2> QED
    BY <1>1, <1>2, <1>5, <2>1, <2>2 DEF Needed, opts
<1>6. ASSUME NoMisread'
      PROVE  /\ "other" \notin mixed' => RawAfterFat'
             /\ mixed' \subseteq {"spl"} => AtMostOneTorn'
  BY <1>1, <1>2, <1>6 DEF IInv, CardInv, RawAfterFat, AtMostOneTorn, opts
<1>7. ASSUME NoMisread', mixed' = {} PROVE SplInHand'
  <2>1. SplInHand /\ mixed = {}
    BY <1>1, <1>2, <1>7 DEF IInv, CardInv, opts
  <2>2. uboot' = uboot /\ uboot \in {"never", "differs", "always"} /\ target # "torn"
    BY <1>2, Targets DEF IInv, Frame, TypeOK, opts
  <2>3. c = "spl" => (Differs(c, card[c]) <=> uboot = "always" \/ (uboot = "differs" /\ card[c] # target))
    BY DEF Differs
  <2>4. "spl" \in Elems(write') => uboot # "never"
    BY <1>1, <1>7, <2>1, <2>2, <2>3 DEF SplInHand
  <2>5. card["spl"] = "torn" => "spl" \in Todo' /\ uboot # "never"
    BY <1>1, <1>2, <1>7, <2>1, <2>2, <2>3 DEF SplInHand, SplWindow
  <2> QED
    BY <1>2, <2>2, <2>4, <2>5 DEF SplInHand, SplWindow
<1> QED
  BY <1>1, <1>3, <1>4, <1>5, <1>6, <1>7 DEF IInv, CardInv

(***************************************************************************)
(* Writing.                                                                *)
(***************************************************************************)
\* What the card is left with by a write of c: torn, or the target.
LEMMA PutKeeps ==
  ASSUME IInv, NEW c \in Copies, Put(c, target), NoMisread, UNCHANGED <<link, target>>
  PROVE  /\ "other" \notin mixed => RawAfterFat'
         /\ mixed \subseteq {"spl"} => AtMostOneTorn'
<1>1. /\ card'[c] = target /\ target # "torn"
      /\ \A d \in Copies \ {c} : card'[d] = card[d]
  BY PutStep, Targets DEF IInv
<1>2. /\ \A d \in Copies : card'[d] = "torn" => card[d] = "torn"
      /\ \A d \in Copies : card[d] = target => card'[d] = target
  BY <1>1
<1>3. ASSUME "other" \notin mixed PROVE RawAfterFat'
  <2>1. RawAfterFat
    BY <1>3 DEF IInv, CardInv
  <2>2. \A p \in Pairs : p[1] \in Copies /\ p[2] \in Copies
    BY DEF Pairs, Copies
  <2> QED
    BY <1>2, <2>1, <2>2 DEF RawAfterFat
<1>4. ASSUME mixed \subseteq {"spl"} PROVE AtMostOneTorn'
  BY <1>2, <1>4 DEF IInv, CardInv, AtMostOneTorn
<1> QED
  BY <1>3, <1>4

LEMMA BeginWriteStep == ASSUME IInv, BeginWrite PROVE IInv'
<1> DEFINE w == Head(write)
<1>1. /\ check = << >> /\ write # << >> /\ Put(w, "torn") /\ stage = "go" /\ stage' = "writing"
      /\ UNCHANGED <<ram, job, opts, budget>>
  BY DEF BeginWrite
<1>2. /\ w \in Copies /\ w \in Elems(write) /\ Ahead(w)
      /\ link \notin Flashing => w \in only
      /\ link \in Flashing => /\ GroupOf(link, w) = group
                             /\ \A d \in Copies : Place(link, d) < Place(link, w) => ~Ahead(d)
  BY <1>1, NextToWrite DEF IInv
<1>3. /\ card' \in [Copies -> Contents] /\ card'[w] = "torn" /\ target # "torn"
      /\ \A d \in Copies \ {w} : card'[d] = card[d]
  BY <1>1, <1>2, PutStep, Targets DEF IInv
<1>4. Frame'
  <2>1. TypeOK'
    BY <1>1, <1>3 DEF IInv, Frame, TypeOK, job, opts
  <2>2. Shape' /\ Budget' /\ Scope' /\ Stages'
    BY <1>1, SameJob, BudgetStep DEF IInv, Frame, Scope, Stages, job, opts
  <2> QED
    BY <2>1, <2>2 DEF Frame
<1>5. Fresh'
  BY <1>1 DEF Fresh
<1>6. SplWorks'
  <2>1. link = "uart" /\ group > 1 => w # "spl"
    BY <1>2, UartOrder DEF Flashing
  <2>2. "spl" \in Copies
    BY DEF Copies
  <2> QED
    BY <1>1, <1>3, <2>1, <2>2 DEF IInv, SplWorks, job, opts
<1>7. ASSUME NoMisread' PROVE CardInv'
  <2>1. NoMisread /\ Flashed /\ ("other" \notin mixed => Needed /\ RawAfterFat)
        /\ (mixed \subseteq {"spl"} => AtMostOneTorn) /\ (mixed = {} => SplInHand)
    BY <1>1, <1>7 DEF NoMisread, IInv, CardInv
  <2>2. \A c : Ahead(c)' <=> Ahead(c)
    BY <1>1, SameJob DEF IInv, Frame, opts
  <2>3. \A c : Excused(c)' <=> c = "spl" /\ link \in Flashing
    BY <1>1 DEF Excused, opts
  <2>4. \A c : Excused(c) <=> c = "spl" /\ link \in Flashing
    BY <1>1 DEF Excused
  <2>5. only' = only /\ only \subseteq Copies /\ target' = target /\ link' = link
        /\ mixed' = mixed /\ write' = write
    BY <1>1 DEF IInv, Frame, TypeOK, opts, job
  <2>6. Flashed'
    BY <1>1, <1>2, <1>3, <2>1, <2>2, <2>3, <2>4, <2>5 DEF Flashed
  <2>7. ASSUME "other" \notin mixed PROVE Needed' /\ RawAfterFat'
    <3>1. Elems(write) \subseteq Copies
      BY <1>1, NextToWrite, PairShort DEF IInv, Frame, Shape
    <3>2. Needed'
      BY <1>1, <1>3, <2>1, <2>5, <2>7, <3>1 DEF Needed
    <3>3. ASSUME NEW p \in Pairs, card'[p[2]] = "torn" PROVE card'[p[1]] = target
      <4>1. p[1] \in Copies \ {"spl"} /\ p[2] \in Copies \ {"spl"} /\ p[1] # p[2]
        BY DEF Pairs, Copies
      <4>2. CASE w = p[2]
        <5>1. link \in Flashing
          BY <1>2, <2>7, <4>1, <4>2 DEF IInv, Frame, Scope, TypeOK, Serial, Dfu, Flashing
        <5>2. Place(link, p[1]) < Place(link, p[2])
          BY <5>1, UartOrder, UsbOrder DEF Pairs, Flashing
        <5>3. ~Ahead(p[1]) /\ p[1] \in only
          BY <1>2, <4>1, <4>2, <5>1, <5>2 DEF IInv, Frame, Scope
        <5> QED
          BY <1>1, <1>3, <2>1, <2>4, <4>1, <4>2, <5>3 DEF Flashed
      <4>3. CASE w = p[1]
        <5>1. card[p[2]] = "torn"
          BY <1>3, <3>3, <4>1, <4>3
        <5>2. card[p[1]] = target
          BY <2>1, <2>7, <5>1 DEF RawAfterFat
        <5> QED
          BY <1>1, <1>2, <2>1, <2>7, <4>1, <4>3, <5>2 DEF Needed
      <4>4. CASE w \notin {p[1], p[2]}
        BY <1>3, <2>1, <2>7, <3>3, <4>1, <4>4 DEF RawAfterFat
      <4> QED
        BY <4>2, <4>3, <4>4
    <3> QED
      BY <2>5, <3>2, <3>3 DEF RawAfterFat
  <2>8. ASSUME mixed \subseteq {"spl"} PROVE AtMostOneTorn'
    <3>1. AtMostOneTorn /\ Needed
      BY <2>1, <2>8
    <3>2. ASSUME link \in Flashing, NEW c \in Copies \ {"spl"}, NEW d \in Copies \ {"spl"},
                 card'[c] = "torn", Place(link, d) < Place(link, c)
          PROVE  card'[d] = target
      <4>1. Place(link, c) \in 1 .. 6 /\ d # c
        BY <3>2, Places
      <4>2. CASE w = c
        <5>1. ~Ahead(d) /\ d \in only /\ d # w
          BY <1>2, <3>2, <4>1, <4>2 DEF IInv, Frame, Scope
        <5> QED
          BY <1>1, <1>3, <2>1, <2>4, <5>1 DEF Flashed
      <4>3. CASE w # c
        <5>1. card[d] = target
          BY <1>3, <3>1, <3>2, <4>3 DEF AtMostOneTorn
        <5>2. d # w
          BY <1>1, <1>2, <3>1, <5>1 DEF Needed
        <5> QED
          BY <1>3, <5>1, <5>2
      <4> QED
        BY <4>2, <4>3
    <3>3. ASSUME link = "tool" PROVE w = "spl"
      BY <1>2, <2>8, <3>3 DEF IInv, Frame, Scope, Flashing
    <3>4. link = "tool" => \A c \in Copies \ {"spl"} : card'[c] # "torn"
      BY <1>3, <3>1, <3>3 DEF AtMostOneTorn
    <3> QED
      BY <2>5, <3>2, <3>4 DEF AtMostOneTorn
  <2>9. ASSUME mixed = {} PROVE SplInHand'
    <3>1. SplInHand /\ Todo' = Todo /\ Elems(write') = Elems(write) /\ Elems(write) \subseteq Todo
      BY <1>1, <2>1, <2>5, <2>9, SameJob DEF IInv, Frame, opts, Todo
    <3>2. card'["spl"] = "torn" => card["spl"] = "torn" \/ w = "spl"
      BY <1>3 DEF Copies
    <3>3. uboot' = uboot
      BY <1>1 DEF opts
    <3> QED
      BY <1>1, <1>2, <3>1, <3>2, <3>3 DEF SplInHand, SplWindow
  <2> QED
    BY <2>5, <2>6, <2>7, <2>8, <2>9 DEF CardInv
<1> QED
  BY <1>4, <1>5, <1>6, <1>7 DEF IInv, CardInv

LEMMA EndWriteStep == ASSUME IInv, EndWrite PROVE IInv'
<1> DEFINE w == Head(write)
<1>1. /\ Put(w, target) /\ stage = "writing" /\ stage' = "verify"
      /\ UNCHANGED <<ram, job, opts, budget>> /\ check = << >> /\ write # << >>
  BY DEF EndWrite, IInv, Frame, Stages
<1>2. w \in Copies /\ w \in Elems(write) /\ Ahead(w) /\ Elems(write) \subseteq Copies
  BY <1>1, NextToWrite, PairShort DEF IInv, Frame, Shape
<1>3. /\ card' \in [Copies -> Contents] /\ card'[w] = target /\ target # "torn"
      /\ \A d \in Copies \ {w} : card'[d] = card[d]
  BY <1>1, <1>2, PutStep, Targets DEF IInv
<1>4. Frame'
  <2>1. TypeOK'
    BY <1>1, <1>3 DEF IInv, Frame, TypeOK, job, opts
  <2>2. Shape' /\ Budget' /\ Scope' /\ Stages'
    BY <1>1, SameJob, BudgetStep DEF IInv, Frame, Scope, Stages, job, opts
  <2> QED
    BY <2>1, <2>2 DEF Frame
<1>5. Fresh' /\ SplWorks'
  <2>1. "spl" \in Copies
    BY DEF Copies
  <2> QED
    BY <1>1, <1>3, <2>1 DEF IInv, Fresh, SplWorks, job, opts
<1>6. ASSUME NoMisread' PROVE CardInv'
  <2>1. NoMisread /\ Flashed /\ ("other" \notin mixed => Needed)
    BY <1>1, <1>6 DEF NoMisread, IInv, CardInv
  <2>2. \A c : Ahead(c)' <=> Ahead(c)
    BY <1>1, SameJob DEF IInv, Frame, opts
  <2>3. \A c : Excused(c)' <=> Excused(c)
    BY <1>1 DEF Excused, opts
  <2>4. only' = only /\ only \subseteq Copies /\ target' = target /\ link' = link
        /\ mixed' = mixed /\ write' = write
    BY <1>1 DEF IInv, Frame, TypeOK, opts, job
  <2>5. Flashed'
    BY <1>1, <1>2, <1>3, <2>1, <2>2, <2>3, <2>4 DEF Flashed
  <2>6. "other" \notin mixed => Needed'
    BY <1>1, <1>2, <1>3, <2>1, <2>4 DEF Needed
  <2>7. ASSUME mixed = {} PROVE SplInHand'
    <3>1. SplInHand /\ Todo' = Todo /\ Elems(write') = Elems(write)
      BY <1>1, <2>1, <2>4, <2>7, SameJob DEF IInv, CardInv, Frame, opts
    <3>2. card'["spl"] = "torn" => card["spl"] = "torn"
      BY <1>3 DEF Copies
    <3>3. uboot' = uboot
      BY <1>1 DEF opts
    <3> QED
      BY <1>1, <3>1, <3>2, <3>3 DEF SplInHand, SplWindow
  <2> QED
    BY <1>1, <1>2, <2>1, <2>4, <2>5, <2>6, <2>7, PutKeeps DEF CardInv
<1> QED
  BY <1>4, <1>5, <1>6 DEF IInv, CardInv

LEMMA VerifyStep == ASSUME IInv, Verify PROVE IInv'
<1> DEFINE w == Head(write)
<1>1. PICK seen \in Builds \cup {"old", "torn", "junk", "nothing"} :
        /\ Read(w, seen)
        /\ \/ Matches(seen) /\ stage' = "go" /\ write' = Tail(write)
           \/ ~Matches(seen) /\ stage' = "failed" /\ UNCHANGED write
  BY DEF Verify
<1>2. /\ stage = "verify" /\ UNCHANGED <<card, group, check, opts>>
      /\ check = << >> /\ write # << >>
  BY DEF Verify, IInv, Frame, Stages
<1>3. /\ w \in Copies /\ w \in Elems(write)
      /\ Elems(Tail(write)) = Elems(write) \ {w} /\ Todo = Elems(write)
  BY <1>2, NextToWrite DEF IInv
<1>4. Budget' /\ (NoMisread' => NoMisread /\ seen = card[w])
      /\ ram' \in {Junk} \cup {<<File(x), y>> : x \in Copies, y \in Contents}
  BY <1>1, <1>3, ReadStep DEF IInv
<1>5. Fresh' /\ SplWorks'
  BY <1>1, <1>2 DEF IInv, Fresh, SplWorks, opts
<1>6. CASE stage' = "failed"
  <2>1. write' = write
    BY <1>1, <1>6
  <2>2. Shape'
    BY <1>2, <2>1, SameJob DEF IInv, Frame, job, opts
  <2>3. TypeOK' /\ Stages' /\ Scope'
    BY <1>2, <1>4, <1>6, <2>1 DEF IInv, Frame, TypeOK, Stages, Scope, opts
  <2>5. UNCHANGED <<uboot, write>> /\ (SplInHand => SplInHand')
    BY <1>2, <1>6, <2>1 DEF SplInHand, SplWindow, opts
  <2>4. NoMisread' => CardInv'
    BY <1>2, <1>4, <1>6, <2>5 DEF IInv, CardInv, Flashed, Needed, RawAfterFat, AtMostOneTorn, opts
  <2> QED
    BY <1>4, <1>5, <2>2, <2>3, <2>4 DEF IInv, Frame, CardInv
<1>7. CASE stage' = "go"
  <2>1. write' = Tail(write) /\ Matches(seen)
    BY <1>1, <1>7
  <2>2. Elems(write') = Elems(write) \ {w} /\ Todo' = Todo \ {w} /\ Elems(check) = {}
    <3>1. Elems(check) = {}
      BY <1>2, ElemsOf
    <3> QED
      BY <1>2, <1>3, <2>1, <3>1 DEF Todo
  <2>3. PICK a, b \in Copies :
          a # b /\ Pair(a, b) /\ (link \in Flashing => Place(link, a) < Place(link, b))
    BY DEF IInv, Frame, Shape
  <2>4. write' \in {<< >>, <<b>>} /\ check' = << >>
    BY <1>2, <2>1, <2>3, WritePair
  <2>5. Shape'
    <3>1. Pair(a, b)'
      BY <2>4 DEF Pair
    <3>2. Todo' \subseteq Todo /\ link' = link /\ group' = group /\ only' = only
      BY <1>2, <2>2 DEF opts
    <3> QED
      BY <2>3, <2>4, <3>1, <3>2 DEF IInv, Frame, Shape
  <2>6. Len(check') \in 0 .. 2 /\ Len(write') \in 0 .. 2
    BY <2>4, ShortSeqs
  <2>7. TypeOK' /\ Stages' /\ Scope'
    BY <1>2, <1>4, <1>7, <2>6 DEF IInv, Frame, TypeOK, Stages, Scope, opts
  <2>8. ASSUME NoMisread' PROVE CardInv'
    <3>1. card[w] = target /\ Flashed /\ ("other" \notin mixed => Needed)
      BY <1>4, <2>1, <2>8 DEF Matches, IInv, CardInv
    <3>2. \A c : Ahead(c)' => Ahead(c)
      BY <1>2, <2>2 DEF Ahead, opts
    <3>3. \A c : Ahead(c) => Ahead(c)' \/ c = w
      BY <1>2, <2>2 DEF Ahead, opts
    <3>4. \A c : Excused(c) => Excused(c)'
      BY <1>2 DEF Excused, opts
    <3>5. Flashed'
      BY <1>2, <3>1, <3>3, <3>4 DEF Flashed, opts
    <3>6. "other" \notin mixed => Needed'
      BY <1>2, <2>2, <3>1 DEF Needed, opts
    <3>7. ASSUME mixed = {} PROVE SplInHand'
      <4>1. SplInHand /\ UNCHANGED <<card, uboot>> /\ target # "torn"
        BY <1>2, <1>4, <2>8, <3>7, Targets DEF IInv, CardInv, opts
      <4> QED
        BY <1>2, <1>7, <2>2, <3>1, <4>1 DEF SplInHand, SplWindow
    <3> QED
      BY <1>2, <1>4, <2>8, <3>5, <3>6, <3>7 DEF IInv, CardInv, RawAfterFat, AtMostOneTorn, opts
  <2> QED
    BY <1>4, <1>5, <2>5, <2>7, <2>8 DEF IInv, Frame, CardInv
<1> QED
  BY <1>1, <1>6, <1>7

(***************************************************************************)
(* The end of a group, and the ends of a run.                              *)
(***************************************************************************)
LEMMA GroupIsDone == ASSUME Frame, GroupDone PROVE Todo = {}
  BY ElemsOf DEF GroupDone, Todo

LEMMA NextGroupStep == ASSUME IInv, NextGroup PROVE IInv'
<1>1. /\ check = << >> /\ write = << >> /\ stage = "go" /\ group < Len(Plan(link)) /\ SplStarts
      /\ group' = group + 1 /\ check' = Plan(link)[group + 1]
      /\ ram' \in {ram, Junk} /\ UNCHANGED <<card, stage, write, opts, budget>>
  BY DEF NextGroup, GroupDone
<1>2. group \in Nat \ {0} /\ link \in Flashing /\ group + 1 \in 1 .. Len(Plan(link))
  <2>1. group \in 1 .. Len(Plan(link)) /\ Len(Plan(link)) \in Nat
    BY Plans DEF IInv, Frame, TypeOK
  <2> QED
    BY <1>1, <2>1, Plans
<1>3. Grouped(link, group + 1)
  BY <1>2, Groups
<1>4. Todo = {} /\ Elems(write) = {} /\ Todo' = Elems(check')
  BY <1>1, ElemsOf DEF Todo
<1>5. PICK a, b \in Copies :
        /\ a # b /\ Place(link, a) < Place(link, b) /\ check' \in {<<a>>, <<b>>, <<a, b>>}
        /\ \A c \in Todo' : c \in Copies /\ GroupOf(link, c) = group + 1
        /\ \A c \in Copies : GroupOf(link, c) = group + 1 => c \in Todo'
  BY <1>1, <1>3, <1>4 DEF Grouped
<1>6. Shape'
  <2>1. Pair(a, b)'
    BY <1>1, <1>5 DEF Pair
  <2> QED
    BY <1>1, <1>2, <1>5, <2>1 DEF Shape, opts
<1>7. Len(check') \in 0 .. 2
  BY <1>5, ShortSeqs
<1>8. Frame'
  <2>1. TypeOK'
    BY <1>1, <1>2, <1>7 DEF IInv, Frame, TypeOK, opts
  <2>2. Stages' /\ Scope' /\ Budget'
    BY <1>1, BudgetStep DEF IInv, Frame, Stages, Scope, opts
  <2> QED
    BY <1>6, <2>1, <2>2 DEF Frame
<1>9. Fresh' /\ SplWorks'
  BY <1>1, <1>2 DEF IInv, Fresh, SplWorks, SplStarts, opts
<1>10. \A c \in Copies : Ahead(c)' <=> Ahead(c)
  <2>1. \A c \in Copies : GroupOf(link, c) \in Nat
    BY <1>2, Places
  <2>2. \A c \in Copies : Ahead(c) <=> GroupOf(link, c) > group
    BY <1>2, <1>4 DEF Ahead
  <2>3. \A c \in Copies : Ahead(c)' <=> GroupOf(link, c) > group + 1 \/ GroupOf(link, c) = group + 1
    BY <1>1, <1>2, <1>5 DEF Ahead, opts
  <2> QED
    BY <1>2, <2>1, <2>2, <2>3
<1>11. ASSUME NoMisread' PROVE CardInv'
  <2>1. NoMisread
    BY <1>1, <1>11 DEF NoMisread
  <2>2. Flashed'
    <3>1. only \subseteq Copies /\ Flashed
      BY <2>1 DEF IInv, Frame, TypeOK, CardInv
    <3>2. \A c : Excused(c)' <=> Excused(c)
      BY <1>1 DEF Excused, opts
    <3> QED
      BY <1>1, <1>10, <3>1, <3>2 DEF Flashed, opts
  <2>3. Needed'
    BY <1>1, <1>4 DEF Needed
  <2>4. SplInHand => SplInHand'
    BY <1>1, <1>4 DEF SplInHand, SplWindow
  <2> QED
    BY <1>1, <2>1, <2>2, <2>3, <2>4 DEF IInv, CardInv, RawAfterFat, AtMostOneTorn, opts
<1> QED
  BY <1>8, <1>9, <1>11 DEF IInv, CardInv

\* Steps that change neither the card nor the script's place in its plan.
LEMMA AtRest ==
  ASSUME IInv, UNCHANGED <<card, job, link, only, target, uboot, force>>,
         ram' \in {ram, Junk}, stage' \in {"verify", "failed", "off", "done"}, Stages',
         UNCHANGED budget \/ (\E what \in {"cuts", "badWrites"} : Spend(what)),
         mixed' = mixed \/ (mixed' = mixed \cup {"vehicle"} /\ stage' # "verify")
  PROVE  /\ Frame' /\ Fresh' /\ SplWorks' /\ (NoMisread' => NoMisread)
         /\ \A c : Ahead(c)' <=> Ahead(c)
         /\ NoMisread' /\ Flashed' /\ ("other" \notin mixed => Needed')
           /\ (mixed' = {} => SplInHand') => CardInv'
<1>1. Budget' /\ (NoMisread' => NoMisread)
  BY BudgetStep DEF IInv, Frame
<1>2. TypeOK' /\ Scope' /\ Shape'
  <2>1. Shape'
    BY SameJob DEF IInv, Frame
  <2>2. Scope'
    BY DEF IInv, Frame, Scope
  <2>3. mixed' \subseteq {"other", "link", "vehicle", "spl"}
    <3>1. mixed \subseteq {"other", "link", "vehicle", "spl"}
      BY DEF IInv, Frame, TypeOK
    <3> QED
      BY <3>1
  <2>4. TypeOK'
    BY <2>3 DEF IInv, Frame, TypeOK, job
  <2> QED
    BY <2>1, <2>2, <2>4
<1>3. Fresh' /\ SplWorks'
  BY DEF IInv, Fresh, SplWorks, job
<1>4. "other" \in mixed' <=> "other" \in mixed
  OBVIOUS
<1>5. mixed' \subseteq {"spl"} => mixed \subseteq {"spl"}
  OBVIOUS
<1>6. NoMisread' /\ Flashed' /\ ("other" \notin mixed => Needed')
        /\ (mixed' = {} => SplInHand') => CardInv'
  BY <1>1, <1>4, <1>5 DEF IInv, CardInv, RawAfterFat, AtMostOneTorn
<1>7. \A c : Ahead(c)' <=> Ahead(c)
  BY SameJob DEF IInv, Frame
<1> QED
  BY <1>1, <1>2, <1>3, <1>6, <1>7 DEF Frame

LEMMA StopStep == ASSUME IInv, NoPrompt \/ PowerCut \/ GiveUp PROVE IInv'
<1>1. /\ stage' \in {"failed", "off"} /\ ram' \in {ram, Junk} /\ UNCHANGED <<card, job, opts>>
      /\ UNCHANGED budget \/ Spend("cuts")
  BY DEF NoPrompt, PowerCut, GiveUp
<1>2. Stages' /\ Flashed' /\ Needed'
  BY <1>1 DEF Stages, Flashed, Needed
<1>3. SplInHand => SplInHand'
  BY <1>1 DEF SplInHand, SplWindow, job, opts
<1>4. NoMisread' /\ mixed' = {} => SplInHand'
  <2>1. NoMisread' => NoMisread
    BY <1>1, BudgetStep DEF IInv, Frame
  <2> QED
    BY <1>1, <1>3, <2>1 DEF IInv, CardInv, opts
<1>5. /\ Frame' /\ Fresh' /\ SplWorks' /\ (NoMisread' => NoMisread)
      /\ NoMisread' /\ Flashed' /\ ("other" \notin mixed => Needed')
           /\ (mixed' = {} => SplInHand') => CardInv'
  BY <1>1, <1>2, AtRest DEF opts
<1> QED
  BY <1>2, <1>4, <1>5 DEF IInv, CardInv

LEMMA BadWriteStep == ASSUME IInv, BadWrite PROVE IInv'
<1>1. /\ stage = "writing" /\ stage' \in {"verify", "failed"} /\ UNCHANGED <<card, ram, job, opts>>
      /\ Spend("badWrites")
  BY DEF BadWrite
<1>2. Stages'
  BY <1>1 DEF IInv, Frame, Stages, job
<1>3. /\ Frame' /\ Fresh' /\ SplWorks' /\ (NoMisread' => NoMisread)
      /\ \A c : Ahead(c)' <=> Ahead(c)
      /\ NoMisread' /\ Flashed' /\ ("other" \notin mixed => Needed')
           /\ (mixed' = {} => SplInHand') => CardInv'
  BY <1>1, <1>2, AtRest DEF opts
<1>4. ASSUME NoMisread'
      PROVE  Flashed' /\ ("other" \notin mixed => Needed') /\ (mixed' = {} => SplInHand')
  <2>1. Flashed /\ ("other" \notin mixed => Needed)
    BY <1>3, <1>4 DEF IInv, CardInv
  <2>2. \A c : Excused(c) => Excused(c)'
    BY <1>1 DEF Excused, opts
  <2>3. Flashed'
    BY <1>1, <1>3, <2>1, <2>2 DEF Flashed, opts
  <2>4. "other" \notin mixed => Needed'
    BY <1>1, <2>1 DEF Needed, job, opts
  <2>5. mixed' = {} => SplInHand
    BY <1>1, <1>3, <1>4 DEF IInv, CardInv, opts
  <2>6. Todo' = Todo
    BY <1>1, SameJob DEF IInv, Frame, opts
  <2>7. mixed' = {} => SplInHand'
    BY <1>1, <2>5, <2>6 DEF SplInHand, SplWindow, job, opts
  <2> QED
    BY <2>3, <2>4, <2>7
<1> QED
  BY <1>3, <1>4 DEF IInv, CardInv

LEMMA ResetStep == ASSUME IInv, Reset PROVE IInv'
<1>1. /\ stage = "go" /\ stage' = "done" /\ UNCHANGED <<card, ram, job, opts, budget>>
      /\ link \in Serial /\ group = Len(Plan(link)) /\ Todo = {}
  BY GroupIsDone DEF Reset, GroupDone, IInv
<1>2. Stages'
  BY <1>1, SameJob DEF IInv, Frame, Stages, job, opts
<1>3. /\ Frame' /\ Fresh' /\ SplWorks' /\ (NoMisread' => NoMisread)
      /\ \A c : Ahead(c)' <=> Ahead(c)
      /\ NoMisread' /\ Flashed' /\ ("other" \notin mixed => Needed')
           /\ (mixed' = {} => SplInHand') => CardInv'
  BY <1>1, <1>2, AtRest DEF opts
<1>4. ASSUME NoMisread' PROVE Flashed' /\ Needed' /\ (mixed' = {} => SplInHand')
  <2>1. Flashed
    BY <1>3, <1>4 DEF IInv, CardInv
  <2>2. \A c : Excused(c) => Excused(c)'
    BY <1>1 DEF Excused, opts
  <2>3. Flashed' /\ Needed'
    BY <1>1, <1>3, <2>1, <2>2 DEF Flashed, Needed, opts
  <2>4. mixed' = {} => card["spl"] # "torn"
    BY <1>1, <1>3, <1>4 DEF IInv, CardInv, SplInHand, SplWindow, opts
  <2>5. Elems(write') = {}
    BY <1>1 DEF Todo, job
  <2> QED
    BY <1>1, <2>3, <2>4, <2>5 DEF SplInHand
<1> QED
  BY <1>3, <1>4 DEF IInv, CardInv

\* Before DFU is left, all that was to be written holds the target.
LEMMA AllFlashed ==
  ASSUME IInv, NoMisread, stage \in {"go", "vehicle", "done"}, Todo = {}, group = Len(Plan(link))
  PROVE  \A c \in only : card[c] = target \/ Excused(c)
  BY AllBehind DEF IInv, CardInv, Flashed, Frame, TypeOK

\* And the SPL is not torn; so nor after a step that writes another copy.
LEMMA NoSplTorn ==
  ASSUME IInv, NoMisread, stage \in {"go", "vehicle"}, Todo = {}, mixed = {},
         UNCHANGED job, card'["spl"] = card["spl"]
  PROVE  SplInHand'
<1>1. card["spl"] # "torn"
  BY DEF IInv, CardInv, SplInHand, SplWindow
<1>2. Elems(write') = {}
  BY DEF Todo, job
<1> QED
  BY <1>1, <1>2 DEF SplInHand

LEMMA BeginVehicleStep == ASSUME IInv, BeginVehicle PROVE IInv'
<1>1. /\ stage = "go" /\ stage' = "vehicle" /\ UNCHANGED <<ram, job, opts, budget>>
      /\ Put(Vehicle, "torn") /\ link \in Dfu /\ group = Len(Plan(link)) /\ Todo = {}
  BY GroupIsDone DEF BeginVehicle, GroupDone, IInv
<1>2. Vehicle \in Copies /\ Vehicle # "spl" /\ Vehicle' = Vehicle
  BY <1>1 DEF Vehicle, Copies, opts
<1>3. /\ card' \in [Copies -> Contents] /\ card'[Vehicle] = "torn" /\ target # "torn"
      /\ \A d \in Copies \ {Vehicle} : card'[d] = card[d]
  BY <1>1, <1>2, PutStep, Targets DEF IInv
<1>4. Frame'
  <2>1. TypeOK'
    BY <1>1, <1>3 DEF IInv, Frame, TypeOK, job, opts
  <2>2. Shape' /\ Budget' /\ Scope' /\ Stages'
    BY <1>1, SameJob, BudgetStep DEF IInv, Frame, Scope, Stages, job, opts
  <2> QED
    BY <2>1, <2>2 DEF Frame
<1>5. Fresh' /\ SplWorks'
  BY <1>1 DEF Fresh, SplWorks, Dfu, opts
<1>6. ASSUME NoMisread' PROVE CardInv'
  <2>1. NoMisread
    BY <1>1, <1>6 DEF NoMisread
  <2>2. \A c \in only : card[c] = target \/ (c = "spl" /\ link \in Flashing)
    BY <1>1, <2>1, AllFlashed DEF Excused
  <2>3. only' = only /\ only \subseteq Copies /\ target' = target /\ link' = link /\ mixed' = mixed
    BY <1>1 DEF IInv, Frame, TypeOK, opts
  <2>4. Flashed'
    BY <1>1, <1>2, <1>3, <2>2, <2>3 DEF Flashed, Excused
  <2>5. Needed'
    BY <1>1 DEF Needed
  <2>6. ASSUME "other" \notin mixed
        PROVE  link = "usb" /\ Vehicle = "scr" /\ \A c \in Copies \ {"spl", "scr"} : card'[c] = target
    <3>1. link = "usb" /\ Vehicle = "scr" /\ only = Copies
      BY <1>1, <2>6 DEF IInv, Frame, Scope, Dfu, Vehicle, Flashing
    <3> QED
      BY <1>3, <2>2, <3>1
  <2>7. "other" \notin mixed => RawAfterFat'
    BY <1>3, <2>3, <2>6 DEF RawAfterFat, Pairs, Copies
  <2>8. ASSUME mixed \subseteq {"spl"} PROVE AtMostOneTorn'
    <3>1. link = "usb" /\ \A c \in Copies \ {"spl", "scr"} : card'[c] = target
      BY <2>6, <2>8
    <3>2. ASSUME NEW c \in Copies \ {"spl"}, NEW d \in Copies \ {"spl"},
                 card'[c] = "torn", Place(link, d) < Place(link, c)
          PROVE  card'[d] = target
      <4>1. c = "scr"
        BY <1>3, <3>1, <3>2
      <4>2. d # "scr"
        BY <3>1, <3>2, <4>1, UsbOrder
      <4> QED
        BY <3>1, <4>2
    <3> QED
      BY <2>3, <3>1, <3>2 DEF AtMostOneTorn
  <2>9. mixed = {} => SplInHand'
    BY <1>1, <1>2, <1>3, <2>1, NoSplTorn DEF Copies
  <2> QED
    BY <2>3, <2>4, <2>5, <2>7, <2>8, <2>9 DEF CardInv
<1> QED
  BY <1>4, <1>5, <1>6 DEF IInv, CardInv

LEMMA EndVehicleStep == ASSUME IInv, EndVehicle PROVE IInv'
<1>1. /\ stage = "vehicle" /\ stage' = "done" /\ UNCHANGED <<ram, job, opts, budget>>
      /\ Put(Vehicle, target) /\ link \in Dfu /\ group = Len(Plan(link)) /\ Todo = {}
  BY DEF EndVehicle, IInv, Frame, Stages
<1>2. Vehicle \in Copies /\ Vehicle # "spl" /\ (link = "usb" => Vehicle = "scr")
  BY DEF Vehicle, Copies
<1>3. /\ card' \in [Copies -> Contents] /\ card'[Vehicle] = target /\ target # "torn"
      /\ \A d \in Copies \ {Vehicle} : card'[d] = card[d]
  BY <1>1, <1>2, PutStep, Targets DEF IInv
<1>4. Frame'
  <2>1. TypeOK'
    BY <1>1, <1>3 DEF IInv, Frame, TypeOK, job, opts
  <2>2. Shape' /\ Budget' /\ Scope' /\ Stages'
    BY <1>1, SameJob, BudgetStep DEF IInv, Frame, Scope, Stages, job, opts
  <2> QED
    BY <2>1, <2>2 DEF Frame
<1>5. Fresh' /\ SplWorks'
  BY <1>1 DEF Fresh, SplWorks, Dfu, opts
<1>6. ASSUME NoMisread' PROVE CardInv'
  <2>1. NoMisread
    BY <1>1, <1>6 DEF NoMisread
  <2>2. \A c \in only : card[c] = target \/ (c = "spl" /\ link \in Flashing) \/ c = Vehicle
    BY <1>1, <2>1, AllFlashed DEF Excused
  <2>3. only' = only /\ only \subseteq Copies /\ target' = target /\ link' = link /\ mixed' = mixed
    BY <1>1 DEF IInv, Frame, TypeOK, opts
  <2>4. Flashed' /\ Needed'
    BY <1>1, <1>2, <1>3, <2>2, <2>3 DEF Flashed, Needed, Excused
  <2>5. mixed = {} => SplInHand'
    BY <1>1, <1>2, <1>3, <2>1, NoSplTorn DEF Copies
  <2> QED
    BY <1>1, <1>2, <2>1, <2>3, <2>4, <2>5, PutKeeps DEF CardInv
<1> QED
  BY <1>4, <1>5, <1>6 DEF IInv, CardInv

LEMMA BadVehicleStep == ASSUME IInv, BadVehicle PROVE IInv'
<1>1. /\ stage = "vehicle" /\ Spend("badWrites")
      /\ stage' \in {"failed", "done", "off"} /\ (stage' = "done" => Answers(card[Vehicle]))
      /\ "other" \in mixed' \/ "vehicle" \in mixed'
      /\ mixed' = mixed \/ mixed' = mixed \cup {"vehicle"}
      /\ UNCHANGED <<card, ram, job, link, only, target, uboot, force>>
      /\ link \in Dfu /\ group = Len(Plan(link)) /\ Todo = {}
  BY DEF BadVehicle, IInv, Frame, Stages
<1>2. Stages'
  BY <1>1, SameJob DEF IInv, Frame, Stages, job
<1>3. /\ Frame' /\ Fresh' /\ SplWorks' /\ (NoMisread' => NoMisread)
      /\ \A c : Ahead(c)' <=> Ahead(c)
      /\ NoMisread' /\ Flashed' /\ ("other" \notin mixed => Needed')
           /\ (mixed' = {} => SplInHand') => CardInv'
  BY <1>1, <1>2, AtRest
<1>4. ASSUME NoMisread' PROVE Flashed' /\ Needed'
  <2>1. \A c \in only : card[c] = target \/ (c = "spl" /\ link \in Flashing) \/ c = Vehicle
    BY <1>1, <1>3, <1>4, AllFlashed DEF Excused
  <2>2. CASE stage' = "done"
    <3>1. link = "fw" => card[Vehicle] = target
      BY <1>1, <2>2 DEF Answers
    <3>2. link = "usb" => Vehicle = "scr"
      BY DEF Vehicle
    <3>3. \A c \in only : card[c] = target \/ Excused(c)'
      BY <1>1, <2>1, <2>2, <3>1, <3>2 DEF Excused, Dfu
    <3> QED
      BY <1>1, <2>2, <3>3 DEF Flashed, Needed
  <2> QED
    BY <1>1, <2>2 DEF Flashed, Needed
<1> QED
  BY <1>1, <1>3, <1>4 DEF IInv, CardInv

LEMMA IInvStep == IInv /\ [Next]_vars => IInv'
<1> SUFFICES ASSUME IInv, [Next]_vars PROVE IInv'
  OBVIOUS
<1>1. CASE Script
  BY <1>1, CompareStep, BeginWriteStep, EndWriteStep, VerifyStep, NextGroupStep, StopStep,
     ResetStep, BeginVehicleStep, EndVehicleStep DEF Script
<1>2. CASE Trouble
  BY <1>2, BadWriteStep, BadVehicleStep, StopStep DEF Trouble
<1>3. ASSUME NEW b \in Builds, Flash(b) \/ FlashFile(b) \/ FlashFirmware(b) PROVE IInv'
  BY <1>3, StartsAre, StartStep
<1>4. CASE UNCHANGED vars
  <2>1. UNCHANGED <<job, link, only>> /\ UNCHANGED <<card, ram, stage, opts, budget>>
    BY <1>4 DEF vars, opts
  <2>2. Shape' /\ \A c : Ahead(c)' <=> Ahead(c)
    BY <2>1, SameJob DEF IInv, Frame
  <2>3. Frame'
    <3>1. TypeOK'
      BY <2>1 DEF IInv, Frame, TypeOK, job, opts
    <3>2. Stages'
      BY <2>1, SameJob DEF IInv, Frame, Stages, job, opts
    <3>3. Budget' /\ Scope'
      BY <2>1 DEF IInv, Frame, Budget, Scope, opts
    <3> QED
      BY <2>2, <3>1, <3>2, <3>3 DEF Frame
  <2>4. Flashed' <=> Flashed
    BY <2>1, <2>2 DEF Flashed, Excused, Vehicle, opts
  <2>5. (Needed' <=> Needed) /\ (RawAfterFat' <=> RawAfterFat) /\ (AtMostOneTorn' <=> AtMostOneTorn)
    BY <2>1 DEF Needed, RawAfterFat, AtMostOneTorn, job, opts
  <2>7. SplInHand' <=> SplInHand
    BY <2>1, <2>2 DEF SplInHand, SplWindow, Todo, Elems, job, opts
  <2>6. CardInv' /\ Fresh' /\ SplWorks'
    BY <2>1, <2>4, <2>5, <2>7 DEF IInv, CardInv, NoMisread, Fresh, SplWorks, job, opts
  <2> QED
    BY <2>3, <2>6 DEF IInv
<1> QED
  BY <1>1, <1>2, <1>3, <1>4 DEF Next

-----------------------------------------------------------------------------
(***************************************************************************)
(* Type correctness of the scripts and the card they write.                *)
(***************************************************************************)
THEOREM Typing == Spec => []TypeOK
<1>1. IInv => TypeOK
  BY DEF IInv, Frame
<1> QED
  BY <1>1, InitIInv, IInvStep, PTL DEF Spec

(***************************************************************************)
(* While flash and flash --usb write, at whatever instant the power goes   *)
(* and however runs are interrupted and repeated, the board can start from *)
(* the card by one of its two ways up, unless the SPL itself is torn, by   *)
(* the script at work or the one that failed at it; the kernel and device  *)
(* tree of a way up are there also then (cmd_flash, cmd_flash_usb).  That  *)
(* is OneGoodPath, with its conditions: no read failed, and reruns are of  *)
(* the same script and build, with neither --force nor the scripts that    *)
(* do not compare, and with --uboot where the SPL is torn.                 *)
(***************************************************************************)
THEOREM AWayUpIsLeft == Spec => []OneGoodPath
<1>1. ASSUME IInv, NoMisread PROVE OneGoodPath
  <2>1. target # "torn"
    BY <1>1, Targets DEF IInv
  <2>2. ASSUME "other" \notin mixed, NEW p \in Pairs, \A c \in {p[1], p[2]} : card[c] = "torn"
        PROVE  FALSE
    BY <1>1, <2>1, <2>2 DEF IInv, CardInv, RawAfterFat
  <2>3. ASSUME mixed \subseteq {"spl"} PROVE KernelLeft
    <3> SUFFICES ASSUME ~Whole(Falcon \ {"spl"}), ~Whole(Fallback \ {"spl"}) PROVE FALSE
      BY DEF KernelLeft
    <3>1. PICK c \in Falcon \ {"spl"} : card[c] = "torn"
      BY DEF Whole
    <3>2. PICK d \in Fallback \ {"spl"} : card[d] = "torn"
      BY DEF Whole
    <3>3. c \in Copies \ {"spl"} /\ d \in Copies \ {"spl"} /\ c # d
      BY DEF Falcon, Fallback, Copies
    <3>4. link \in Flashing
      BY <1>1, <2>3, <3>1, <3>3 DEF IInv, CardInv, AtMostOneTorn, Frame, Scope, TypeOK, Serial, Dfu,
         Flashing
    <3>5. Place(link, c) < Place(link, d) \/ Place(link, d) < Place(link, c)
      BY <3>3, <3>4, Places
    <3> QED
      BY <1>1, <2>1, <2>3, <3>1, <3>2, <3>3, <3>4, <3>5 DEF IInv, CardInv, AtMostOneTorn
  <2>4. ASSUME mixed = {} PROVE WayUp \/ SplWindow
    <3>1. CASE card["spl"] = "torn"
      BY <1>1, <2>4, <3>1 DEF IInv, CardInv, SplInHand
    <3>2. CASE card["spl"] # "torn"
      BY <2>3, <2>4, <3>2 DEF WayUp, KernelLeft, Whole
    <3> QED
      BY <3>1, <3>2
  <2> QED
    BY <2>2, <2>3, <2>4 DEF OneGoodPath
<1>2. IInv => OneGoodPath
  BY <1>1 DEF OneGoodPath
<1> QED
  BY <1>2, InitIInv, IInvStep, PTL DEF Spec

(***************************************************************************)
(* A script that ends well has put its build into every copy it is about,  *)
(* unless a read failed (DoneMeansFlashed).                                *)
(***************************************************************************)
THEOREM DoneIsFlashed == Spec => []DoneMeansFlashed
<1>1. ASSUME IInv, stage = "done", NoMisread, NEW c \in Promised PROVE card[c] = target
  <2>1. Todo = {} /\ group = Len(Plan(link))
    BY <1>1 DEF IInv, Frame, Stages
  <2>2. c \in only /\ ~Excused(c)
    BY <1>1 DEF Promised, Excused, Flashing
  <2> QED
    BY <1>1, <2>1, <2>2, AllFlashed
<1>2. IInv => DoneMeansFlashed
  BY <1>1 DEF DoneMeansFlashed
<1> QED
  BY <1>2, InitIInv, IInvStep, PTL DEF Spec

(***************************************************************************)
(* Over the UART nothing but the SPL is written on a card whose SPL would  *)
(* not start, also when reads fail (SplComesFirst).                        *)
(***************************************************************************)
THEOREM SplIsProvenFirst == Spec => SplComesFirst
<1>1. ASSUME IInv, [Next]_vars, link = "uart", stage = "go", stage' = "writing", Head(write) # "spl"
      PROVE  card["spl"] # "torn"
  <2>1. BeginWrite
    BY <1>1 DEF Next, Script, Trouble, Compare, EndWrite, Verify, NextGroup, NoPrompt, Reset,
       BeginVehicle, EndVehicle, BadWrite, BadVehicle, PowerCut, GiveUp, Flash, FlashFile,
       FlashFirmware, StartRun, vars
  <2>2. Head(write) \in Copies /\ GroupOf(link, Head(write)) = group
    BY <1>1, <2>1, NextToWrite DEF BeginWrite, IInv, Flashing
  <2>3. group > 1
    BY <1>1, <2>2, UartOrder DEF Copies
  <2> QED
    BY <1>1, <2>3 DEF IInv, SplWorks
<1>2. IInv /\ [Next]_vars =>
        [link = "uart" /\ stage = "go" /\ stage' = "writing" /\ Head(write) # "spl"
           => card["spl"] # "torn"]_vars
  BY <1>1
<1> QED
  BY <1>2, InitIInv, IInvStep, PTL DEF Spec, SplComesFirst
=============================================================================
