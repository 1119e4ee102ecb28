---------------------------- MODULE LoadyProofs ----------------------------
(***************************************************************************)
(* The upload, proved for files, attempts, noise, stalls and runs of any   *)
(* number, and for block numbers that wrap at any modulus above two.       *)
(* Three layers: what can be on the line and what its bytes say of U-Boot  *)
(* (Base), the exchange of blocks while the Mac keeps up (Exchange), and   *)
(* where U-Boot is as long as only noise has gone wrong (NoMishap).        *)
(***************************************************************************)
EXTENDS Loady, Integers, SequenceTheorems, TLAPS

Bytes   == {"ENTER", "C", "ACK", "CAN", "ESC", "=>", "good", "bad"}
Kinds   == {"loady fast", "loady", "cr", "block", "eot", "esc", "crc"}
Prompts == {"prompt", "prompt again"}
Full    == [i \in 1 .. Blocks |-> i]

\* What is on a line, whatever its order.
On(s) == {s[i] : i \in 1 .. Len(s)}

(***************************************************************************)
(* First layer: types, what can be on the way to U-Boot in each state of   *)
(* the script, and what the bytes that move the script on say about        *)
(* U-Boot.  It holds through noise, cancels and stalls alike.              *)
(***************************************************************************)
Types ==
  /\ TypeOK
  /\ down \in Seq(Kinds \X (0 .. Blocks) \X {Std, Quick})
  /\ up \in Seq(Bytes)
  /\ ram \in Seq(1 .. Blocks)
  /\ hits + noise <= MaxNoise

Typed(what) == <<Type(what, rate)>>

Line ==
  /\ pc \in {"idle", "ready", "look", "lost"} => down = << >>
  /\ pc = "offer" => down \in {<< >>, Typed("loady fast")}
  /\ pc = "C" => down \in {<< >>, Typed("loady"), Typed("cr")}
  /\ pc \in {"ack", "data C", "EOT", "failed"} => down \in Seq({"block"} \X (0 .. blk) \X {rate})
  /\ pc \in {"second EOT", "after"} => down \in {<< >>, Typed("eot")}
  /\ pc \in Prompts => down \in {<< >>, Typed("cr"), <<Type("esc", rate), Type("cr", rate)>>}
  /\ pc = "sum" => down \in {<< >>, Typed("crc")}

Sorted == \A i, j \in 1 .. Len(down) : i < j => down[i][2] <= down[j][2]

\* A command U-Boot has not read yet: it is waiting for it at the script's rate.
Unread ==
  pc \in {"offer", "C"} /\ down # << >> =>
    /\ up = << >> /\ ubRate = rate
    /\ ub = IF down = Typed("cr") THEN "enter" ELSE "prompt"

Telling ==
  /\ pc = "offer" /\ "ENTER" \in On(up) => down = << >> /\ ub = "enter" /\ ubRate = Quick
  /\ pc \in Prompts /\ "=>" \in On(up) => down = << >> /\ ub = "prompt" /\ ubRate = rate
  /\ pc = "sum" /\ On(up) \cap {"good", "bad"} # {} =>
       /\ down = << >> /\ ub = "prompt" /\ ubRate = rate
       /\ "good" \in On(up) => ram = Full

Ready ==
  /\ pc \in {"idle", "ready"} => ub = "prompt" /\ ubRate = rate
  /\ Uploaded => ram = Full
  /\ pc \in {"look", "lost"} => rate = Std

\* The header is taken once: a copy of it still under way finds block 1 expected.
Header ==
  /\ pc \in {"offer", "C"} => ub \notin {"data", "eof"}
  /\ pc = "data C" => blk = 0
  /\ pc = "ack" /\ blk = 0 /\ ub = "data" => next = 1
  /\ ub = "data" /\ (\E f \in On(down) : f[1] = "block" /\ f[2] = 0) => next = 1

Base == Types /\ Line /\ Sorted /\ Unread /\ Telling /\ Ready /\ Header

(***************************************************************************)
(* Second layer: the exchange of blocks while the Mac keeps up.  What can  *)
(* be on the line to the script is so little that it can be listed.        *)
(***************************************************************************)
Asking   == {<< >>, <<"C">>, <<"CAN">>, <<"C", "CAN">>}
Answers  == Asking \cup {<<"ACK">>, <<"ACK", "CAN">>}
Answers0 == Answers \cup {<<"ACK", "C">>, <<"ACK", "C", "CAN">>}

\* A cancel is on the line: U-Boot has left the transfer.
Ended == "CAN" \in On(up) => ub \in {"prompt", "esc"} /\ mishap # {}

Beginning ==
  pc \in {"offer", "C"} =>
    /\ Ended
    /\ up \in Asking \/ (pc = "offer" /\ up = <<"ENTER">>)
    /\ "C" \in On(up) => ram = << >> /\ ub # "enter"
    /\ ub \in {"open", "enter"} => ram = << >>

Blockwise ==
  pc = "ack" =>
    /\ Ended /\ ub # "eof"
    /\ up \in (IF blk = 0 THEN Answers0 ELSE Answers)
    /\ ram = [i \in 1 .. Len(ram) |-> i]
    /\ Len(ram) \in (IF blk = 0 THEN {0} ELSE {blk - 1, blk})
    /\ "ACK" \in On(up) => down = << >> /\ ub # "open" /\ Len(ram) = blk
    /\ ub \in {"open", "data"} => down = << >> \/ (up = << >> /\ down = <<Frame(blk)>>)
    /\ ub = "data" => next = (Len(ram) + 1) % SeqMod

HeaderTaken ==
  pc = "data C" =>
    /\ Ended /\ ub \notin {"open", "eof"}
    /\ up \in Asking /\ ram = << >> /\ down = << >>
    /\ ub = "data" => next = 1

Exchange == "stall" \notin mishap => Beginning /\ Blockwise /\ HeaderTaken

(***************************************************************************)
(* Third layer: as long as nothing but noise has gone wrong, U-Boot is     *)
(* where the script takes it to be.                                        *)
(***************************************************************************)
Listening == ubRate = rate /\ back = switched

MBegin ==
  /\ pc = "offer" => ~switched
  /\ pc = "offer" /\ down = << >> =>
       \/ ub = "enter" /\ back /\ up = <<"ENTER">>
       \/ ub = "open" /\ Listening
  /\ pc = "C" /\ down = Typed("cr") => switched /\ back
  /\ pc = "C" /\ down = Typed("loady") => ~switched
  /\ pc = "C" /\ down = << >> => ub = "open" /\ Listening

MBlocks ==
  /\ pc = "ack" =>
       /\ ub \in {"open", "data"} /\ Listening /\ (blk > 0 => ub = "data")
       /\ hits >= tries - 1
       /\ down = << >> /\ "ACK" \notin On(up) => hits >= tries
  /\ pc = "data C" => ub = "data" /\ Listening

\* The file has ended: U-Boot waits for ESC, or is at the prompt at once.
Over == IF switched THEN ub = "esc" /\ ubRate \in {Std, rate} ELSE ub = "prompt" /\ ubRate = rate

MEnd ==
  /\ pc \in {"EOT", "second EOT", "after"} \cup Prompts \cup {"sum"} => ram = Full
  /\ pc \in {"EOT", "second EOT", "after"} => back = switched
  /\ pc = "EOT" => down = << >> /\ ub = "data" /\ ubRate = rate
  /\ pc = "second EOT" =>
       IF down = << >> THEN Over \/ (ub = "eof" /\ ubRate = rate)
                       ELSE ub = "data" /\ ubRate = rate
  /\ pc = "after" => Over \/ (ub = "eof" /\ ubRate = rate /\ down # << >>)

MPrompt ==
  /\ pc = "prompt again" => ubRate = rate
  /\ pc \in Prompts /\ ubRate # rate => ub = "esc" /\ ubRate = Std
  /\ pc \in Prompts /\ ubRate = rate =>
       /\ down = << >> => "=>" \in On(up) /\ ub = "prompt"
       /\ down = Typed("cr") => ub = "prompt"
       /\ Len(down) = 2 => ub = "esc"
  /\ pc = "sum" =>
       /\ ub = "prompt" /\ ubRate = rate /\ "bad" \notin On(up)
       /\ down = << >> => "good" \in On(up)

NoMishap == mishap = {} => MBegin /\ MBlocks /\ MEnd /\ MPrompt

----------------------------------------------------------------------------
(***************************************************************************)
(* Lines: sequences, and what is on them.                                  *)
(***************************************************************************)
LEMMA OnEmpty == On(<< >>) = {}
  BY DEF On

LEMMA OnLiteral == ASSUME NEW a, NEW b, NEW c
                   PROVE  On(<<a>>) = {a} /\ On(<<a, b>>) = {a, b} /\ On(<<a, b, c>>) = {a, b, c}
  BY DEF On

LEMMA OnTail == ASSUME NEW S, NEW s \in Seq(S), s # << >>
                PROVE  /\ Head(s) \in On(s) /\ Head(s) \in S /\ Tail(s) \in Seq(S)
                       /\ On(s) = {Head(s)} \cup On(Tail(s))
                       /\ Len(s) \in Nat \ {0} /\ Len(Tail(s)) = Len(s) - 1
                       /\ Head(s) = s[1] /\ \A i \in 1 .. Len(s) - 1 : Tail(s)[i] = s[i + 1]
  <1> DEFINE h == Head(s)  t == Tail(s)  n == Len(s)
  <1>1. Len(s) \in Nat \ {0} /\ Tail(s) \in Seq(S) /\ Len(Tail(s)) = Len(s) - 1
        /\ Head(s) = s[1] /\ Head(s) \in S
    BY HeadTailProperties, EmptySeq, LenProperties
  <1>2. \A i \in 1 .. Len(s) - 1 : Tail(s)[i] = s[i + 1]
    BY <1>1
  <1>3. \A i \in 1 .. n - 1 : t[i] = s[i + 1]
    BY <1>2
  <1>4. n \in Nat \ {0} /\ Len(t) = n - 1 /\ h = s[1] /\ n = Len(s)
    BY <1>1
  <1> HIDE DEF h, t, n
  <1>5. On(t) \subseteq On(s) /\ h \in On(s)
    BY <1>3, <1>4 DEF On
  <1>6. ASSUME NEW i \in 1 .. n, i # 1
        PROVE  s[i] \in On(t)
    <2>1. i - 1 \in 1 .. n - 1 /\ t[i - 1] = s[i]
      BY <1>3, <1>4, <1>6
    <2> QED
      BY <2>1, <1>4 DEF On
  <1>7. On(s) \subseteq {h} \cup On(t)
    BY <1>4, <1>6 DEF On
  <1>8. On(s) = {Head(s)} \cup On(Tail(s)) /\ Head(s) \in On(s)
    BY <1>5, <1>7 DEF h, t
  <1> QED
    BY <1>1, <1>2, <1>8

LEMMA OnAppend == ASSUME NEW S, NEW s \in Seq(S), NEW a \in S
                  PROVE  /\ Append(s, a) \in Seq(S) /\ Append(s, a) # << >>
                         /\ On(Append(s, a)) = On(s) \cup {a}
                         /\ Len(s) \in Nat /\ Len(Append(s, a)) = Len(s) + 1
                         /\ \A i \in 1 .. Len(s) : Append(s, a)[i] = s[i]
                         /\ Append(s, a)[Len(s) + 1] = a
  <1>1. /\ Append(s, a) \in Seq(S) /\ Len(Append(s, a)) = Len(s) + 1 /\ Len(s) \in Nat
        /\ \A i \in 1 .. Len(s) : Append(s, a)[i] = s[i]
        /\ Append(s, a)[Len(s) + 1] = a
    BY AppendProperties, LenProperties
  <1>2. On(Append(s, a)) = On(s) \cup {a}
    BY <1>1 DEF On
  <1>3. Append(s, a) # << >>
    BY <1>1
  <1> QED
    BY <1>1, <1>2, <1>3

\* What is said is appended byte by byte.
LEMMA Concat == ASSUME NEW S, NEW s \in Seq(S), NEW a \in S, NEW b \in S
                PROVE  s \o <<a>> = Append(s, a) /\ s \o <<a, b>> = Append(Append(s, a), b)
  OBVIOUS

LEMMA Literals ==
  ASSUME NEW a, NEW b, NEW c
  PROVE  /\ Append(<< >>, a) = <<a>> /\ << >> \o <<a>> = <<a>> /\ << >> \o <<a, b>> = <<a, b>>
         /\ Head(<<a>>) = a /\ Head(<<a, b>>) = a /\ Head(<<a, b, c>>) = a
         /\ Tail(<<a>>) = << >> /\ Tail(<<a, b>>) = <<b>> /\ Tail(<<a, b, c>>) = <<b, c>>
         /\ <<a>> # << >> /\ <<a, b>> # << >> /\ <<a, b, c>> # << >> /\ <<a, b>> # <<c>>
  <1>1. Append(<< >>, a) = <<a>> /\ << >> \o <<a>> = <<a>> /\ << >> \o <<a, b>> = <<a, b>>
    OBVIOUS
  <1>2. Head(<<a>>) = a /\ Head(<<a, b>>) = a /\ Head(<<a, b, c>>) = a
    OBVIOUS
  <1>3. Tail(<<a>>) = << >> /\ Tail(<<a, b>>) = <<b>> /\ Tail(<<a, b, c>>) = <<b, c>>
    OBVIOUS
  <1>4. <<a>> # << >> /\ <<a, b>> # << >> /\ <<a, b, c>> # << >> /\ <<a, b>> # <<c>>
    OBVIOUS
  <1> QED
    BY <1>1, <1>2, <1>3, <1>4

LEMMA AppendIs ==
  ASSUME NEW S, NEW s \in Seq(S), NEW a \in S, NEW t \in Seq(S), Len(t) = Len(s) + 1,
         \A i \in 1 .. Len(s) : t[i] = s[i], t[Len(s) + 1] = a
  PROVE  Append(s, a) = t
  <1>1. /\ Append(s, a) \in Seq(S) /\ Len(Append(s, a)) = Len(s) + 1 /\ Len(s) \in Nat
        /\ \A i \in 1 .. Len(s) : Append(s, a)[i] = s[i]
        /\ Append(s, a)[Len(s) + 1] = a
    BY OnAppend
  <1>2. \A i \in 1 .. Len(t) : Append(s, a)[i] = t[i]
    BY <1>1
  <1> QED
    BY <1>1, <1>2, SeqEqual

LEMMA AppendSecond == ASSUME NEW a, NEW b PROVE Append(<<a>>, b) = <<a, b>>
  <1>1. <<a>> \in Seq({a, b}) /\ <<a, b>> \in Seq({a, b}) /\ b \in {a, b}
    OBVIOUS
  <1>2. Len(<<a>>) = 1 /\ Len(<<a, b>>) = 2
        /\ <<a, b>>[1] = a /\ <<a, b>>[2] = b /\ <<a>>[1] = a
    OBVIOUS
  <1>3. \A i \in 1 .. Len(<<a>>) : <<a, b>>[i] = <<a>>[i]
    BY <1>2
  <1>4. Len(<<a, b>>) = Len(<<a>>) + 1 /\ <<a, b>>[Len(<<a>>) + 1] = b
    BY <1>2
  <1> QED
    BY <1>1, <1>3, <1>4, AppendIs

LEMMA AppendThird == ASSUME NEW a, NEW b, NEW c PROVE Append(<<a, b>>, c) = <<a, b, c>>
  <1>1. <<a, b>> \in Seq({a, b, c}) /\ <<a, b, c>> \in Seq({a, b, c}) /\ c \in {a, b, c}
    OBVIOUS
  <1>2. /\ Len(<<a, b>>) = 2 /\ <<a, b>>[1] = a /\ <<a, b>>[2] = b
        /\ Len(<<a, b, c>>) = 3 /\ <<a, b, c>>[1] = a /\ <<a, b, c>>[2] = b /\ <<a, b, c>>[3] = c
    OBVIOUS
  <1>3. \A i \in 1 .. Len(<<a, b>>) : <<a, b, c>>[i] = <<a, b>>[i]
    BY <1>2
  <1>4. Len(<<a, b, c>>) = Len(<<a, b>>) + 1 /\ <<a, b, c>>[Len(<<a, b>>) + 1] = c
    BY <1>2
  <1> QED
    BY <1>1, <1>3, <1>4, AppendIs

----------------------------------------------------------------------------
(***************************************************************************)
(* Block numbers on the wire.                                              *)
(***************************************************************************)
LEMMA DivMod == ASSUME NEW M \in Nat \ {0}, NEW n \in Nat
                PROVE  n \div M \in Nat /\ n % M \in 0 .. M - 1 /\ n = (M * (n \div M)) + (n % M)
  <1>1. n % M \in 0 .. M - 1
    OBVIOUS
  <1>2. n \div M \in Nat
    OBVIOUS
  <1>3. n = (M * (n \div M)) + (n % M)
    OBVIOUS
  <1> QED
    BY <1>1, <1>2, <1>3

LEMMA DivModUnique ==
  ASSUME NEW M \in Nat \ {0}, NEW q \in Int, NEW p \in Int, NEW r \in 0 .. M - 1,
         NEW s \in 0 .. M - 1, M * q + r = M * p + s
  PROVE  r = s
  <1>1. M * (q - p) = s - r
    OBVIOUS
  <1>2. CASE q - p >= 1
    <2>1. M * (q - p) >= M
      BY <1>2
    <2> QED
      BY <2>1, <1>1
  <1>3. CASE p - q >= 1
    <2>1. M * (q - p) <= 0 - M
      BY <1>3
    <2> QED
      BY <2>1, <1>1
  <1> QED
    BY <1>1, <1>2, <1>3

\* The number after n is one more, or zero after the last.
LEMMA NextNumber ==
  ASSUME NEW M \in Nat \ {0, 1}, NEW n \in Nat
  PROVE  (n + 1) % M = IF (n % M) + 1 = M THEN 0 ELSE (n % M) + 1
  <1> DEFINE q == n \div M
             r == n % M
             p == (n + 1) \div M
             s == (n + 1) % M
  <1>1. q \in Nat /\ r \in 0 .. M - 1 /\ n = (M * q) + r
    BY DivMod
  <1>2. n + 1 \in Nat
    OBVIOUS
  <1>3. p \in Nat /\ s \in 0 .. M - 1 /\ n + 1 = (M * p) + s
    BY <1>2, DivMod DEF p, s
  <1> HIDE DEF q, r, p, s
  <1>4. CASE r + 1 = M
    <2>1. M * (q + 1) = M * q + M
      BY <1>1
    <2>2. M * (q + 1) + 0 = M * p + s
      BY <2>1, <1>1, <1>3, <1>4
    <2>3. s = 0
      BY <2>2, <1>1, <1>3, DivModUnique
    <2> QED
      BY <2>3, <1>4 DEF s, r
  <1>5. CASE r + 1 # M
    <2>1. M * q + (r + 1) = M * p + s
      BY <1>1, <1>3
    <2>2. r + 1 \in 0 .. M - 1
      BY <1>1, <1>5
    <2>3. s = r + 1
      BY <2>1, <2>2, <1>1, <1>3, DivModUnique
    <2> QED
      BY <2>3, <1>5 DEF s, r
  <1> QED
    BY <1>4, <1>5

(***************************************************************************)
(* The number U-Boot expects next is told from the one of the block it     *)
(* has, so a repeated block is seen for what it is at the wrap too.        *)
(***************************************************************************)
LEMMA Numbering ==
  ASSUME NEW n \in Nat
  PROVE  /\ SeqNo(n) \in 0 .. SeqMod - 1
         /\ (SeqNo(n) + 1) % SeqMod = (n + 1) % SeqMod
         /\ SeqNo(n) # (n + 1) % SeqMod
         /\ SeqNo(0) = 0 /\ 1 % SeqMod = 1
  <1> DEFINE M == SeqMod
             r == n % M
  <1>1. M \in Nat \ {0, 1, 2}
    BY LoadyAssumption
  <1> HIDE DEF M
  <1>2. r \in 0 .. M - 1
    BY <1>1, DivMod
  <1>3. (n + 1) % M = IF r + 1 = M THEN 0 ELSE r + 1
    BY <1>1, NextNumber
  <1>4. 0 % M = 0 /\ 1 % M = 1
    BY <1>1
  <1>5. (r + 1) % M = IF r + 1 = M THEN 0 ELSE r + 1
    <2>1. ASSUME NEW k \in 0 .. M - 1 PROVE (k + 1) % M = IF k + 1 = M THEN 0 ELSE k + 1
      <3>1. k \in Nat /\ k % M = k /\ M \in Nat \ {0, 1}
        BY <1>1
      <3>2. (k + 1) % M = IF (k % M) + 1 = M THEN 0 ELSE (k % M) + 1
        BY <3>1, NextNumber, Zenon
      <3> QED
        BY <3>1, <3>2, Zenon
    <2> QED
      BY <1>2, <2>1
  <1> HIDE DEF r
  <1>6. r # (n + 1) % M
    BY <1>1, <1>2, <1>3
  <1> QED
    BY <1>1, <1>2, <1>3, <1>4, <1>5, <1>6 DEF SeqNo, M, r

----------------------------------------------------------------------------
(***************************************************************************)
(* What a step does to the line, in the terms of the invariants.           *)
(***************************************************************************)
Frames == Kinds \X (0 .. Blocks) \X {Std, Quick}

LEMMA Takes == ASSUME Types, up # << >>, up' = Tail(up)
               PROVE  up' \in Seq(Bytes) /\ Head(up) \in Bytes /\ On(up) = {Head(up)} \cup On(up')
  BY OnTail DEF Types

LEMMA SaysOne == ASSUME Types, NEW a \in Bytes, Says(<<a>>)
                 PROVE  up' = Append(up, a) /\ up' \in Seq(Bytes) /\ On(up') = On(up) \cup {a} /\ up' # << >>
  <1>1. up \in Seq(Bytes)
    BY DEF Types
  <1>2. up' = Append(up, a)
    BY <1>1, Concat DEF Says
  <1> QED
    BY <1>1, <1>2, OnAppend

LEMMA SaysTwo == ASSUME Types, NEW a \in Bytes, NEW b \in Bytes, Says(<<a, b>>)
                 PROVE  /\ up' = Append(Append(up, a), b) /\ up' \in Seq(Bytes)
                        /\ On(up') = On(up) \cup {a, b} /\ up' # << >>
  <1>1. up \in Seq(Bytes)
    BY DEF Types
  <1>2. up' = Append(Append(up, a), b)
    BY <1>1, Concat DEF Says
  <1> DEFINE one == Append(up, a)
  <1>3. one \in Seq(Bytes) /\ On(one) = On(up) \cup {a} /\ up' = Append(one, b)
    BY <1>1, <1>2, OnAppend
  <1> HIDE DEF one
  <1>4. up' \in Seq(Bytes) /\ On(up') = On(one) \cup {b} /\ up' # << >>
    BY <1>3, OnAppend
  <1> QED
    BY <1>2, <1>3, <1>4

LEMMA Delivered == ASSUME Types, down # << >>, down' = Tail(down)
                   PROVE  /\ down' \in Seq(Frames) /\ Got \in Frames /\ Got = down[1]
                          /\ On(down) = {Got} \cup On(down')
                          /\ Len(down) \in Nat \ {0} /\ Len(down') = Len(down) - 1
                          /\ \A i \in 1 .. Len(down) - 1 : down'[i] = down[i + 1]
  BY OnTail DEF Types, Got, Frames

LEMMA FrameParts == ASSUME NEW f \in Frames
                    PROVE  f[1] \in Kinds /\ f[2] \in 0 .. Blocks /\ f[3] \in {Std, Quick}
  BY DEF Frames

LEMMA IsFrame == ASSUME Types
                 PROVE  /\ \A b \in 0 .. Blocks : Frame(b) \in Frames
                        /\ \A k \in Kinds, r \in {Std, Quick} : Type(k, r) \in Frames
  <1>0. rate \in {Std, Quick} /\ "block" \in Kinds
    BY DEF Types, TypeOK, Kinds
  <1>1. 0 \in 0 .. Blocks
    BY LoadyAssumption
  <1>2. ASSUME NEW b \in 0 .. Blocks PROVE Frame(b) \in Frames
    BY <1>0 DEF Frame, Frames
  <1>3. ASSUME NEW k \in Kinds, NEW r \in {Std, Quick} PROVE Type(k, r) \in Frames
    BY <1>1 DEF Type, Frames
  <1> QED
    BY <1>2, <1>3

\* The sub-actions a step can be.
LEMMA Steps == ASSUME Next
               PROVE  \/ TypeLoady \/ TakeOffer \/ Asked \/ Acked \/ Resend \/ NotAcknowledged
                      \/ Skip \/ Cancelled \/ Eot \/ Escape \/ EscapeStd \/ TypeCrc \/ Sum
                      \/ NoAnswer \/ Rerun \/ Look
                      \/ Prompt \/ Enter \/ Open \/ Data \/ Eof \/ Esc \/ Garbled
                      \/ UbTimeout \/ UbGivesUp \/ NoiseDown \/ NoiseUp \/ Cancel \/ GiveUp
                      \/ ResetBoard \/ PowerCycle \/ \E b \in BOOLEAN : StartRun(b)
  BY DEF Next, Script, UBoot, Trouble

----------------------------------------------------------------------------
(***************************************************************************)
(* Types.  The header is never stored: a copy of it still under way meets  *)
(* a U-Boot that expects block 1.                                          *)
(***************************************************************************)
LEMMA Stored == ASSUME Base, Data, ram' # ram
                PROVE  /\ Got[1] = "block" /\ Got[2] \in 1 .. Blocks /\ SeqNo(Got[2]) = next
                       /\ Len(ram) < Blocks /\ ram' = Append(ram, Got[2])
  <1>1. Types /\ down # << >> /\ down' = Tail(down) /\ ub = "data"
    BY DEF Data, Clear, Reads, Base
  <1>2. Got \in Frames /\ Got \in On(down)
    BY <1>1, Delivered
  <1>3. Got[1] = "block" /\ SeqNo(Got[2]) = next /\ Len(ram) < Blocks /\ ram' = Append(ram, Got[2])
    BY DEF Data
  <1>4. Got[2] # 0
    <2>1. Got[2] = 0 => next = 1 /\ SeqNo(0) = 1
      BY <1>1, <1>2, <1>3 DEF Base, Header
    <2>2. SeqNo(0) = 0
      BY Numbering
    <2> QED
      BY <2>1, <2>2
  <1>5. Got[2] \in 1 .. Blocks
    BY <1>2, <1>4, FrameParts, LoadyAssumption
  <1> QED
    BY <1>3, <1>5

(***************************************************************************)
(* All that a step can do to what U-Boot has said and to what it has not   *)
(* read yet.                                                               *)
(***************************************************************************)
Flushes  == up' = << >>
Consumes == up # << >> /\ up' = Tail(up)
Speaks   == (\E a \in Bytes : Says(<<a>>)) \/ (\E a, b \in Bytes : Says(<<a, b>>))

LEMMA UpMoves == ASSUME Next PROVE Flushes \/ Consumes \/ Speaks \/ UNCHANGED up
  <1> USE DEF Flushes, Consumes, script, uboot, budget
  <1>1. CASE TypeLoady \/ TakeOffer \/ Eot \/ Escape \/ TypeCrc \/ Rerun
    BY <1>1 DEF TypeLoady, TakeOffer, Eot, Escape, TypeCrc, Rerun
  <1>2. CASE Asked \/ Acked \/ Skip \/ Cancelled \/ Sum \/ NoiseUp
    BY <1>2 DEF Asked, Hears, Acked, Skip, Cancelled, Sum, NoiseUp
  <1>3. CASE Resend \/ NotAcknowledged
    BY <1>3 DEF Resend, NotAcknowledged, Again, AgainAnswered
  <1>4. CASE EscapeStd \/ NoAnswer \/ Look \/ Esc \/ Garbled \/ UbGivesUp
    BY <1>4 DEF EscapeStd, NoAnswer, Look, Esc, Garbled, UbGivesUp
  <1>5. CASE NoiseDown \/ GiveUp \/ ResetBoard \/ PowerCycle \/ \E b \in BOOLEAN : StartRun(b)
    BY <1>5 DEF NoiseDown, GiveUp, ResetBoard, PowerCycle, StartRun
  <1>6. CASE Prompt
    BY <1>6 DEF Prompt, Speaks, Bytes
  <1>7. CASE Enter \/ Open
    BY <1>7 DEF Enter, Open, Speaks, Bytes
  <1>8. CASE Data
    BY <1>8 DEF Data, Speaks, Bytes
  <1>9. CASE Eof \/ UbTimeout
    BY <1>9 DEF Eof, UbTimeout, EndOfFile, Speaks, Bytes
  <1>10. CASE Cancel
    BY <1>10 DEF Cancel, Speaks, Bytes
  <1> QED
    BY Steps, <1>1, <1>2, <1>3, <1>4, <1>5, <1>6, <1>7, <1>8, <1>9, <1>10

Delivers == down # << >> /\ down' = Tail(down)
Sends    == (\E f \in Frames : Send(f)) \/ (\E f, g \in Frames : down' = down \o <<f, g>>)

LEMMA DownMoves == ASSUME Types, Next PROVE Delivers \/ Sends \/ UNCHANGED down
  <1> USE DEF Delivers, script, uboot, budget
  <1>0. rate \in {Std, Quick} /\ blk \in 0 .. Blocks
    BY DEF Types, TypeOK
  <1>1. CASE TypeLoady \/ TakeOffer \/ Eot \/ TypeCrc
    <2>1. \E k \in Kinds, r \in {Std, Quick} : Send(Type(k, r))
      BY <1>0, <1>1 DEF TypeLoady, TakeOffer, Eot, TypeCrc, Kinds
    <2> QED
      BY <2>1, IsFrame DEF Sends
  <1>2. CASE Escape \/ EscapeStd
    <2>1. \E r \in {Std, Quick} : down' = down \o <<Type("esc", r), Type("cr", r)>>
      BY <1>0, <1>2 DEF Escape, EscapeStd, EscAndPrompt
    <2> QED
      BY <2>1, IsFrame DEF Sends, Kinds
  <1>3. CASE Asked \/ Acked \/ Resend
    <2>1. UNCHANGED down \/ \E b \in 0 .. Blocks : Send(Frame(b))
      <3>1. {0, 1} \subseteq 0 .. Blocks /\ \A b \in 1 .. Blocks - 1 : b + 1 \in 0 .. Blocks
        BY LoadyAssumption
      <3> QED
        BY <1>0, <1>3, <3>1 DEF Asked, Acked, Resend, SendBlock
    <2> QED
      BY <2>1, IsFrame DEF Sends
  <1>4. CASE NotAcknowledged \/ Skip \/ Cancelled \/ Sum \/ NoAnswer \/ Rerun \/ Look
    BY <1>4 DEF NotAcknowledged, Skip, Cancelled, Sum, NoAnswer, Rerun, Look
  <1>5. CASE Prompt \/ Enter \/ Open \/ Data \/ Eof \/ Esc \/ Garbled
    BY <1>5 DEF Prompt, Enter, Open, Data, Eof, Esc, Garbled, Clear, Reads
  <1>6. CASE UbTimeout \/ UbGivesUp \/ NoiseUp \/ Cancel \/ GiveUp \/ NoiseDown
    BY <1>6 DEF UbTimeout, UbGivesUp, NoiseUp, Cancel, GiveUp, NoiseDown
  <1>7. CASE ResetBoard \/ PowerCycle \/ \E b \in BOOLEAN : StartRun(b)
    BY <1>7 DEF ResetBoard, PowerCycle, StartRun
  <1> QED
    BY Steps, <1>1, <1>2, <1>3, <1>4, <1>5, <1>6, <1>7

LEMMA LineTypes == ASSUME Types, Next PROVE up' \in Seq(Bytes) /\ down' \in Seq(Frames)
  <1>1. up' \in Seq(Bytes)
    <2>1. CASE Flushes \/ UNCHANGED up
      <3>1. << >> \in Seq(Bytes) /\ up \in Seq(Bytes)
        BY DEF Types
      <3> QED
        BY <2>1, <3>1 DEF Flushes
    <2>2. CASE Consumes
      BY <2>2, Takes DEF Consumes
    <2>3. CASE Speaks
      BY <2>3, SaysOne, SaysTwo DEF Speaks
    <2> QED
      BY <2>1, <2>2, <2>3, UpMoves
  <1>2. down' \in Seq(Frames)
    <2>1. down \in Seq(Frames)
      BY DEF Types, Frames
    <2>2. CASE Delivers
      BY <2>2, Delivered DEF Delivers
    <2>3. CASE Sends
      <3>1. ASSUME NEW f \in Frames, Send(f) PROVE down' \in Seq(Frames)
        BY <2>1, <3>1, OnAppend DEF Send
      <3>2. ASSUME NEW f \in Frames, NEW g \in Frames, down' = down \o <<f, g>>
            PROVE  down' \in Seq(Frames)
        <4>1. down' = Append(Append(down, f), g)
          BY <2>1, <3>2, Concat
        <4> QED
          BY <2>1, <4>1, OnAppend
      <3> QED
        BY <2>3, <3>1, <3>2 DEF Sends
    <2> QED
      BY <2>1, <2>2, <2>3, DownMoves
  <1> QED
    BY <1>1, <1>2

LEMMA RamMoves == ASSUME Base, Next
                  PROVE  \/ UNCHANGED ram \/ ram' = << >>
                         \/ Data /\ ram' # ram
  <1> USE DEF script, uboot, budget
  <1>1. CASE TypeLoady \/ TakeOffer \/ Asked \/ Acked \/ Resend \/ NotAcknowledged \/ Skip
    BY <1>1 DEF TypeLoady, TakeOffer, Asked, Acked, Resend, NotAcknowledged, Skip
  <1>2. CASE Cancelled \/ Eot \/ Escape \/ EscapeStd \/ TypeCrc \/ Sum \/ NoAnswer \/ Rerun \/ Look
    BY <1>2 DEF Cancelled, Eot, Escape, EscapeStd, TypeCrc, Sum, NoAnswer, Rerun, Look
  <1>3. CASE Prompt \/ Enter \/ Open \/ Eof \/ Esc \/ Garbled
    BY <1>3 DEF Prompt, Enter, Open, Eof, EndOfFile, Esc, Garbled
  <1>4. CASE UbTimeout \/ UbGivesUp \/ NoiseDown \/ NoiseUp \/ Cancel \/ GiveUp
    BY <1>4 DEF UbTimeout, EndOfFile, UbGivesUp, NoiseDown, NoiseUp, Cancel, GiveUp
  <1>5. CASE ResetBoard \/ PowerCycle \/ \E b \in BOOLEAN : StartRun(b)
    BY <1>5 DEF ResetBoard, PowerCycle, StartRun
  <1> QED
    BY Steps, <1>1, <1>2, <1>3, <1>4, <1>5

LEMMA RamTypes == ASSUME Base, Next PROVE ram' \in Seq(1 .. Blocks) /\ Len(ram') <= Blocks
  <1>1. ram \in Seq(1 .. Blocks) /\ Len(ram) <= Blocks /\ Len(ram) \in Nat
    BY LenProperties DEF Base, Types, TypeOK
  <1>2. << >> \in Seq(1 .. Blocks) /\ Len(<< >>) <= Blocks
    BY LoadyAssumption
  <1>3. CASE Data /\ ram' # ram
    <2>1. Got[2] \in 1 .. Blocks /\ Len(ram) < Blocks /\ ram' = Append(ram, Got[2])
      BY <1>3, Stored
    <2>2. ram' \in Seq(1 .. Blocks) /\ Len(ram') = Len(ram) + 1
      BY <1>1, <2>1, OnAppend
    <2> QED
      BY <1>1, <2>1, <2>2, LoadyAssumption
  <1> QED
    BY <1>1, <1>2, <1>3, RamMoves

\* The counters of the script and the budgets.
LEMMA CounterTypes ==
  ASSUME Types, Next
  PROVE  /\ tries' \in 1 .. Tries /\ left' \in 0 .. Uploads /\ blk' \in 0 .. Blocks
         /\ hits' \in 0 .. MaxNoise /\ noise' \in 0 .. MaxNoise /\ stalls' \in 0 .. MaxStalls
         /\ hits' + noise' <= MaxNoise
  <1> DEFINE Same == UNCHANGED <<tries, left, blk, hits, noise, stalls>>
             Fine == /\ tries \in 1 .. Tries /\ left \in 0 .. Uploads /\ blk \in 0 .. Blocks
                     /\ hits \in 0 .. MaxNoise /\ noise \in 0 .. MaxNoise /\ stalls \in 0 .. MaxStalls
                     /\ hits + noise <= MaxNoise
  <1>0. Fine
    BY DEF Types, TypeOK
  <1>1. CASE Same
    BY <1>0, <1>1
  <1>2. CASE TypeLoady
    <2>1. left > 0 /\ left' = left - 1 /\ hits' = 0 /\ UNCHANGED <<tries, blk, noise, stalls>>
      BY <1>2 DEF TypeLoady
    <2> QED
      BY <1>0, <2>1, LoadyAssumption
  <1>3. CASE Asked \/ Acked
    <2>1. /\ UNCHANGED <<left, hits, noise, stalls>>
          /\ UNCHANGED <<tries, blk>> \/ (tries' = 1 /\ blk' \in {0, 1})
             \/ (tries' = 1 /\ blk \in 1 .. Blocks - 1 /\ blk' = blk + 1)
      BY <1>3 DEF Asked, Acked, SendBlock, budget
    <2>2. UNCHANGED tries \/ tries' = 1
      BY <2>1
    <2> QED
      BY <1>0, <2>1, <2>2, LoadyAssumption
  <1>4. CASE Resend
    <2>1. tries < Tries /\ tries' = tries + 1 /\ UNCHANGED <<left, blk, hits, noise, stalls>>
      BY <1>4 DEF Resend, MayRetry, budget
    <2> QED
      BY <1>0, <2>1, LoadyAssumption
  <1>5. CASE TakeOffer \/ NotAcknowledged \/ Skip \/ Cancelled \/ Eot \/ Escape \/ EscapeStd
    BY <1>1, <1>5 DEF TakeOffer, NotAcknowledged, Skip, Cancelled, Eot, Escape, EscapeStd, script, budget
  <1>6. CASE TypeCrc \/ Sum \/ NoAnswer \/ Rerun \/ Look
    BY <1>1, <1>6 DEF TypeCrc, Sum, NoAnswer, Rerun, Look, budget
  <1>7. CASE Prompt \/ Enter \/ Open \/ Data \/ Eof \/ Esc \/ Garbled
    BY <1>1, <1>7 DEF Prompt, Enter, Open, Data, Eof, Esc, Garbled, Clear, Reads, script, budget
  <1>8. CASE UbTimeout
    <2>1. UNCHANGED <<tries, left, blk, hits, noise>> /\ (UNCHANGED stalls \/ (stalls > 0 /\ stalls' = stalls - 1))
      BY <1>8 DEF UbTimeout, script
    <2> QED
      BY <1>0, <2>1, LoadyAssumption
  <1>9. CASE NoiseDown \/ NoiseUp
    <2>1. UNCHANGED <<tries, left, blk, stalls>> /\ noise > 0 /\ noise' = noise - 1 /\ hits' = hits + 1
      BY <1>9 DEF NoiseDown, NoiseUp, Spend, script
    <2> QED
      BY <1>0, <2>1, LoadyAssumption
  <1>10. CASE Cancel
    <2>1. UNCHANGED <<tries, left, blk, stalls, hits>> /\ noise > 0 /\ noise' = noise - 1
      BY <1>10 DEF Cancel, script
    <2> QED
      BY <1>0, <2>1, LoadyAssumption
  <1>11. CASE UbGivesUp \/ GiveUp \/ ResetBoard \/ PowerCycle
    BY <1>1, <1>11 DEF UbGivesUp, GiveUp, ResetBoard, PowerCycle, script, budget
  <1>12. CASE \E b \in BOOLEAN : StartRun(b)
    <2>1. left' = Uploads /\ UNCHANGED <<tries, blk, hits, noise, stalls>>
      BY <1>12 DEF StartRun
    <2> QED
      BY <1>0, <2>1, LoadyAssumption
  <1> QED
    BY Steps, <1>2, <1>3, <1>4, <1>5, <1>6, <1>7, <1>8, <1>9, <1>10, <1>11, <1>12

\* The states of the script and of U-Boot.
LEMMA StateTypes ==
  ASSUME Types, Next
  PROVE  /\ pc' \in Sending \cup {"idle", "ready", "failed", "look", "lost"}
         /\ {rate', ubRate'} \subseteq {Std, Quick} /\ {fast', switched', back'} \subseteq BOOLEAN
         /\ ub' \in {"prompt", "enter", "open", "data", "eof", "esc"}
         /\ next' \in 0 .. SeqMod - 1
  <1> DEFINE Fine == /\ pc \in Sending \cup {"idle", "ready", "failed", "look", "lost"}
                     /\ rate \in {Std, Quick} /\ ubRate \in {Std, Quick}
                     /\ fast \in BOOLEAN /\ switched \in BOOLEAN /\ back \in BOOLEAN
                     /\ ub \in {"prompt", "enter", "open", "data", "eof", "esc"}
                     /\ next \in 0 .. SeqMod - 1
  <1>0. Fine
    BY DEF Types, TypeOK
  <1>0a. 1 \in 0 .. SeqMod - 1 /\ (next + 1) % SeqMod \in 0 .. SeqMod - 1
    <2>1. next + 1 \in Nat /\ 1 \in 0 .. SeqMod - 1
      BY <1>0, LoadyAssumption
    <2>2. (next + 1) % SeqMod \in 0 .. SeqMod - 1
      BY <2>1, DivMod, LoadyAssumption
    <2> QED
      BY <2>1, <2>2
  <1>1. CASE TypeLoady \/ TakeOffer \/ Asked \/ Acked
    BY <1>0, <1>1 DEF TypeLoady, TakeOffer, Asked, Acked, SendBlock, Sending, uboot
  <1>2. CASE Resend \/ NotAcknowledged \/ Skip \/ Cancelled \/ Eot \/ Escape \/ EscapeStd
    BY <1>0, <1>2
    DEF Resend, NotAcknowledged, Skip, Cancelled, Eot, Escape, EscapeStd, Sending, script, uboot
  <1>3. CASE TypeCrc \/ Sum \/ NoAnswer \/ Rerun \/ Look
    BY <1>0, <1>3 DEF TypeCrc, Sum, NoAnswer, Rerun, Look, Sending, uboot
  <1>4. CASE Prompt \/ Enter \/ Esc \/ Garbled \/ Eof
    BY <1>0, <1>4 DEF Prompt, Enter, Esc, Garbled, Eof, EndOfFile, Clear, Reads, script, uboot
  <1>5. CASE Open \/ Data
    BY <1>0, <1>0a, <1>5 DEF Open, Data, Clear, Reads, script
  <1>6. CASE UbTimeout \/ UbGivesUp \/ NoiseDown \/ NoiseUp \/ Cancel
    BY <1>0, <1>6 DEF UbTimeout, EndOfFile, UbGivesUp, NoiseDown, NoiseUp, Cancel, script, uboot
  <1>7. CASE GiveUp \/ ResetBoard \/ PowerCycle \/ \E b \in BOOLEAN : StartRun(b)
    BY <1>0, <1>7 DEF GiveUp, ResetBoard, PowerCycle, StartRun, uboot
  <1> QED
    BY Steps, <1>1, <1>2, <1>3, <1>4, <1>5, <1>6, <1>7

LEMMA TypesStep == ASSUME Base, Next PROVE Types'
  <1>1. Types
    BY DEF Base
  <1>2. ram' \in Seq(1 .. Blocks) /\ Len(ram') <= Blocks
    BY RamTypes
  <1>3. \A i \in 1 .. Len(ram') : ram'[i] \in 1 .. Blocks
    BY <1>2, ElementOfSeq
  <1>4. TypeOK'
    BY <1>1, <1>2, <1>3, CounterTypes, StateTypes DEF TypeOK
  <1> QED
    BY <1>1, <1>2, <1>4, CounterTypes, LineTypes DEF Types, Frames

----------------------------------------------------------------------------
(***************************************************************************)
(* What is on the way to U-Boot.                                           *)
(***************************************************************************)
LEMMA Wider == ASSUME NEW S, NEW T, S \subseteq T, NEW s \in Seq(S) PROVE s \in Seq(T)
  OBVIOUS

Block(n, r) == {"block"} \X (0 .. n) \X {r}

\* Something is delivered, or the line is left alone.
LEMMA LineShorter == ASSUME Types, Line, Delivers \/ UNCHANGED down, UNCHANGED <<pc, rate, blk>>
                     PROVE  Line'
  <1>1. CASE UNCHANGED down
    BY <1>1 DEF Line, Typed
  <1>2. CASE Delivers
    <2>1. down # << >> /\ down' = Tail(down)
      BY <1>2 DEF Delivers
    <2>2. ASSUME NEW k, down \in {<< >>, Typed(k)}
          PROVE  down' = << >>
      BY <2>1, <2>2, Literals DEF Typed
    <2>3. ASSUME NEW k, NEW l, down \in {<< >>, Typed(k), Typed(l)}
          PROVE  down' = << >>
      BY <2>1, <2>3, Literals DEF Typed
    <2>4. ASSUME NEW S, down \in Seq(S)
          PROVE  down' \in Seq(S)
      BY <2>1, <2>4, OnTail
    <2>5. pc \in Prompts => down' \in {<< >>, Typed("cr")}
      <3>1. CASE down = <<Type("esc", rate), Type("cr", rate)>>
        BY <2>1, <3>1, Literals DEF Typed
      <3>2. CASE down = Typed("cr")
        BY <2>1, <3>2, Literals DEF Typed
      <3> QED
        BY <2>1, <3>1, <3>2 DEF Line
    <2>6. pc \in {"ack", "data C", "EOT", "failed"} => down' \in Seq(Block(blk, rate))
      BY <2>4 DEF Line, Block
    <2>7. pc \in {"offer", "C", "second EOT", "after", "sum"} => down' = << >>
      BY <2>2, <2>3 DEF Line
    <2>8. pc \notin {"idle", "ready", "look", "lost"}
      BY <2>1 DEF Line
    <2> QED
      BY <2>5, <2>6, <2>7, <2>8 DEF Line, Typed, Block, Prompts
  <1> QED
    BY <1>1, <1>2

\* A frame follows the ones before it.
LEMMA BlockSent ==
  ASSUME NEW n \in Nat, NEW m \in Nat, n <= m, NEW r, down \in Seq(Block(n, r)),
         down' = Append(down, <<"block", m, r>>)
  PROVE  down' \in Seq(Block(m, r))
  <1>1. Block(n, r) \subseteq Block(m, r) /\ <<"block", m, r>> \in Block(m, r)
    BY DEF Block
  <1>2. down \in Seq(Block(m, r))
    BY <1>1, Wider
  <1> QED
    BY <1>1, <1>2, OnAppend

LEMMA FirstSent == ASSUME NEW r, down \in Seq(Block(0, r)), NEW m \in {0, 1},
                          down' = Append(down, <<"block", m, r>>)
                   PROVE  down' \in Seq(Block(m, r))
  <1>1. 0 \in Nat /\ m \in Nat /\ 0 <= m
    OBVIOUS
  <1> QED
    BY <1>1, BlockSent

LEMMA AgainSent == ASSUME NEW n \in Nat, NEW r, down \in Seq(Block(n, r)), NEW m \in {n, n + 1},
                          down' = Append(down, <<"block", m, r>>)
                   PROVE  down' \in Seq(Block(m, r))
  <1>1. m \in Nat /\ n <= m
    OBVIOUS
  <1> QED
    BY <1>1, BlockSent

\* Where the script sends a frame, nothing else can be on the way.
LEMMA LineFree ==
  ASSUME Base
  PROVE  /\ pc \in {"idle", "ready", "look", "lost"} => down = << >>
         /\ pc \in {"offer", "C"} /\ up # << >> => down = << >>
         /\ pc \in Prompts /\ up # << >> /\ Head(up) = "=>" => down = << >>
         /\ pc = "sum" /\ up # << >> /\ Head(up) \in {"good", "bad"} => down = << >>
         /\ pc \in {"ack", "data C", "EOT", "failed"} => down \in Seq(Block(blk, rate))
         /\ blk \in Nat /\ blk \in 0 .. Blocks
  <1>1. up # << >> => Head(up) \in On(up)
    BY OnTail DEF Base, Types
  <1>2. blk \in 0 .. Blocks
    BY DEF Base, Types, TypeOK
  <1>3. blk \in Nat
    BY <1>2, LoadyAssumption
  <1>4. pc \in {"idle", "ready", "look", "lost"} => down = << >>
    BY DEF Base, Line
  <1>5. pc \in {"offer", "C"} /\ up # << >> => down = << >>
    BY DEF Base, Unread
  <1>6. pc \in Prompts /\ up # << >> /\ Head(up) = "=>" => down = << >>
    BY <1>1 DEF Base, Telling
  <1>7. pc = "sum" /\ up # << >> /\ Head(up) \in {"good", "bad"} => down = << >>
    BY <1>1 DEF Base, Telling
  <1>8. pc \in {"ack", "data C", "EOT", "failed"} => down \in Seq(Block(blk, rate))
    BY DEF Base, Line, Block
  <1> QED
    BY <1>2, <1>3, <1>4, <1>5, <1>6, <1>7, <1>8

\* Nothing on the way fits every state.
LEMMA NothingFits == down' = << >> => Line'
  <1>1. \A S : << >> \in Seq(S)
    OBVIOUS
  <1> QED
    BY <1>1 DEF Line

LEMMA LineStep == ASSUME Base, Next PROVE Line'
  <1> USE LineFree DEF Hears
  <1>0. Types /\ Line
    BY DEF Base
  <1>1. CASE TypeLoady
    <2>1. down = << >> /\ pc' = (IF fast THEN "offer" ELSE "C") /\ UNCHANGED rate
          /\ down' = Append(down, Type(IF fast THEN "loady fast" ELSE "loady", rate))
      BY <1>1 DEF TypeLoady, Send
    <2>2. down' = <<Type(IF fast THEN "loady fast" ELSE "loady", rate)>>
      BY <2>1, Literals
    <2> QED
      BY <2>1, <2>2 DEF Line, Typed, Prompts
  <1>2. CASE TakeOffer
    <2>1. down = << >> /\ pc' = "C" /\ rate' = Quick /\ down' = Append(down, Type("cr", Quick))
      BY <1>2 DEF TakeOffer, Send
    <2>2. down' = <<Type("cr", rate')>>
      BY <2>1, Literals
    <2> QED
      BY <2>1, <2>2 DEF Line, Typed, Prompts
  <1>3. CASE Asked
    <2>1. /\ pc' = "ack" /\ UNCHANGED rate
          /\ blk' = (IF pc = "data C" THEN 1 ELSE 0) /\ down' = Append(down, <<"block", blk', rate>>)
      BY <1>3 DEF Asked, SendBlock, Send, Frame
    <2>2. CASE pc = "data C"
      <3>1. blk = 0 /\ blk' = 1 /\ down \in Seq(Block(0, rate))
        BY <2>1, <2>2 DEF Base, Header
      <3>2. down' \in Seq(Block(1, rate))
        <4>1. down' = Append(down, <<"block", 1, rate>>)
          BY <2>1, <3>1
        <4> QED
          BY <3>1, <4>1, FirstSent
      <3> QED
        BY <2>1, <3>1, <3>2 DEF Line, Block, Prompts
    <2>3. CASE pc \in {"offer", "C"}
      <3>1. down = << >> /\ blk' = 0
        BY <1>3, <2>1, <2>3 DEF Asked
      <3>2. down \in Seq(Block(0, rate))
        BY <3>1
      <3>3. down' \in Seq(Block(0, rate))
        <4>1. down' = Append(down, <<"block", 0, rate>>)
          BY <2>1, <3>1
        <4> QED
          BY <3>2, <4>1, FirstSent
      <3> QED
        BY <2>1, <3>1, <3>3 DEF Line, Block, Prompts
    <2> QED
      BY <1>3, <2>2, <2>3 DEF Asked
  <1>4. CASE Acked
    <2>1. CASE blk \in 1 .. Blocks - 1 /\ UNCHANGED pc /\ SendBlock(blk + 1)
      <3>1. pc' = "ack" /\ UNCHANGED rate /\ blk' = blk + 1 /\ down' = Append(down, <<"block", blk + 1, rate>>)
        BY <1>4, <2>1 DEF Acked, SendBlock, Send, Frame
      <3>2. down \in Seq(Block(blk, rate))
        BY <1>4 DEF Acked
      <3>4. blk \in Nat
        OBVIOUS
      <3>3. down' \in Seq(Block(blk + 1, rate))
        BY <3>1, <3>2, <3>4, AgainSent
      <3> QED
        BY <3>1, <3>3 DEF Line, Block, Prompts
    <2>2. CASE pc' \in {"data C", "EOT"} /\ UNCHANGED <<blk, tries, down>>
      <3>1. UNCHANGED rate /\ down' \in Seq(Block(blk, rate))
        BY <1>4, <2>2 DEF Acked
      <3> QED
        BY <2>2, <3>1 DEF Line, Block, Prompts
    <2> QED
      BY <1>4, <2>1, <2>2 DEF Acked
  <1>5. CASE Resend
    <2>1. /\ pc = "ack" /\ UNCHANGED <<pc, rate, blk>> /\ down' = Append(down, <<"block", blk, rate>>)
      BY <1>5 DEF Resend, Again, Send, Frame
    <2>2. down' \in Seq(Block(blk, rate))
      <3>1. down \in Seq(Block(blk, rate)) /\ blk \in Nat
        BY <2>1
      <3> QED
        BY <2>1, <3>1, AgainSent
    <2> QED
      BY <2>1, <2>2 DEF Line, Block, Prompts
  <1>6. CASE NotAcknowledged \/ Cancelled \/ GiveUp
    <2>1. UNCHANGED <<rate, blk, down>> /\ pc' = "failed"
          /\ (pc \in {"ack", "data C"} \/ down = << >>)
      BY <1>6 DEF NotAcknowledged, Again, Cancelled, GiveUp
    <2>2. CASE down = << >>
      BY <2>1, <2>2, NothingFits
    <2>3. CASE pc \in {"ack", "data C"}
      <3>1. down' \in Seq(Block(blk, rate))
        BY <2>1, <2>3
      <3> QED
        BY <2>1, <3>1 DEF Line, Block, Prompts
    <2> QED
      BY <2>1, <2>2, <2>3
  <1>7. CASE Eot \/ TypeCrc
    <2>1. /\ down = << >> /\ UNCHANGED rate
          /\ \/ pc' \in {"second EOT", "after"} /\ down' = Append(down, Type("eot", rate))
             \/ pc' = "sum" /\ down' = Append(down, Type("crc", rate))
      BY <1>7 DEF Eot, TypeCrc, Send, Prompts
    <2>2. \/ pc' \in {"second EOT", "after"} /\ down' = <<Type("eot", rate)>>
          \/ pc' = "sum" /\ down' = <<Type("crc", rate)>>
      BY <2>1, Literals
    <2> QED
      BY <2>1, <2>2 DEF Line, Typed, Prompts
  <1>8. CASE Escape \/ EscapeStd
    <2>1. /\ down = << >> /\ pc' \in Prompts
          /\ down' = down \o <<Type("esc", rate'), Type("cr", rate')>>
      BY <1>8 DEF Escape, EscapeStd, EscAndPrompt, Quiet, Prompts
    <2>2. down' = <<Type("esc", rate'), Type("cr", rate')>>
      BY <2>1, Literals
    <2> QED
      BY <2>1, <2>2 DEF Line, Typed, Prompts
  <1>9. CASE Sum \/ NoAnswer \/ Rerun \/ Look \/ ResetBoard \/ PowerCycle
    <2>1. down' = << >>
      BY <1>9 DEF Sum, NoAnswer, Silence, Quiet, Rerun, Look, ResetBoard, PowerCycle
    <2> QED
      BY <2>1, NothingFits
  <1>10. CASE \E b \in BOOLEAN : StartRun(b)
    <2>1. down' = << >>
      BY <1>10 DEF StartRun
    <2> QED
      BY <2>1, NothingFits
  <1>11. CASE Prompt \/ Enter \/ Open \/ Data \/ Eof \/ Esc \/ Garbled
    <2>1. Delivers /\ UNCHANGED <<pc, rate, blk>>
      BY <1>11 DEF Prompt, Enter, Open, Data, Eof, Esc, Garbled, Clear, Reads, Delivers, script
    <2> QED
      BY <1>0, <2>1, LineShorter
  <1>12. CASE UbTimeout \/ UbGivesUp \/ NoiseUp \/ NoiseDown \/ Cancel \/ Skip
    <2>1. (Delivers \/ UNCHANGED down) /\ UNCHANGED <<pc, rate, blk>>
      BY <1>12 DEF UbTimeout, UbGivesUp, NoiseUp, NoiseDown, Cancel, Skip, Delivers, script
    <2> QED
      BY <1>0, <2>1, LineShorter
  <1> QED
    BY Steps, <1>1, <1>2, <1>3, <1>4, <1>5, <1>6, <1>7, <1>8, <1>9, <1>10, <1>11, <1>12

\* What U-Boot can be about to read, and what that leaves on the line.
LEMMA GotIs ==
  ASSUME Base, Delivers
  PROVE  /\ pc \notin {"idle", "ready", "look", "lost"}
         /\ pc = "offer" => Got = Type("loady fast", rate) /\ down' = << >>
         /\ pc = "C" => /\ Got \in {Type("loady", rate), Type("cr", rate)} /\ down' = << >>
                        /\ down = <<Got>>
         /\ pc \in {"ack", "data C", "EOT", "failed"} =>
              Got[1] = "block" /\ Got[2] \in 0 .. blk /\ Got[3] = rate
         /\ pc \in {"second EOT", "after"} => Got = Type("eot", rate) /\ down' = << >>
         /\ pc \in Prompts => \/ Got = Type("cr", rate) /\ down = Typed("cr") /\ down' = << >>
                              \/ Got = Type("esc", rate) /\ down' = Typed("cr")
                                 /\ down = <<Type("esc", rate), Type("cr", rate)>>
         /\ pc = "sum" => Got = Type("crc", rate) /\ down' = << >>
  <1>0. down # << >> /\ down' = Tail(down) /\ Got = Head(down) /\ Line
    BY DEF Delivers, Got, Base
  <1>1. ASSUME NEW f, down = <<f>>
        PROVE  Got = f /\ down' = << >>
    BY <1>0, <1>1, Literals
  <1>2. ASSUME NEW f, NEW g, down = <<f, g>>
        PROVE  Got = f /\ down' = <<g>>
    BY <1>0, <1>2, Literals
  <1>3. pc \notin {"idle", "ready", "look", "lost"}
    BY <1>0 DEF Line
  <1>4. pc = "offer" => Got = Type("loady fast", rate) /\ down' = << >>
    BY <1>0, <1>1 DEF Line, Typed
  <1>5. pc = "C" => /\ Got \in {Type("loady", rate), Type("cr", rate)} /\ down' = << >>
                    /\ down = <<Got>>
    BY <1>0, <1>1 DEF Line, Typed
  <1>6. pc \in {"second EOT", "after"} => Got = Type("eot", rate) /\ down' = << >>
    BY <1>0, <1>1 DEF Line, Typed
  <1>7. pc = "sum" => Got = Type("crc", rate) /\ down' = << >>
    BY <1>0, <1>1 DEF Line, Typed
  <1>8. pc \in Prompts => \/ Got = Type("cr", rate) /\ down = Typed("cr") /\ down' = << >>
                          \/ Got = Type("esc", rate) /\ down' = Typed("cr")
                             /\ down = <<Type("esc", rate), Type("cr", rate)>>
    BY <1>0, <1>1, <1>2 DEF Line, Typed
  <1>9. pc \in {"ack", "data C", "EOT", "failed"} => Got \in Block(blk, rate)
    <2>1. ASSUME NEW S, down \in Seq(S) PROVE Got \in S
      BY <1>0, <2>1, OnTail
    <2> QED
      BY <1>0, <2>1 DEF Line, Block
  <1>10. pc \in {"ack", "data C", "EOT", "failed"} =>
           Got[1] = "block" /\ Got[2] \in 0 .. blk /\ Got[3] = rate
    BY <1>9 DEF Block
  <1> QED
    BY <1>3, <1>4, <1>5, <1>6, <1>7, <1>8, <1>10

\* The parts of what the script types.
LEMMA TypeParts == \A k, r : Type(k, r)[1] = k /\ Type(k, r)[2] = 0 /\ Type(k, r)[3] = r
  BY DEF Type

\* Whatever U-Boot reads was sent at the rate the script has now.
LEMMA GotRate == ASSUME Base, Delivers PROVE Got[3] = rate
  <1>1. pc \in Sending \cup {"idle", "ready", "failed", "look", "lost"}
    BY DEF Base, Types, TypeOK
  <1>2. CASE pc \in {"ack", "data C", "EOT", "failed"}
    BY <1>2, GotIs
  <1>3. CASE pc \in {"offer", "C", "second EOT", "after", "sum"} \cup Prompts
    <2>1. \E k : Got = Type(k, rate)
      BY <1>3, GotIs DEF Prompts
    <2> QED
      BY <2>1, TypeParts
  <1> QED
    BY <1>1, <1>2, <1>3, GotIs DEF Sending, Prompts

----------------------------------------------------------------------------
\* Blocks arrive in the order of their numbers.
LEMMA SortedSend ==
  ASSUME Types, Sorted, NEW f \in Frames, Send(f), \A g \in On(down) : g[2] <= f[2]
  PROVE  Sorted'
  <1>1. down \in Seq(Frames)
    BY DEF Types, Frames
  <1>2. /\ Len(down) \in Nat /\ Len(down') = Len(down) + 1
        /\ \A i \in 1 .. Len(down) : down'[i] = down[i]
        /\ down'[Len(down) + 1] = f
    BY <1>1, OnAppend DEF Send
  <1>3. \A i \in 1 .. Len(down) : down[i][2] <= f[2]
    BY DEF On
  <1> SUFFICES ASSUME NEW i \in 1 .. Len(down'), NEW j \in 1 .. Len(down'), i < j
               PROVE  down'[i][2] <= down'[j][2]
    BY DEF Sorted
  <1>4. i \in 1 .. Len(down) /\ (j \in 1 .. Len(down) \/ j = Len(down) + 1)
    BY <1>2
  <1> QED
    BY <1>2, <1>3, <1>4 DEF Sorted

LEMMA SortedTail == ASSUME Types, Sorted, Delivers
                    PROVE  Sorted' /\ \A f \in On(down) : Got[2] <= f[2]
  <1>1. /\ Len(down) \in Nat \ {0} /\ Len(down') = Len(down) - 1
        /\ \A i \in 1 .. Len(down) - 1 : down'[i] = down[i + 1]
        /\ Got = down[1] /\ Got[2] \in 0 .. Blocks
    BY Delivered, FrameParts DEF Delivers
  <1>2. Sorted'
    <2> SUFFICES ASSUME NEW i \in 1 .. Len(down'), NEW j \in 1 .. Len(down'), i < j
                 PROVE  down'[i][2] <= down'[j][2]
      BY DEF Sorted
    <2>1. i + 1 \in 1 .. Len(down) /\ j + 1 \in 1 .. Len(down) /\ i + 1 < j + 1
      BY <1>1
    <2>2. down'[i] = down[i + 1] /\ down'[j] = down[j + 1]
      BY <1>1
    <2> QED
      BY <2>1, <2>2 DEF Sorted
  <1>3. ASSUME NEW i \in 1 .. Len(down) PROVE Got[2] <= down[i][2]
    <2>1. CASE i = 1
      BY <1>1, <2>1, LoadyAssumption
    <2>2. CASE i # 1
      <3>1. 1 \in 1 .. Len(down) /\ 1 < i
        BY <1>1, <2>2
      <3> QED
        BY <1>1, <3>1 DEF Sorted
    <2> QED
      BY <2>1, <2>2
  <1>4. \A f \in On(down) : Got[2] <= f[2]
    BY <1>3 DEF On
  <1> QED
    BY <1>2, <1>4

LEMMA SortedStep == ASSUME Base, Next PROVE Sorted'
  <1>0. Types /\ Sorted
    BY DEF Base
  <1>1. ASSUME NEW f \in Frames, Send(f), down = << >>
        PROVE  Sorted'
    <2>1. \A g \in On(down) : g[2] <= f[2]
      BY <1>1, OnEmpty
    <2> QED
      BY <1>0, <1>1, <2>1, SortedSend
  <1>2. ASSUME down \in Seq(Block(blk, rate)), NEW b \in 0 .. Blocks, blk <= b, Send(Frame(b))
        PROVE  Sorted'
    <2>1. \A g \in On(down) : g[2] \in 0 .. blk
      <3>1. \A i \in 1 .. Len(down) : down[i] \in Block(blk, rate)
        BY <1>2, ElementOfSeq
      <3>2. \A g \in Block(blk, rate) : g[2] \in 0 .. blk
        BY DEF Block
      <3> QED
        BY <3>1, <3>2 DEF On
    <2>2. blk \in Nat /\ Frame(b) \in Frames /\ Frame(b)[2] = b
      BY <1>0, <1>2, LineFree, IsFrame DEF Frame
    <2>3. \A g \in On(down) : g[2] <= Frame(b)[2]
      BY <1>2, <2>1, <2>2
    <2> QED
      BY <1>0, <1>2, <2>2, <2>3, SortedSend
  <1>3. CASE TypeLoady \/ TakeOffer \/ Eot \/ TypeCrc
    <2>1. \E k \in Kinds, r \in {Std, Quick} : Send(Type(k, r))
      BY <1>0, <1>3 DEF TypeLoady, TakeOffer, Eot, TypeCrc, Kinds, Types, TypeOK
    <2>2. down = << >>
      BY <1>3, LineFree DEF TypeLoady, TakeOffer, Eot, TypeCrc, Hears, Prompts
    <2> QED
      BY <1>0, <1>1, <2>1, <2>2, IsFrame
  <1>4. CASE Escape \/ EscapeStd
    <2>1. down = << >> /\ down' = down \o <<Type("esc", rate'), Type("cr", rate')>>
      BY <1>4 DEF Escape, EscapeStd, EscAndPrompt, Quiet
    <2> DEFINE e == Type("esc", rate')  c == Type("cr", rate')
    <2>2. down' = <<e, c>>
      BY <2>1, Literals
    <2>3. e[2] = 0 /\ c[2] = 0
      BY TypeParts
    <2> HIDE DEF e, c
    <2>4. Len(down') = 2 /\ down'[1] = e /\ down'[2] = c
      BY <2>2
    <2> QED
      BY <2>3, <2>4 DEF Sorted
  <1>5. CASE Asked
    <2>1. pc \in {"offer", "C"} => down = << >> /\ Send(Frame(0))
      BY <1>5, LineFree DEF Asked, Hears, SendBlock
    <2>2. pc = "data C" => down \in Seq(Block(blk, rate)) /\ blk = 0 /\ Send(Frame(1))
      BY <1>5, LineFree DEF Asked, SendBlock, Base, Header
    <2>3. 0 \in 0 .. Blocks /\ 1 \in 0 .. Blocks /\ 0 <= 1
      BY LoadyAssumption
    <2> QED
      BY <1>0, <1>1, <1>2, <1>5, <2>1, <2>2, <2>3, IsFrame DEF Asked
  <1>6. CASE Acked \/ Resend
    <2>1. pc = "ack"
      BY <1>6 DEF Acked, Resend, Again
    <2>2. UNCHANGED down \/ (blk \in 1 .. Blocks - 1 /\ Send(Frame(blk + 1))) \/ Send(Frame(blk))
      BY <1>6 DEF Acked, Resend, SendBlock
    <2>3. down \in Seq(Block(blk, rate)) /\ blk \in 0 .. Blocks
      BY <2>1, LineFree
    <2>4. CASE blk \in 1 .. Blocks - 1 /\ Send(Frame(blk + 1))
      <3>1. blk + 1 \in 0 .. Blocks /\ blk <= blk + 1
        BY <2>4, LoadyAssumption
      <3> QED
        BY <1>2, <2>3, <2>4, <3>1
    <2>5. CASE Send(Frame(blk))
      <3>1. blk <= blk
        BY <2>3, LoadyAssumption
      <3> QED
        BY <1>2, <2>3, <2>5, <3>1
    <2> QED
      BY <1>0, <2>2, <2>4, <2>5 DEF Sorted
  <1>7. CASE Delivers \/ UNCHANGED down
    BY <1>0, <1>7, SortedTail DEF Sorted
  <1>8. CASE NotAcknowledged \/ Skip \/ Cancelled \/ Sum \/ NoAnswer \/ Rerun \/ Look
    BY <1>7, <1>8 DEF NotAcknowledged, Skip, Cancelled, Sum, NoAnswer, Rerun, Look
  <1>9. CASE Prompt \/ Enter \/ Open \/ Data \/ Eof \/ Esc \/ Garbled
    BY <1>7, <1>9 DEF Prompt, Enter, Open, Data, Eof, Esc, Garbled, Clear, Reads, Delivers
  <1>10. CASE UbTimeout \/ UbGivesUp \/ NoiseUp \/ Cancel \/ GiveUp \/ NoiseDown
    BY <1>7, <1>10 DEF UbTimeout, UbGivesUp, NoiseUp, Cancel, GiveUp, NoiseDown, Delivers
  <1>11. CASE ResetBoard \/ PowerCycle \/ \E b \in BOOLEAN : StartRun(b)
    BY <1>7, <1>11 DEF ResetBoard, PowerCycle, StartRun
  <1> QED
    BY Steps, <1>3, <1>4, <1>5, <1>6, <1>8, <1>9, <1>10, <1>11

----------------------------------------------------------------------------
(***************************************************************************)
(* What the bytes on the line say of U-Boot.                               *)
(***************************************************************************)
\* U-Boot speaks only of itself: how each of its bytes can come to be on the line.
LEMMA HeardOn == ASSUME Types, up # << >> PROVE Head(up) \in On(up)
  BY OnTail DEF Types

LEMMA OnConsumed == ASSUME Types, Consumes PROVE On(up') \subseteq On(up)
  BY Takes DEF Consumes

LEMMA TypedApart == ASSUME NEW k, NEW l, k # l
                    PROVE  Type(k, rate) # Type(l, rate) /\ Typed(k) # Typed(l)
  <1>1. Type(k, rate) # Type(l, rate)
    BY TypeParts
  <1>2. \A a, b : <<a>> = <<b>> => a = b
    OBVIOUS
  <1> QED
    BY <1>1, <1>2 DEF Typed

\* Only ACK, C, ESC and CAN are said unasked or in answer to a block or an EOT.
LEMMA SaidByTransfer ==
  ASSUME Types, Enter \/ Open \/ Data \/ Eof \/ Esc \/ Garbled \/ UbTimeout \/ Cancel
  PROVE  On(up') \subseteq On(up) \cup {"ACK", "C", "ESC", "CAN"}
  <1> DEFINE B == {"ACK", "C", "ESC", "CAN"}
  <1>1. \/ UNCHANGED up \/ (\E a \in B : Says(<<a>>)) \/ (\E a, b \in B : Says(<<a, b>>))
    <2>1. CASE Enter \/ Open \/ Data
      BY <2>1 DEF Enter, Open, Data
    <2>2. CASE Eof \/ UbTimeout
      BY <2>2 DEF Eof, UbTimeout, EndOfFile, uboot
    <2>3. CASE Esc \/ Garbled \/ Cancel
      BY <2>3 DEF Esc, Garbled, Cancel, uboot
    <2> QED
      BY <2>1, <2>2, <2>3
  <1>2. B \subseteq Bytes
    BY DEF Bytes
  <1>3. ASSUME NEW a \in B, Says(<<a>>) PROVE On(up') \subseteq On(up) \cup B
    BY <1>2, <1>3, SaysOne
  <1>4. ASSUME NEW a \in B, NEW b \in B, Says(<<a, b>>) PROVE On(up') \subseteq On(up) \cup B
    BY <1>2, <1>4, SaysTwo
  <1> QED
    BY <1>1, <1>3, <1>4

\* The script's own steps never add to what U-Boot has said.
LEMMA ScriptHears ==
  ASSUME Types, Script \/ GiveUp \/ NoiseUp \/ NoiseDown \/ UbGivesUp \/ ResetBoard \/ PowerCycle
                \/ \E b \in BOOLEAN : StartRun(b)
  PROVE  On(up') \subseteq On(up)
  <1>1. Flushes \/ Consumes \/ UNCHANGED up
    <2> USE DEF Flushes, Consumes, script, uboot, budget
    <2>1. CASE TypeLoady \/ TakeOffer \/ Eot \/ Escape \/ TypeCrc \/ Rerun
      BY <2>1 DEF TypeLoady, TakeOffer, Eot, Escape, TypeCrc, Rerun
    <2>2. CASE Asked \/ Acked \/ Skip \/ Cancelled \/ Sum \/ NoiseUp
      BY <2>2 DEF Asked, Hears, Acked, Skip, Cancelled, Sum, NoiseUp
    <2>3. CASE Resend \/ NotAcknowledged
      BY <2>3 DEF Resend, NotAcknowledged, Again, AgainAnswered
    <2>4. CASE EscapeStd \/ NoAnswer \/ Look \/ UbGivesUp
      BY <2>4 DEF EscapeStd, NoAnswer, Look, UbGivesUp
    <2>5. CASE NoiseDown \/ GiveUp \/ ResetBoard \/ PowerCycle \/ \E b \in BOOLEAN : StartRun(b)
      BY <2>5 DEF NoiseDown, GiveUp, ResetBoard, PowerCycle, StartRun
    <2> QED
      BY <2>1, <2>2, <2>3, <2>4, <2>5 DEF Script
  <1> QED
    BY <1>1, OnEmpty, OnConsumed DEF Flushes

LEMMA UnreadStep == ASSUME Base, Next PROVE Unread'
  <1>0. Types /\ Line /\ Unread /\ Ready
    BY DEF Base
  <1>1. CASE TypeLoady
    <2>1. /\ down = << >> /\ ub = "prompt" /\ ubRate = rate /\ UNCHANGED <<rate, ub, ubRate>> /\ up' = << >>
          /\ down' = Append(down, Type(IF fast THEN "loady fast" ELSE "loady", rate))
      BY <1>0, <1>1, LineFree DEF TypeLoady, Send, Ready, uboot
    <2>2. down' = Typed(IF fast THEN "loady fast" ELSE "loady")
      BY <2>1, Literals DEF Typed
    <2>3. down' # Typed("cr")
      BY <2>2, TypedApart
    <2> QED
      BY <2>1, <2>3 DEF Unread, Typed
  <1>2. CASE TakeOffer
    <2>1. /\ pc = "offer" /\ up # << >> /\ Head(up) = "ENTER" /\ UNCHANGED <<ub, ubRate>> /\ rate' = Quick
          /\ up' = << >> /\ down' = Append(down, Type("cr", Quick))
      BY <1>2 DEF TakeOffer, Hears, Send, uboot
    <2>2. down = << >> /\ ub = "enter" /\ ubRate = Quick
      BY <1>0, <2>1, HeardOn DEF Base, Telling
    <2>3. down' = Typed("cr")'
      BY <2>1, <2>2, Literals DEF Typed
    <2> QED
      BY <2>1, <2>2, <2>3 DEF Unread
  <1>3. CASE pc' \notin {"offer", "C"} \/ down' = << >>
    BY <1>3 DEF Unread
  <1>4. CASE Asked \/ Acked \/ Resend \/ NotAcknowledged \/ Cancelled \/ Eot \/ Escape \/ EscapeStd
    BY <1>3, <1>4 DEF Asked, Acked, Resend, NotAcknowledged, Again, Cancelled, Eot, Escape, EscapeStd
  <1>5. CASE TypeCrc \/ Sum \/ NoAnswer \/ Rerun \/ Look \/ GiveUp \/ ResetBoard \/ PowerCycle
    BY <1>3, <1>5
    DEF TypeCrc, Sum, NoAnswer, Silence, Quiet, Rerun, Look, GiveUp, ResetBoard, PowerCycle
  <1>6. CASE \E b \in BOOLEAN : StartRun(b)
    BY <1>3, <1>6 DEF StartRun
  <1>7. CASE Skip \/ NoiseUp
    <2>1. UNCHANGED <<pc, down>> /\ up # << >>
      BY <1>7 DEF Skip, NoiseUp, script
    <2> QED
      BY <1>3, <2>1, LineFree
  <1>8. CASE Prompt \/ Enter \/ Open \/ Data \/ Eof \/ Esc \/ Garbled \/ NoiseDown
    <2>1. Delivers /\ UNCHANGED pc
      BY <1>8 DEF Prompt, Enter, Open, Data, Eof, Esc, Garbled, NoiseDown, Clear, Reads, Delivers, script
    <2> QED
      BY <1>3, <2>1, GotIs
  <1>9. CASE UbTimeout \/ UbGivesUp
    <2>1. UNCHANGED <<pc, down>> /\ down = << >>
      BY <1>9 DEF UbTimeout, UbGivesUp, script
    <2> QED
      BY <1>3, <2>1
  <1>10. CASE Cancel
    <2>1. UNCHANGED <<pc, down>> /\ ub \in {"open", "data"}
      BY <1>10 DEF Cancel, script
    <2>2. pc \in {"offer", "C"} => down = << >>
      BY <1>0, <2>1 DEF Unread
    <2> QED
      BY <1>3, <2>1, <2>2
  <1> QED
    BY Steps, <1>1, <1>2, <1>4, <1>5, <1>6, <1>7, <1>8, <1>9, <1>10

\* U-Boot's prompt, branch by branch.
LEMMA PromptDoes ==
  ASSUME Base, Prompt
  PROVE  /\ ub = "prompt" /\ Delivers /\ ubRate = rate /\ UNCHANGED <<script, budget, mishap>>
         /\ Got[1] = "loady fast" /\ ubRate # Quick =>
              /\ ub' = "enter" /\ ubRate' = Quick /\ back' = TRUE /\ ram' = << >> /\ Says(<<"ENTER">>)
         /\ Got[1] = "loady" \/ (Got[1] = "loady fast" /\ ubRate = Quick) =>
              /\ ub' = "open" /\ back' = FALSE /\ UNCHANGED ubRate /\ ram' = << >> /\ Says(<<"C">>)
         /\ Got[1] = "crc" => Says(<<IF ram = Full THEN "good" ELSE "bad">>) /\ UNCHANGED uboot
         /\ Got[1] = "cr" => Says(<<"=>">>) /\ UNCHANGED uboot
         /\ Got[1] \notin {"loady fast", "loady", "crc", "cr"} => UNCHANGED <<uboot, up>>
  <1>1. ub = "prompt" /\ Delivers /\ Got[3] = ubRate /\ UNCHANGED <<script, budget, mishap>>
    BY DEF Prompt, Clear, Reads, Delivers
  <1>2. ubRate = rate
    BY <1>1, GotRate
  <1>3. Got[1] = "loady fast" /\ ubRate # Quick =>
          ub' = "enter" /\ ubRate' = Quick /\ back' = TRUE /\ ram' = << >> /\ Says(<<"ENTER">>)
    BY DEF Prompt
  <1>4. Got[1] = "loady" \/ (Got[1] = "loady fast" /\ ubRate = Quick) =>
          ub' = "open" /\ back' = FALSE /\ UNCHANGED ubRate /\ ram' = << >> /\ Says(<<"C">>)
    BY DEF Prompt
  <1>5. Got[1] = "crc" => Says(<<IF ram = Full THEN "good" ELSE "bad">>) /\ UNCHANGED uboot
    BY DEF Prompt, Full
  <1>6. Got[1] = "cr" => Says(<<"=>">>) /\ UNCHANGED uboot
    BY DEF Prompt
  <1>7. Got[1] \notin {"loady fast", "loady", "crc", "cr"} => UNCHANGED <<uboot, up>>
    BY DEF Prompt
  <1> QED
    BY <1>1, <1>2, <1>3, <1>4, <1>5, <1>6, <1>7

\* With nothing to read and no transfer open, U-Boot does not move.
LEMMA Idle == ASSUME down = << >>, ub \in {"prompt", "enter", "esc"},
                     UBoot \/ UbTimeout \/ UbGivesUp \/ NoiseDown \/ Cancel
              PROVE  FALSE
  BY DEF UBoot, Prompt, Enter, Open, Data, Eof, Esc, Garbled, Clear, Reads, UbTimeout, UbGivesUp,
         NoiseDown, Cancel

\* What the script does between its own decisions.
LEMMA Aside == ASSUME Skip \/ NoiseUp
               PROVE  UNCHANGED <<script, down, uboot, mishap>> /\ Consumes
  BY DEF Skip, NoiseUp, Consumes

\* Only the script moves the script on.
LEMMA Apart == ASSUME UBoot \/ UbTimeout \/ UbGivesUp \/ NoiseDown \/ Cancel
               PROVE  UNCHANGED script
  <1>1. CASE UBoot
    BY <1>1 DEF UBoot, Prompt, Enter, Open, Data, Eof, Esc, Garbled, Clear, Reads
  <1> QED
    BY <1>1 DEF UbTimeout, UbGivesUp, NoiseDown, Cancel

LEMMA TellingStep == ASSUME Base, Next PROVE Telling'
  <1>0. Types /\ Telling /\ Ready
    BY DEF Base
  <1>1. CASE up' = << >> \/ pc' \notin {"offer", "sum"} \cup Prompts
    BY <1>1, OnEmpty DEF Telling
  <1>2. CASE TypeLoady \/ TakeOffer \/ Asked \/ Acked \/ Resend \/ NotAcknowledged \/ Cancelled \/ Eot
    BY <1>1, <1>2
    DEF TypeLoady, TakeOffer, Asked, Acked, Resend, NotAcknowledged, Again, Cancelled, Eot, Prompts
  <1>3. CASE Escape \/ EscapeStd \/ TypeCrc \/ Sum \/ NoAnswer \/ Rerun \/ Look \/ GiveUp
    BY <1>1, <1>3 DEF Escape, EscapeStd, TypeCrc, Sum, NoAnswer, Silence, Quiet, Rerun, Look, GiveUp, Prompts
  <1>4. CASE ResetBoard \/ PowerCycle
    BY <1>1, <1>4 DEF ResetBoard, PowerCycle, Prompts
  <1>5. CASE \E b \in BOOLEAN : StartRun(b)
    BY <1>1, <1>5 DEF StartRun, Prompts
  <1>6. CASE Skip \/ NoiseUp
    <2>1. UNCHANGED <<pc, rate, down, ub, ubRate, ram>> /\ On(up') \subseteq On(up)
      BY <1>0, <1>6, Aside, OnConsumed DEF script, uboot
    <2> QED
      BY <1>0, <2>1 DEF Telling, Full
  <1>7. CASE UBoot \/ UbTimeout \/ UbGivesUp \/ NoiseDown \/ Cancel
    <2>1. UNCHANGED <<pc, rate>>
      BY <1>7, Apart DEF script
    <2>2. /\ pc = "offer" => "ENTER" \notin On(up)
          /\ pc \in Prompts => "=>" \notin On(up)
          /\ pc = "sum" => On(up) \cap {"good", "bad"} = {}
      BY <1>0, <1>7, Idle DEF Telling
    <2>3. CASE On(up') \subseteq On(up) \cup {"ACK", "C", "ESC", "CAN"}
      BY <2>1, <2>2, <2>3 DEF Telling
    <2>4. CASE Prompt
      <3>1. /\ ub = "prompt" /\ Delivers /\ ubRate = rate
        BY <2>4, PromptDoes
      <3>2. CASE pc = "offer"
        <4>1. Got[1] = "loady fast" /\ down' = << >>
          BY <3>1, <3>2, GotIs, TypeParts
        <4>2. CASE ubRate = Quick
          <5>1. On(up') = On(up) \cup {"C"}
            BY <1>0, <2>4, <4>1, <4>2, PromptDoes, SaysOne DEF Bytes
          <5> QED
            BY <2>3, <5>1
        <4>3. CASE ubRate # Quick
          BY <2>1, <2>4, <3>2, <4>1, <4>3, PromptDoes DEF Telling, Prompts
        <4> QED
          BY <4>2, <4>3
      <3>3. CASE pc \in Prompts
        <4>1. (Got = Type("cr", rate) /\ down' = << >>) \/ Got = Type("esc", rate)
          BY <3>1, <3>3, GotIs
        <4>2. CASE Got = Type("esc", rate)
          <5>1. Got[1] = "esc"
            BY <4>2, TypeParts
          <5>2. UNCHANGED up
            BY <2>4, <5>1, PromptDoes
          <5> QED
            BY <2>3, <5>2
        <4>3. CASE Got = Type("cr", rate) /\ down' = << >>
          <5>1. Got[1] = "cr"
            BY <4>3, TypeParts
          <5>2. UNCHANGED uboot
            BY <2>4, <5>1, PromptDoes
          <5> QED
            BY <2>1, <3>1, <3>3, <4>3, <5>2 DEF Telling, Prompts, uboot
        <4> QED
          BY <4>1, <4>2, <4>3
      <3>4. CASE pc = "sum"
        <4>1. Got = Type("crc", rate) /\ down' = << >>
          BY <3>1, <3>4, GotIs
        <4>2. Got[1] = "crc"
          BY <4>1, TypeParts
        <4>3. Says(<<IF ram = Full THEN "good" ELSE "bad">>) /\ UNCHANGED uboot
          BY <2>4, <4>2, PromptDoes
        <4>4. On(up') = On(up) \cup {IF ram = Full THEN "good" ELSE "bad"}
          BY <1>0, <4>3, SaysOne DEF Bytes
        <4>5. "good" \in On(up') => ram = Full
          BY <2>2, <3>4, <4>4
        <4> QED
          BY <2>1, <3>1, <3>4, <4>1, <4>3, <4>5 DEF Telling, Prompts, uboot, Full
      <3> QED
        BY <1>1, <2>1, <3>2, <3>3, <3>4
    <2>5. CASE ~Prompt
      <3>1. CASE UbGivesUp \/ NoiseDown
        BY <1>0, <2>3, <3>1, ScriptHears
      <3>2. CASE UBoot \/ UbTimeout \/ Cancel
        BY <1>0, <2>3, <2>5, <3>2, SaidByTransfer DEF UBoot
      <3> QED
        BY <1>7, <3>1, <3>2
    <2> QED
      BY <2>4, <2>5
  <1> QED
    BY Steps, <1>2, <1>3, <1>4, <1>5, <1>6, <1>7 DEF UBoot

LEMMA ReadyStep == ASSUME Base, Next PROVE Ready'
  <1>0. Types /\ Telling /\ Ready /\ Line
    BY DEF Base
  <1>1. CASE pc' \notin {"idle", "ready", "look", "lost"}
    BY <1>1 DEF Ready, Uploaded
  <1>2. CASE TypeLoady \/ TakeOffer \/ Asked \/ Acked \/ Resend \/ NotAcknowledged \/ Cancelled \/ Eot
    BY <1>1, <1>2 DEF TypeLoady, TakeOffer, Asked, Acked, Resend, NotAcknowledged, Again, Cancelled, Eot
  <1>3. CASE Escape \/ EscapeStd \/ TypeCrc \/ NoAnswer \/ GiveUp
    BY <1>1, <1>3 DEF Escape, EscapeStd, TypeCrc, NoAnswer, GiveUp
  <1>4. CASE Sum
    <2>1. CASE Head(up) = "good"
      <3>1. pc = "sum" /\ "good" \in On(up)
        BY <1>0, <1>4, <2>1, HeardOn DEF Sum
      <3>2. ub = "prompt" /\ ubRate = rate /\ ram = Full
        BY <1>0, <3>1 DEF Telling
      <3> QED
        BY <1>4, <2>1, <3>2 DEF Sum, SumMatches, Ready, uboot, Full
    <2>2. CASE Head(up) # "good"
      BY <1>1, <1>4, <2>2 DEF Sum, SumMatches
    <2> QED
      BY <2>1, <2>2
  <1>5. CASE Rerun
    BY <1>5 DEF Rerun, Ready, Uploaded
  <1>6. CASE Look
    BY <1>0, <1>6 DEF Look, PromptAnswers, Ready, Uploaded, uboot
  <1>7. CASE ResetBoard \/ PowerCycle
    BY <1>0, <1>7 DEF ResetBoard, PowerCycle, Ready, Uploaded
  <1>8. CASE \E b \in BOOLEAN : StartRun(b)
    <2>1. /\ pc = "idle" /\ pc' = "ready" /\ UNCHANGED <<rate, ub, ubRate>> /\ left' = Uploads
      BY <1>8 DEF StartRun, uboot
    <2>2. ~(left' < Uploads)
      BY <2>1, LoadyAssumption
    <2> QED
      BY <1>0, <2>1, <2>2 DEF Ready, Uploaded
  <1>9. CASE Skip \/ NoiseUp
    BY <1>0, <1>9, Aside DEF Ready, Uploaded, script, uboot, Full
  <1>10. CASE UBoot \/ UbTimeout \/ UbGivesUp \/ NoiseDown \/ Cancel
    <2>1. UNCHANGED <<pc, rate, left>>
      BY <1>10, Apart DEF script
    <2>2. pc \notin {"idle", "ready"}
      BY <1>0, <1>10, Idle DEF Ready, Line
    <2> QED
      BY <1>0, <2>1, <2>2 DEF Ready, Uploaded
  <1> QED
    BY Steps, <1>2, <1>3, <1>4, <1>5, <1>6, <1>7, <1>8, <1>9, <1>10 DEF UBoot

\* U-Boot's next block number while the header is being sent.
LEMMA HeaderKnown ==
  ASSUME Base, Data
  PROVE  /\ Got[1] = "block" /\ Got[2] = 0 => next = 1 /\ UNCHANGED <<ub, next, ram>> /\ Says(<<"ACK">>)
         /\ ub = "data" /\ Delivers /\ UNCHANGED <<script, budget, mishap, ubRate, back>>
  <1>1. ub = "data" /\ Delivers /\ UNCHANGED <<script, budget, mishap, ubRate, back>>
    BY DEF Data, Clear, Reads, Delivers
  <1>2. SeqNo(0) = 0 /\ 1 % SeqMod = 1 /\ (SeqNo(0) + 1) % SeqMod = (0 + 1) % SeqMod
    BY Numbering
  <1>3. SeqNo(0) # 1 /\ (SeqNo(0) + 1) % SeqMod = 1
    BY <1>2
  <1>4. CASE Got[1] = "block" /\ Got[2] = 0
    <2>1. Got \in On(down)
      BY <1>1, Delivered DEF Delivers, Base
    <2>2. next = 1
      BY <1>1, <1>4, <2>1 DEF Base, Header
    <2> QED
      BY <1>1, <1>3, <1>4, <2>2 DEF Data
  <1> QED
    BY <1>1, <1>4

\* A copy of the header, anywhere on the way to U-Boot.
Copy(line) == \E f \in On(line) : f[1] = "block" /\ f[2] = 0

LEMMA CopyShrinks == ASSUME Types, Delivers, Copy(down') PROVE Copy(down)
  <1>1. On(down') \subseteq On(down)
    BY Delivered DEF Delivers
  <1> QED
    BY <1>1 DEF Copy

LEMMA CopySent == ASSUME Types, NEW f \in Frames, Send(f), Copy(down')
                  PROVE  Copy(down) \/ (f[1] = "block" /\ f[2] = 0)
  <1>1. down \in Seq(Frames)
    BY DEF Types, Frames
  <1>2. On(down') = On(down) \cup {f}
    BY <1>1, OnAppend DEF Send
  <1> QED
    BY <1>2 DEF Copy

\* Nothing that is typed is a copy of the header.
LEMMA NoneTyped == ASSUME Types, NEW k \in Kinds \ {"block"}, NEW r \in {Std, Quick}, Send(Type(k, r)),
                          down = << >>
                   PROVE  ~Copy(down')
  <1>1. Type(k, r) \in Frames /\ Type(k, r)[1] # "block"
    BY IsFrame, TypeParts
  <1> QED
    BY <1>1, CopySent, OnEmpty DEF Copy

LEMMA HeaderStep == ASSUME Base, Next PROVE Header'
  <1>0. Types /\ Line /\ Ready /\ Header /\ Sorted
    BY DEF Base
  <1>a. Header <=> /\ pc \in {"offer", "C"} => ub \notin {"data", "eof"}
                   /\ pc = "data C" => blk = 0
                   /\ pc = "ack" /\ blk = 0 /\ ub = "data" => next = 1
                   /\ ub = "data" /\ Copy(down) => next = 1
    BY DEF Header, Copy
  <1>b. Header' <=> /\ pc' \in {"offer", "C"} => ub' \notin {"data", "eof"}
                    /\ pc' = "data C" => blk' = 0
                    /\ pc' = "ack" /\ blk' = 0 /\ ub' = "data" => next' = 1
                    /\ ub' = "data" /\ Copy(down') => next' = 1
    BY DEF Header, Copy
  <1>c. rate \in {Std, Quick} /\ blk \in 0 .. Blocks
    BY <1>0 DEF Types, TypeOK
  <1>1. CASE TypeLoady
    <2>1. ub' = "prompt" /\ pc' \in {"offer", "C"}
      BY <1>0, <1>1 DEF TypeLoady, Ready, uboot
    <2> QED
      BY <1>b, <2>1
  <1>2. CASE TakeOffer
    <2>1. pc = "offer" /\ pc' = "C" /\ UNCHANGED ub
      BY <1>2 DEF TakeOffer, uboot
    <2> QED
      BY <1>0, <1>a, <1>b, <2>1
  <1>3. CASE Asked
    <2>1. /\ pc' = "ack" /\ UNCHANGED <<ub, next>> /\ pc \in {"offer", "C", "data C"}
          /\ blk' = (IF pc = "data C" THEN 1 ELSE 0) /\ Send(Frame(blk'))
      BY <1>3 DEF Asked, SendBlock, uboot
    <2>2. CASE pc \in {"offer", "C"}
      BY <1>0, <1>a, <1>b, <2>1, <2>2
    <2>3. CASE pc = "data C"
      <3>1. blk' = 1 /\ Frame(1) \in Frames /\ Frame(1)[2] = 1 /\ Send(Frame(1))
        <4>1. 1 \in 0 .. Blocks
          BY LoadyAssumption
        <4> QED
          BY <1>0, <2>1, <2>3, <4>1, IsFrame DEF Frame
      <3>2. Copy(down') => Copy(down)
        BY <1>0, <3>1, CopySent
      <3>3. blk' = 1
        BY <2>1, <2>3
      <3>4. pc' = "ack" /\ blk' # 0 /\ UNCHANGED <<ub, next>>
        <4>1. pc' = "ack" /\ UNCHANGED <<ub, next>>
          BY <2>1
        <4> QED
          BY <3>3, <4>1
      <3> QED
        BY <1>0, <1>a, <1>b, <3>2, <3>4
    <2> QED
      BY <2>1, <2>2, <2>3
  <1>4. CASE Acked
    <2>1. pc = "ack" /\ UNCHANGED <<ub, next>>
      BY <1>4 DEF Acked, uboot
    <2>2. CASE pc' \in {"data C", "EOT"} /\ UNCHANGED <<blk, down>> /\ (pc' = "data C" => blk = 0)
      BY <1>0, <1>a, <1>b, <2>1, <2>2
    <2>3. CASE blk \in 1 .. Blocks - 1 /\ UNCHANGED pc /\ SendBlock(blk + 1)
      <3>1. blk + 1 # 0 /\ blk + 1 \in 0 .. Blocks
        BY <2>3, LoadyAssumption
      <3>2. blk' = blk + 1 /\ Frame(blk + 1) \in Frames /\ Frame(blk + 1)[2] = blk + 1 /\ Send(Frame(blk + 1))
        BY <1>0, <2>3, <3>1, IsFrame DEF Frame, SendBlock
      <3>3. Copy(down') => Copy(down)
        BY <1>0, <3>1, <3>2, CopySent
      <3>4. pc' = "ack" /\ blk' # 0 /\ UNCHANGED <<ub, next>>
        BY <2>1, <2>3, <3>1, <3>2
      <3> QED
        BY <1>0, <1>a, <1>b, <3>3, <3>4
    <2> QED
      BY <1>4, <2>2, <2>3 DEF Acked
  <1>5. CASE Resend
    <2>1. pc = "ack" /\ UNCHANGED <<pc, blk, ub, next>> /\ Send(Frame(blk))
      BY <1>5 DEF Resend, Again, uboot
    <2>2. Frame(blk) \in Frames /\ Frame(blk)[2] = blk
      BY <1>0, <1>c, IsFrame DEF Frame
    <2>3. Copy(down') => Copy(down) \/ blk = 0
      BY <1>0, <2>1, <2>2, CopySent
    <2> QED
      BY <1>0, <1>a, <1>b, <2>1, <2>3
  <1>6. CASE NotAcknowledged \/ Cancelled \/ GiveUp \/ Sum \/ Look
    <2>1. UNCHANGED <<ub, next, down>> /\ pc' \notin {"offer", "C", "data C", "ack"}
      BY <1>6 DEF NotAcknowledged, Cancelled, GiveUp, Sum, Look, uboot
    <2> QED
      BY <1>0, <1>a, <1>b, <2>1
  <1>7. CASE Eot \/ TypeCrc
    <2>1. UNCHANGED <<ub, next>> /\ pc' \notin {"offer", "C", "data C", "ack"} /\ down = << >>
      BY <1>7, LineFree DEF Eot, TypeCrc, uboot, Hears, Prompts
    <2>2. Send(Type("eot", rate)) \/ Send(Type("crc", rate))
      BY <1>7 DEF Eot, TypeCrc
    <2>3. ~Copy(down')
      BY <1>0, <1>c, <2>1, <2>2, NoneTyped DEF Kinds
    <2> QED
      BY <1>b, <2>1, <2>3
  <1>8. CASE Escape \/ EscapeStd
    <2>1. /\ pc' \notin {"offer", "C", "data C", "ack"} /\ down = << >>
          /\ down' = down \o <<Type("esc", rate'), Type("cr", rate')>>
      BY <1>8 DEF Escape, EscapeStd, EscAndPrompt, Quiet
    <2> DEFINE e == Type("esc", rate')  c == Type("cr", rate')
    <2>2. down' = <<e, c>>
      <3>1. down' = << >> \o <<e, c>>
        BY <2>1
      <3> HIDE DEF e, c
      <3> QED
        BY <3>1, Literals
    <2>3. e[1] = "esc" /\ c[1] = "cr"
      BY TypeParts
    <2> HIDE DEF e, c
    <2>4. On(down') = {e, c}
      BY <2>2, OnLiteral
    <2>5. ~Copy(down')
      BY <2>3, <2>4 DEF Copy
    <2> QED
      BY <1>b, <2>1, <2>5
  <1>9. CASE NoAnswer \/ Rerun
    <2>1. UNCHANGED <<ub, next, down>> /\ (pc' = "C" => pc = "offer") /\ pc' \in {"C", "failed", "look"}
      BY <1>9 DEF NoAnswer, Rerun, uboot
    <2> QED
      BY <1>0, <1>a, <1>b, <2>1
  <1>10. CASE ResetBoard \/ PowerCycle
    <2>1. ub' = "prompt" /\ pc' = "idle"
      BY <1>10 DEF ResetBoard, PowerCycle
    <2> QED
      BY <1>b, <2>1
  <1>11. CASE \E b \in BOOLEAN : StartRun(b)
    <2>1. UNCHANGED <<ub, next, down>> /\ pc' = "ready"
      BY <1>11 DEF StartRun, uboot
    <2> QED
      BY <1>0, <1>a, <1>b, <2>1
  <1>12. CASE Skip \/ NoiseUp
    <2>1. UNCHANGED <<pc, blk, ub, next, down>>
      BY <1>12, Aside DEF script, uboot
    <2> QED
      BY <1>0, <1>a, <1>b, <2>1
  <1>13. CASE Prompt \/ Enter \/ Eof \/ Esc
    <2>1. UNCHANGED <<pc, blk>> /\ ub' \notin {"data"} /\ (ub' = "eof" => ub = "eof")
      BY <1>13 DEF Prompt, Enter, Eof, EndOfFile, Esc, Clear, Reads, script, uboot
    <2> QED
      BY <1>0, <1>a, <1>b, <2>1
  <1>14. CASE Open
    <2>1. UNCHANGED <<pc, blk>> /\ ub = "open" /\ Delivers
          /\ ((Got[1] = "block" /\ ub' = "data" /\ next' = 1) \/ UNCHANGED <<ub, next>>)
      BY <1>14 DEF Open, Clear, Reads, Delivers, script
    <2>2. pc \in {"offer", "C"} => Got[1] # "block"
      <3>1. ASSUME pc \in {"offer", "C"}
            PROVE  \E k \in {"loady fast", "loady", "cr"} : Got = Type(k, rate)
        BY <2>1, <3>1, GotIs
      <3> QED
        BY <3>1, TypeParts
    <2> QED
      BY <1>0, <1>a, <1>b, <2>1, <2>2
  <1>15. CASE Data
    <2>1. ub = "data" /\ Delivers /\ UNCHANGED <<pc, blk>>
      BY <1>15, HeaderKnown DEF script
    <2>2. pc \notin {"offer", "C"}
      BY <1>0, <1>a, <2>1
    <2>3. CASE Got[1] = "block" /\ Got[2] = 0
      BY <1>15, <1>b, <2>1, <2>2, <2>3, <1>0, <1>a, HeaderKnown
    <2>4. CASE Got[1] = "block" /\ Got[2] # 0
      <3>1. Got[2] \in 0 .. Blocks
        BY <1>0, <2>1, Delivered, FrameParts DEF Delivers
      <3>2. ~Copy(down')
        <4>1. SUFFICES ASSUME Copy(down') PROVE FALSE
          OBVIOUS
        <4>2. Copy(down)
          BY <1>0, <2>1, <4>1, CopyShrinks
        <4>3. PICK f \in On(down) : f[2] = 0
          BY <4>2 DEF Copy
        <4>4. Got[2] <= 0
          BY <1>0, <2>1, <4>3, SortedTail
        <4> QED
          BY <2>4, <3>1, <4>4, LoadyAssumption
      <3>3. ~(pc = "ack" /\ blk = 0)
        <4>1. pc = "ack" => Got[2] \in 0 .. blk
          BY <2>1, GotIs
        <4>2. 0 .. 0 = {0}
          OBVIOUS
        <4> QED
          BY <2>4, <4>1, <4>2
      <3> QED
        BY <1>0, <1>a, <1>b, <2>1, <2>2, <3>2, <3>3
    <2>5. CASE Got[1] # "block"
      <3>1. UNCHANGED next \/ ub' = "eof"
        BY <1>15, <2>5 DEF Data
      <3>2. Copy(down') => Copy(down)
        BY <1>0, <2>1, CopyShrinks
      <3> QED
        BY <1>0, <1>a, <1>b, <2>1, <2>2, <3>1, <3>2
    <2> QED
      BY <2>3, <2>4, <2>5
  <1>16. CASE Garbled \/ NoiseDown
    <2>1. UNCHANGED <<pc, blk, ub, next>> /\ Delivers
      BY <1>16 DEF Garbled, NoiseDown, Reads, Delivers, script, uboot
    <2>2. Copy(down') => Copy(down)
      BY <1>0, <2>1, CopyShrinks
    <2> QED
      BY <1>0, <1>a, <1>b, <2>1, <2>2
  <1>17. CASE UbTimeout \/ UbGivesUp \/ Cancel
    <2>1. UNCHANGED <<pc, blk, down>> /\ (UNCHANGED <<ub, next>> \/ ub' \in {"esc", "prompt"})
      BY <1>17 DEF UbTimeout, EndOfFile, UbGivesUp, Cancel, script, uboot
    <2> QED
      BY <1>0, <1>a, <1>b, <2>1
  <1> QED
    BY Steps, <1>1, <1>2, <1>3, <1>4, <1>5, <1>6, <1>7, <1>8, <1>9, <1>10, <1>11, <1>12, <1>13, <1>14,
       <1>15, <1>16, <1>17

----------------------------------------------------------------------------
LEMMA BaseInit == Init => Base
  <1> SUFFICES ASSUME Init PROVE Base
    OBVIOUS
  <1>1. down = << >> /\ up = << >> /\ ram = << >> /\ pc = "idle" /\ left = 0
    BY DEF Init
  <1>2. blk \in 0 .. Blocks /\ tries \in 1 .. Tries /\ left \in 0 .. Uploads /\ next \in 0 .. SeqMod - 1
        /\ hits \in 0 .. MaxNoise /\ noise \in 0 .. MaxNoise /\ stalls \in 0 .. MaxStalls
        /\ hits + noise <= MaxNoise
    BY LoadyAssumption DEF Init
  <1>3. /\ pc \in Sending \cup {"idle", "ready", "failed", "look", "lost"}
        /\ {rate, ubRate} \subseteq {Std, Quick} /\ {fast, switched, back} \subseteq BOOLEAN
        /\ ub \in {"prompt", "enter", "open", "data", "eof", "esc"}
    BY DEF Init
  <1>4. Len(ram) <= Blocks /\ \A i \in 1 .. Len(ram) : ram[i] \in 1 .. Blocks
    BY <1>1, LoadyAssumption
  <1>5. Types
    <2>1. \A S : << >> \in Seq(S)
      OBVIOUS
    <2> QED
      BY <1>1, <1>2, <1>3, <1>4, <2>1 DEF Types, TypeOK
  <1>6. Line /\ Sorted
    BY <1>1 DEF Line, Sorted
  <1>7. Unread /\ Telling /\ Header
    BY <1>1, OnEmpty DEF Init, Unread, Telling, Header, Prompts
  <1>8. Ready
    BY DEF Init, Ready, Uploaded
  <1> QED
    BY <1>5, <1>6, <1>7, <1>8 DEF Base

LEMMA BaseStep == Base /\ [Next]_vars => Base'
  <1> SUFFICES ASSUME Base, [Next]_vars PROVE Base'
    OBVIOUS
  <1>1. CASE Next
    BY <1>1, TypesStep, LineStep, SortedStep, UnreadStep, TellingStep, ReadyStep, HeaderStep DEF Base
  <1>2. CASE UNCHANGED vars
    <2> USE <1>2 DEF Base, vars, script, uboot, budget
    <2>1. Types'
      BY DEF Types, TypeOK
    <2>2. Line' /\ Sorted' /\ Unread'
      BY DEF Line, Typed, Sorted, Unread
    <2>3. Telling' /\ Ready' /\ Header'
      BY DEF Telling, Ready, Uploaded, Header, Full
    <2> QED
      BY <2>1, <2>2, <2>3
  <1> QED
    BY <1>1, <1>2

LEMMA BaseInvariant == Spec => []Base
  BY BaseInit, BaseStep, PTL DEF Spec

(***************************************************************************)
(* Type correctness: block numbers, attempts and budgets stay in range and *)
(* what is in RAM are blocks of the file, never its header.                *)
(***************************************************************************)
THEOREM Typing == Spec => []TypeOK
  <1>1. Base => TypeOK
    BY DEF Base, Types
  <1> QED
    BY <1>1, BaseInvariant, PTL

(***************************************************************************)
(* ub_loady returns only with the file in RAM, at the prompt, at the rate  *)
(* U-Boot uses.                                                            *)
(***************************************************************************)
THEOREM ReturnsLoaded == Spec => []ReturnMeansLoaded
  <1>1. Base => ReturnMeansLoaded
    BY DEF Base, Ready, ReturnMeansLoaded, Uploaded, Full
  <1> QED
    BY <1>1, BaseInvariant, PTL

----------------------------------------------------------------------------
(***************************************************************************)
(* The exchange of blocks.  First the lines it is made of.                 *)
(***************************************************************************)
LEMMA One == \A a : Head(<<a>>) = a /\ Tail(<<a>>) = << >> /\ On(<<a>>) = {a}
  <1>1. ASSUME NEW a PROVE Head(<<a>>) = a /\ Tail(<<a>>) = << >>
    OBVIOUS
  <1>2. ASSUME NEW a PROVE On(<<a>>) = {a}
    BY DEF On
  <1> QED
    BY <1>1, <1>2

LEMMA Two == \A a, b : Head(<<a, b>>) = a /\ Tail(<<a, b>>) = <<b>> /\ On(<<a, b>>) = {a, b}
  <1>1. ASSUME NEW a, NEW b PROVE Head(<<a, b>>) = a /\ Tail(<<a, b>>) = <<b>>
    OBVIOUS
  <1>2. ASSUME NEW a, NEW b PROVE On(<<a, b>>) = {a, b}
    BY DEF On
  <1> QED
    BY <1>1, <1>2

LEMMA Three == \A a, b, c : /\ Head(<<a, b, c>>) = a /\ Tail(<<a, b, c>>) = <<b, c>>
                           /\ On(<<a, b, c>>) = {a, b, c}
  <1>1. ASSUME NEW a, NEW b, NEW c PROVE Head(<<a, b, c>>) = a /\ Tail(<<a, b, c>>) = <<b, c>>
    OBVIOUS
  <1>2. ASSUME NEW a, NEW b, NEW c PROVE On(<<a, b, c>>) = {a, b, c}
    BY DEF On
  <1> QED
    BY <1>1, <1>2

LEMMA Bare == On(<< >>) = {} /\ << >> \in Asking
  BY OnEmpty DEF Asking

LEMMA Asks ==
  ASSUME NEW s \in Asking, s # << >>
  PROVE  /\ Head(s) \in {"C", "CAN"} /\ Tail(s) \in {<< >>, <<"CAN">>}
         /\ On(s) = {Head(s)} \cup On(Tail(s))
         /\ "CAN" \notin On(s) => s = <<"C">> /\ Tail(s) = << >>
  <1>1. ASSUME NEW a \in {"C", "CAN"}, s = <<a>>
        PROVE  /\ Head(s) \in {"C", "CAN"} /\ Tail(s) \in {<< >>, <<"CAN">>}
               /\ On(s) = {Head(s)} \cup On(Tail(s))
               /\ "CAN" \notin On(s) => s = <<"C">> /\ Tail(s) = << >>
    <2>1. Head(s) = a /\ Tail(s) = << >> /\ On(s) = {a} /\ On(Tail(s)) = {}
      BY <1>1, One, OnEmpty
    <2> QED
      BY <1>1, <2>1
  <1>2. CASE s = <<"C", "CAN">>
    <2>1. /\ Head(s) = "C" /\ Tail(s) = <<"CAN">> /\ On(s) = {"C", "CAN"} /\ On(<<"CAN">>) = {"CAN"}
      BY <1>2, One, Two, Three
    <2> QED
      BY <2>1
  <1> QED
    BY <1>1, <1>2 DEF Asking

\* Which of the lines an ACK is on.
LEMMA WithAck ==
  /\ \A s \in Asking : "ACK" \notin On(s)
  /\ <<"ACK", "C">> \notin Answers /\ <<"ACK", "C", "CAN">> \notin Answers
  <1>1. \A s \in Asking : "ACK" \notin On(s)
    <2>1. On(<< >>) = {} /\ On(<<"C">>) = {"C"} /\ On(<<"CAN">>) = {"CAN"} /\ On(<<"C", "CAN">>) = {"C", "CAN"}
      BY One, Two, OnEmpty
    <2> QED
      BY <2>1 DEF Asking
  <1>2. /\ On(<<"ACK">>) = {"ACK"} /\ On(<<"ACK", "CAN">>) = {"ACK", "CAN"}
        /\ On(<<"ACK", "C">>) = {"ACK", "C"} /\ On(<<"ACK", "C", "CAN">>) = {"ACK", "C", "CAN"}
    BY One, Two, Three
  <1>3. \A s \in Answers : "ACK" \in On(s) => "C" \notin On(s)
    BY <1>1, <1>2 DEF Answers
  <1> QED
    BY <1>1, <1>2, <1>3

LEMMA AnswersTo ==
  ASSUME NEW s \in Answers0, s # << >>
  PROVE  /\ Head(s) \in {"ACK", "C", "CAN"} /\ Tail(s) \in Asking
         /\ On(s) = {Head(s)} \cup On(Tail(s)) /\ "ACK" \notin On(Tail(s))
         /\ Head(s) # "ACK" => s \in Asking
         /\ s \in Answers => Tail(s) \in {<< >>, <<"CAN">>}
  <1>1. CASE s \in Asking
    <2>1. /\ Head(s) \in {"C", "CAN"} /\ Tail(s) \in {<< >>, <<"CAN">>} /\ On(s) = {Head(s)} \cup On(Tail(s))
      BY <1>1, Asks
    <2>2. On(<<"CAN">>) = {"CAN"}
      BY One, Two, Three
    <2>3. "ACK" \notin On(Tail(s))
      <3>1. \A t \in {<< >>, <<"CAN">>} : "ACK" \notin On(t)
        BY <2>2, OnEmpty
      <3> QED
        BY <2>1, <3>1
    <2>4. Tail(s) \in Asking
      BY <2>1 DEF Asking
    <2> QED
      BY <1>1, <2>1, <2>3, <2>4
  <1>2. CASE s = <<"ACK">>
    <2>1. Head(s) = "ACK" /\ Tail(s) = << >> /\ On(s) = {"ACK"}
      BY <1>2, One, Two, Three
    <2> QED
      BY <2>1, Bare
  <1>3. ASSUME NEW a \in {"C", "CAN"}, s = <<"ACK", a>>
        PROVE  /\ Head(s) = "ACK" /\ Tail(s) = <<a>> /\ On(s) = {"ACK", a} /\ On(<<a>>) = {a}
    BY <1>3, One, Two, Three
  <1>4. CASE s = <<"ACK", "CAN">>
    <2>1. /\ Head(s) = "ACK" /\ Tail(s) = <<"CAN">> /\ On(s) = {"ACK", "CAN"} /\ On(<<"CAN">>) = {"CAN"}
      BY <1>3, <1>4
    <2> QED
      BY <2>1 DEF Asking
  <1>5. CASE s = <<"ACK", "C">>
    <2>1. /\ Head(s) = "ACK" /\ Tail(s) = <<"C">> /\ On(s) = {"ACK", "C"} /\ On(<<"C">>) = {"C"}
      BY <1>3, <1>5
    <2>2. s \notin Answers
      BY <1>5, WithAck
    <2> QED
      BY <2>1, <2>2 DEF Asking
  <1>6. CASE s = <<"ACK", "C", "CAN">>
    <2>1. /\ Head(s) = "ACK" /\ Tail(s) = <<"C", "CAN">> /\ On(s) = {"ACK", "C", "CAN"}
          /\ On(<<"C", "CAN">>) = {"C", "CAN"}
      BY <1>6, One, Two, Three
    <2>2. s \notin Answers
      BY <1>6, WithAck
    <2> QED
      BY <2>1, <2>2 DEF Asking
  <1> QED
    BY <1>1, <1>2, <1>4, <1>5, <1>6 DEF Answers, Answers0

\* A cancel ends what is on the line.
LEMMA CancelSaid ==
  ASSUME NEW s \in Answers0, "CAN" \notin On(s)
  PROVE  /\ Append(s, "CAN") \in Answers0
         /\ s \in Answers => Append(s, "CAN") \in Answers
         /\ s \in Asking => Append(s, "CAN") \in Asking
  <1>1. \A a, b : On(<<a, b>>) = {a, b}
    BY One, Two, Three
  <1>2. On(<<"CAN">>) = {"CAN"} /\ On(<<"ACK", "C", "CAN">>) = {"ACK", "C", "CAN"}
    BY One, Two, Three
  <1>3. s \in {<< >>, <<"C">>, <<"ACK">>, <<"ACK", "C">>}
    BY <1>1, <1>2 DEF Answers0, Answers, Asking
  <1>4. CASE s = << >>
    <2>1. Append(s, "CAN") = <<"CAN">>
      BY <1>4, Literals
    <2> QED
      BY <2>1 DEF Answers0, Answers, Asking
  <1>5. CASE s = <<"C">>
    <2>1. Append(s, "CAN") = <<"C", "CAN">>
      BY <1>5, AppendSecond
    <2> QED
      BY <2>1 DEF Answers0, Answers, Asking
  <1>7. On(<<"ACK">>) = {"ACK"} /\ On(<<"ACK", "C">>) = {"ACK", "C"} /\ On(<<"ACK", "CAN">>) = {"ACK", "CAN"}
    BY One, Two, Three
  <1>8. CASE s = <<"ACK">>
    <2>1. Append(s, "CAN") = <<"ACK", "CAN">>
      BY <1>8, AppendSecond
    <2>2. s \notin Asking
      BY <1>7, <1>8, WithAck
    <2> QED
      BY <2>1, <2>2 DEF Answers0, Answers
  <1>9. CASE s = <<"ACK", "C">>
    <2>1. Append(s, "CAN") = <<"ACK", "C", "CAN">>
      BY <1>9, AppendThird
    <2>2. On(s) = {"ACK", "C"} /\ s \notin Answers
      BY <1>7, <1>9, WithAck
    <2>3. s \notin Asking
      BY <2>2, WithAck
    <2> QED
      BY <2>1, <2>2, <2>3 DEF Answers0
  <1> QED
    BY <1>3, <1>4, <1>5, <1>8, <1>9

----------------------------------------------------------------------------
\* What has gone wrong is forgotten only where an upload begins.
LEMMA MishapStays == ASSUME Next PROVE TypeLoady \/ mishap \subseteq mishap'
  <1>1. CASE TakeOffer \/ Asked \/ Acked \/ Resend \/ NotAcknowledged \/ Skip \/ Cancelled \/ Eot
    BY <1>1 DEF TakeOffer, Asked, Acked, Resend, NotAcknowledged, Skip, Cancelled, Eot
  <1>2. CASE Escape \/ EscapeStd \/ TypeCrc \/ Sum \/ NoAnswer \/ Rerun \/ Look \/ GiveUp
    BY <1>2 DEF Escape, EscapeStd, TypeCrc, Sum, NoAnswer, Rerun, Look, GiveUp
  <1>3. CASE ResetBoard \/ PowerCycle \/ \E b \in BOOLEAN : StartRun(b)
    BY <1>3 DEF ResetBoard, PowerCycle, StartRun
  <1>4. CASE UBoot
    BY <1>4 DEF UBoot, Prompt, Enter, Open, Data, Eof, Esc, Garbled, Clear, Reads
  <1>5. CASE UbTimeout \/ UbGivesUp \/ NoiseDown \/ NoiseUp \/ Cancel
    BY <1>5 DEF UbTimeout, UbGivesUp, NoiseDown, NoiseUp, Cancel
  <1> QED
    BY Steps, <1>1, <1>2, <1>3, <1>4, <1>5 DEF UBoot

\* While the Mac keeps up, U-Boot asks only where nothing is on the line.
LEMMA AsksInTime ==
  ASSUME UbTimeout, "stall" \notin mishap'
  PROVE  /\ ub \in {"open", "data", "eof"} /\ down = << >> /\ up = << >>
         /\ ub # "eof" => up' = <<"C">> /\ UNCHANGED uboot
         /\ UNCHANGED <<script, down, mishap>>
  <1>1. ub \in {"open", "data", "eof"} /\ down = << >> /\ UNCHANGED <<script, down>>
    BY DEF UbTimeout
  <1>2. up = << >> /\ UNCHANGED mishap
    BY DEF UbTimeout
  <1>3. ub # "eof" => up' = up \o <<"C">> /\ UNCHANGED uboot
    BY DEF UbTimeout, Says
  <1>4. << >> \o <<"C">> = <<"C">>
    OBVIOUS
  <1> QED
    BY <1>1, <1>2, <1>3, <1>4

\* U-Boot leaves a transfer, and says so.
LEMMA CancelDoes ==
  ASSUME Types, Cancel
  PROVE  /\ ub \in {"open", "data"} /\ ub' \in {"esc", "prompt"} /\ mishap' = {"cancel"} /\ mishap = {}
         /\ up' = Append(up, "CAN") /\ On(up') = On(up) \cup {"CAN"}
         /\ UNCHANGED <<script, ubRate, back, next, ram, down>>
  <1>1. /\ ub \in {"open", "data"} /\ ub' \in {"esc", "prompt"} /\ mishap' = {"cancel"} /\ mishap = {}
        /\ Says(<<"CAN">>) /\ UNCHANGED <<script, ubRate, back, next, ram, down>>
    BY DEF Cancel
  <1> QED
    BY <1>1, SaysOne DEF Bytes

\* A byte off the line: whatever is left was there before.
LEMMA EndedTail == ASSUME Types, Consumes, Ended, UNCHANGED <<ub, mishap>> PROVE Ended'
  BY OnConsumed DEF Ended

LEMMA BeginningStep ==
  ASSUME Base, "stall" \notin mishap => Beginning, Next, "stall" \notin mishap'
  PROVE  Beginning'
  <1>0. Types /\ Ready /\ Unread /\ Telling /\ Header
    BY DEF Base
  <1>1. CASE TypeLoady
    <2>1. up' = << >> /\ ub' = "prompt"
      BY <1>0, <1>1 DEF TypeLoady, Ready, uboot
    <2> QED
      BY <2>1, Bare DEF Beginning, Ended
  <1>2. CASE pc' \notin {"offer", "C"}
    BY <1>2 DEF Beginning
  <1> SUFFICES ASSUME pc' \in {"offer", "C"}, ~TypeLoady
               PROVE  Beginning'
    BY <1>1, <1>2
  <1>3. Beginning
    BY MishapStays
  <1>4. CASE TakeOffer
    <2>1. pc = "offer" /\ pc' = "C" /\ up' = << >> /\ UNCHANGED <<ub, ram>>
      BY <1>4 DEF TakeOffer, uboot
    <2> QED
      BY <1>3, <2>1, Bare DEF Beginning, Ended
  <1>5. CASE NoAnswer
    <2>1. pc = "offer" /\ up = << >> /\ UNCHANGED <<up, ub, ram>>
      BY <1>5 DEF NoAnswer, Silence, Quiet, uboot
    <2> QED
      BY <1>3, <2>1, Bare DEF Beginning, Ended
  <1>6. CASE Skip \/ NoiseUp
    <2>1. UNCHANGED <<pc, ub, ram, mishap>> /\ Consumes
      BY <1>6, Aside DEF script, uboot
    <2>2. pc \in {"offer", "C"} /\ Ended'
      BY <1>0, <1>3, <2>1, EndedTail DEF Beginning
    <2>3. On(up') \subseteq On(up)
      BY <1>0, <2>1, OnConsumed
    <2>4. up' \in Asking
      <3>1. CASE up \in Asking
        BY <2>1, <3>1, Asks DEF Consumes, Asking
      <3>2. CASE up = <<"ENTER">>
        BY <2>1, <3>2, One, Bare DEF Consumes
      <3> QED
        BY <1>3, <2>2, <3>1, <3>2 DEF Beginning
    <2> QED
      BY <1>3, <2>1, <2>2, <2>3, <2>4 DEF Beginning
  <1>7. CASE UBoot \/ NoiseDown
    <2>1. UNCHANGED <<pc, rate>> /\ Delivers
      BY <1>7, Apart DEF UBoot, Prompt, Enter, Open, Data, Eof, Esc, Garbled, NoiseDown, Clear, Reads,
                         Delivers, script
    <2>2. /\ up = << >> /\ ubRate = rate /\ down # << >>
          /\ ub = IF down = Typed("cr") THEN "enter" ELSE "prompt"
      BY <1>0, <2>1 DEF Unread, Delivers
    <2>3. \E k \in {"loady fast", "loady", "cr"} : Got = Type(k, rate)
      BY <2>1, GotIs
    <2>4. Got[1] \in {"loady fast", "loady", "cr"} /\ Got[3] = rate
      <3>1. PICK k \in {"loady fast", "loady", "cr"} : Got = Type(k, rate)
        BY <2>3
      <3>2. Got[1] = k /\ Got[3] = rate
        BY <3>1, TypeParts
      <3> QED
        BY <3>2
    <2>5. /\ On(<<"C">>) = {"C"} /\ <<"C">> \in Asking /\ On(<<"ENTER">>) = {"ENTER"}
          /\ << >> \o <<"C">> = <<"C">> /\ << >> \o <<"ENTER">> = <<"ENTER">>
      <3>1. << >> \o <<"C">> = <<"C">> /\ << >> \o <<"ENTER">> = <<"ENTER">>
        OBVIOUS
      <3> QED
        BY <3>1, One DEF Asking
    <2>6. CASE Enter
      <3>1. ub = "enter" /\ ((ub' = "open" /\ Says(<<"C">>)) \/ UNCHANGED <<ub, up>>) /\ UNCHANGED ram
        BY <1>7, <2>6 DEF Enter
      <3>2. up' \in {<< >>, <<"C">>} /\ (up' = << >> \/ ub' = "open") /\ ram' = << >>
        BY <1>3, <2>1, <2>2, <2>5, <3>1 DEF Beginning, Says
      <3> QED
        BY <2>5, <3>2, Bare DEF Beginning, Ended
    <2>7. CASE Prompt
      <3>1. CASE Got[1] = "loady fast" /\ ubRate # Quick
        <4>1. ub' = "enter" /\ ram' = << >> /\ up' = <<"ENTER">>
          BY <2>2, <2>5, <2>7, <3>1, PromptDoes DEF Says
        <4>2. pc = "offer"
          <5>1. pc # "C"
            <6>1. pc = "C" => Got[1] \in {"loady", "cr"}
              <7>1. pc = "C" => Got = Type("loady", rate) \/ Got = Type("cr", rate)
                BY <2>1, GotIs
              <7> QED
                BY <7>1, TypeParts
            <6> QED
              BY <3>1, <6>1
          <5> QED
            BY <2>1, <5>1
        <4> QED
          BY <2>1, <2>5, <4>1, <4>2 DEF Beginning, Ended
      <3>2. CASE Got[1] = "loady" \/ (Got[1] = "loady fast" /\ ubRate = Quick)
        <4>1. ub' = "open" /\ ram' = << >> /\ up' = <<"C">>
          BY <2>2, <2>5, <2>7, <3>2, PromptDoes DEF Says
        <4> QED
          BY <2>5, <4>1 DEF Beginning, Ended
      <3>3. CASE Got[1] = "cr"
        <4>1. Got = Type("cr", rate) /\ (pc = "C" => down = <<Got>>) /\ pc \in {"offer", "C"}
          BY <2>1, <2>3, <3>3, GotIs, TypeParts
        <4>2. pc = "C"
          <5>1. pc = "offer" => Got[1] = "loady fast"
            <6>1. pc = "offer" => Got = Type("loady fast", rate)
              BY <2>1, GotIs
            <6> QED
              BY <6>1, TypeParts
          <5> QED
            BY <3>3, <4>1, <5>1
        <4>3. ub = "enter"
          BY <2>2, <4>1, <4>2 DEF Typed
        <4> QED
          BY <2>7, <4>3, PromptDoes
      <3> QED
        BY <2>4, <3>1, <3>2, <3>3
    <2>8. CASE ~Enter /\ ~Prompt
      <3>1. ub \in {"enter", "prompt"}
        BY <2>2
      <3> QED
        BY <1>7, <2>2, <2>4, <2>8, <3>1
        DEF UBoot, Open, Data, Eof, Esc, Garbled, NoiseDown, Reads, Got
    <2> QED
      BY <2>6, <2>7, <2>8
  <1>8. CASE UbTimeout
    <2>1. /\ ub \in {"open", "data", "eof"} /\ (ub # "eof" => up' = <<"C">> /\ UNCHANGED uboot)
          /\ UNCHANGED pc
      BY <1>8, AsksInTime DEF script
    <2>2. ub = "open" /\ ram = << >>
      BY <1>0, <1>3, <2>1 DEF Header, Beginning
    <2>3. up' = <<"C">> /\ ub' = "open" /\ ram' = << >>
      BY <2>1, <2>2 DEF uboot
    <2>4. On(up') = {"C"} /\ up' \in Asking
      BY <2>3, One DEF Asking
    <2> QED
      BY <2>3, <2>4 DEF Beginning, Ended
  <1>9. CASE UbGivesUp
    BY <1>9 DEF UbGivesUp, script
  <1>10. CASE Cancel
    <2>1. /\ ub \in {"open", "data"} /\ ub' \in {"esc", "prompt"} /\ mishap' # {} /\ UNCHANGED <<pc, ram>>
          /\ up' = Append(up, "CAN") /\ On(up') = On(up) \cup {"CAN"}
      BY <1>0, <1>10, CancelDoes DEF script
    <2>2. ub = "open" /\ "CAN" \notin On(up) /\ ram = << >>
      BY <1>0, <1>3, <2>1 DEF Header, Beginning, Ended
    <2>3. up # <<"ENTER">>
      <3>1. CASE up = <<"ENTER">>
        <4>1. "ENTER" \in On(up)
          BY <3>1, One
        <4>2. pc = "offer"
          <5>1. \A s \in Asking : "ENTER" \notin On(s)
            BY One, Two, OnEmpty DEF Asking
          <5> QED
            BY <1>3, <2>1, <4>1, <5>1 DEF Beginning
        <4> QED
          BY <1>0, <2>2, <4>1, <4>2 DEF Telling
      <3> QED
        BY <3>1
    <2>4. up \in Asking /\ up \in Answers0
      BY <1>3, <2>1, <2>3 DEF Beginning, Answers0, Answers
    <2>5. up' \in Asking
      BY <2>1, <2>2, <2>4, CancelSaid
    <2> QED
      BY <2>1, <2>2, <2>5 DEF Beginning, Ended
  <1>11. CASE Asked \/ Acked \/ Resend \/ NotAcknowledged \/ Cancelled \/ Eot \/ Escape \/ EscapeStd
    BY <1>11 DEF Asked, Acked, Resend, NotAcknowledged, Again, Cancelled, Eot, Escape, EscapeStd
  <1>12. CASE TypeCrc \/ Sum \/ Rerun \/ Look \/ GiveUp \/ ResetBoard \/ PowerCycle
    BY <1>12 DEF TypeCrc, Sum, Rerun, Look, GiveUp, ResetBoard, PowerCycle
  <1>13. CASE \E b \in BOOLEAN : StartRun(b)
    BY <1>13 DEF StartRun
  <1> QED
    BY Steps, <1>4, <1>5, <1>6, <1>7, <1>8, <1>9, <1>10, <1>11, <1>12, <1>13 DEF UBoot

----------------------------------------------------------------------------
\* The next block lands where it belongs.
LEMMA Stacked ==
  ASSUME NEW S, NEW s \in Seq(S), s = [i \in 1 .. Len(s) |-> i], Len(s) + 1 \in S
  PROVE  /\ Append(s, Len(s) + 1) = [i \in 1 .. Len(Append(s, Len(s) + 1)) |-> i]
         /\ Len(Append(s, Len(s) + 1)) = Len(s) + 1
  <1> DEFINE n == Len(s)  t == Append(s, Len(s) + 1)
  <1>1. /\ t \in Seq(S) /\ Len(t) = n + 1 /\ n \in Nat
        /\ (\A i \in 1 .. n : t[i] = s[i]) /\ t[n + 1] = n + 1
    BY OnAppend
  <1>2. \A i \in 1 .. n : s[i] = i
    <2>1. \A i \in 1 .. n : [j \in 1 .. n |-> j][i] = i
      OBVIOUS
    <2> QED
      BY <2>1, Zenon
  <1> HIDE DEF n, t
  <1>3. \A i \in 1 .. n + 1 : t[i] = i
    BY <1>1, <1>2
  <1>4. t = [i \in 1 .. Len(t) |-> t[i]]
    BY <1>1
  <1>5. t = [i \in 1 .. n + 1 |-> i]
    BY <1>1, <1>3, <1>4
  <1> QED
    BY <1>1, <1>5 DEF n, t

\* What U-Boot reads of a block while the Mac keeps up: it is the one being sent.
LEMMA ReadsBlock ==
  ASSUME Base, Blockwise, pc = "ack", Delivers
  PROVE  /\ Got[1] = "block" /\ Got[3] = rate /\ "ACK" \notin On(up)
         /\ ub \in {"open", "data"} => up = << >> /\ Got = Frame(blk) /\ Got[2] = blk /\ down' = << >>
  <1>1. Got[1] = "block" /\ Got[3] = rate /\ down # << >>
    BY GotIs DEF Delivers
  <1>2. "ACK" \notin On(up)
    BY <1>1 DEF Blockwise
  <1>3. ASSUME ub \in {"open", "data"}
        PROVE  up = << >> /\ Got = Frame(blk) /\ Got[2] = blk /\ down' = << >>
    <2>1. up = << >> /\ down = <<Frame(blk)>>
      BY <1>1, <1>3 DEF Blockwise
    <2>2. Got = Frame(blk) /\ down' = << >>
      BY <2>1, One DEF Got, Delivers
    <2> QED
      BY <2>1, <2>2 DEF Frame
  <1> QED
    BY <1>1, <1>2, <1>3

\* A block is read, or lost, and nothing comes of it.
LEMMA BlockLost ==
  ASSUME Base, Blockwise, pc = "ack", Delivers,
         UNCHANGED <<pc, blk, rate, ub, next, ram, up, mishap>>
  PROVE  Blockwise'
  <1>1. "ACK" \notin On(up) /\ (ub \in {"open", "data"} => down' = << >>)
    BY ReadsBlock
  <1>2. Ended'
    BY DEF Blockwise, Ended
  <1> QED
    BY <1>1, <1>2 DEF Blockwise

\* How U-Boot takes the block being sent.
LEMMA DataDoes ==
  ASSUME Base, Blockwise, pc = "ack", Data
  PROVE  /\ up' = <<"ACK">> /\ down' = << >> /\ UNCHANGED <<script, ub, mishap>>
         /\ ram' = [i \in 1 .. Len(ram') |-> i] /\ Len(ram') = blk
         /\ next' = (Len(ram') + 1) % SeqMod
  <1>1. ub = "data" /\ Delivers /\ UNCHANGED <<script, mishap>>
    BY HeaderKnown
  <1>2. Got[1] = "block" /\ Got[2] = blk /\ up = << >> /\ down' = << >>
    BY <1>1, ReadsBlock
  <1>3. /\ ram = [i \in 1 .. Len(ram) |-> i] /\ next = (Len(ram) + 1) % SeqMod
        /\ Len(ram) \in (IF blk = 0 THEN {0} ELSE {blk - 1, blk})
    BY <1>1 DEF Blockwise
  <1>4. blk \in 0 .. Blocks /\ blk \in Nat /\ ram \in Seq(1 .. Blocks)
    BY LineFree DEF Base, Types
  <1>5. << >> \o <<"ACK">> = <<"ACK">>
    OBVIOUS
  <1>6. CASE blk = 0
    <2>1. Got[2] = 0
      BY <1>2, <1>6
    <2>2. UNCHANGED <<ub, next, ram>> /\ Says(<<"ACK">>)
      BY <1>2, <2>1, HeaderKnown
    <2>3. up' = <<"ACK">>
      BY <1>2, <1>5, <2>2 DEF Says
    <2>4. Len(ram) = blk
      BY <1>3, <1>6
    <2> QED
      BY <1>1, <1>2, <1>3, <2>2, <2>3, <2>4
  <1>7. CASE blk # 0 /\ Len(ram) = blk
    <2>1. /\ (SeqNo(blk) + 1) % SeqMod = (blk + 1) % SeqMod
          /\ SeqNo(blk) # (blk + 1) % SeqMod
      BY <1>4, Numbering
    <2>2. next = (blk + 1) % SeqMod
      BY <1>3, <1>7
    <2>3. SeqNo(Got[2]) # next /\ (SeqNo(Got[2]) + 1) % SeqMod = next
      BY <1>2, <2>1, <2>2
    <2>4. UNCHANGED <<ub, next, ram>> /\ Says(<<"ACK">>)
      BY <1>2, <2>3 DEF Data
    <2>5. up' = <<"ACK">>
      BY <1>2, <1>5, <2>4 DEF Says
    <2> QED
      BY <1>1, <1>2, <1>3, <1>7, <2>4, <2>5
  <1>8. CASE blk # 0 /\ Len(ram) = blk - 1
    <2>1. /\ (SeqNo(blk) + 1) % SeqMod = (blk + 1) % SeqMod
          /\ SeqNo(blk) # (blk + 1) % SeqMod
      BY <1>4, Numbering
    <2>2. Len(ram) + 1 = blk /\ Len(ram) < Blocks /\ blk \in 1 .. Blocks
      BY <1>4, <1>8, LoadyAssumption
    <2>3. next = SeqNo(blk)
      <3>1. next = blk % SeqMod
        BY <1>3, <2>2
      <3> QED
        BY <3>1 DEF SeqNo
    <2>4. SeqNo(Got[2]) = next /\ (SeqNo(Got[2]) + 1) % SeqMod # next
      BY <1>2, <2>1, <2>3
    <2>5. next' = (next + 1) % SeqMod /\ UNCHANGED ub /\ Says(<<"ACK">>)
          /\ ram' = IF Len(ram) < Blocks THEN Append(ram, Got[2]) ELSE ram
      BY <1>2, <2>4 DEF Data
    <2>6. ram' = Append(ram, Len(ram) + 1)
      BY <1>2, <2>2, <2>5
    <2>7. ram' = [i \in 1 .. Len(ram') |-> i] /\ Len(ram') = Len(ram) + 1
      BY <1>3, <1>4, <2>2, <2>6, Stacked
    <2>8. up' = <<"ACK">>
      BY <1>2, <1>5, <2>5 DEF Says
    <2>9. Len(ram') = blk
      BY <2>2, <2>7
    <2>10. next' = (Len(ram') + 1) % SeqMod
      BY <2>1, <2>3, <2>5, <2>9
    <2> QED
      BY <1>1, <1>2, <2>5, <2>7, <2>8, <2>9, <2>10
  <1> QED
    BY <1>3, <1>6, <1>7, <1>8

LEMMA BlockwiseStep ==
  ASSUME Base, Exchange, Next, "stall" \notin mishap'
  PROVE  Blockwise'
  <1>0. Types /\ Ready /\ Header /\ blk \in Nat
    BY LineFree DEF Base
  <1>1. CASE pc' # "ack"
    BY <1>1 DEF Blockwise
  <1> SUFFICES ASSUME pc' = "ack"
               PROVE  Blockwise'
    BY <1>1
  <1>2. Beginning /\ Blockwise /\ HeaderTaken
    <2>1. ~TypeLoady
      BY DEF TypeLoady
    <2> QED
      BY <2>1, MishapStays DEF Exchange
  <1>3. CASE Asked
    <2>1. /\ pc \in {"offer", "C", "data C"} /\ up # << >> /\ Head(up) = "C" /\ up' = Tail(up)
          /\ blk' = (IF pc = "data C" THEN 1 ELSE 0) /\ Send(Frame(blk'))
          /\ UNCHANGED <<rate, ub, next, ram, mishap>>
      BY <1>3 DEF Asked, Hears, SendBlock, uboot
    <2>2. up \in Asking
      <3>1. up # <<"ENTER">>
        <4>1. Head(<<"ENTER">>) = "ENTER" /\ Head(up) = "C"
          BY <2>1, One
        <4> QED
          BY <4>1
      <3> QED
        BY <1>2, <2>1, <3>1 DEF Beginning, HeaderTaken
    <2>3. up' \in {<< >>, <<"CAN">>} /\ On(up) = {"C"} \cup On(up')
          /\ ("CAN" \notin On(up) => up' = << >>) /\ "ACK" \notin On(up')
      <3>1. "ACK" \notin On(up)
        BY <2>2, WithAck
      <3> QED
        BY <2>1, <2>2, <3>1, Asks
    <2>4. ram = << >> /\ down = << >> /\ ub \notin {"eof"} /\ Ended
          /\ (pc = "data C" => ub # "open" /\ (ub = "data" => next = 1))
          /\ (pc # "data C" => ub # "data")
      BY <1>0, <1>2, <2>1, <2>3, LineFree DEF Beginning, HeaderTaken, Header
    <2>5. Ended'
      BY <2>1, <2>3, <2>4 DEF Ended
    <2>6. ub' \in {"open", "data"} => up' = << >>
      BY <2>1, <2>3, <2>4 DEF Ended
    <2>7. down' = <<Frame(blk)'>>
      <3>1. down' = Append(<< >>, Frame(blk)')
        BY <2>1, <2>4 DEF Send, Frame
      <3> QED
        BY <3>1, Literals
    <2>8. up' \in Asking
      BY <2>3 DEF Asking
    <2>9. Len(ram') = 0 /\ ram' = [i \in 1 .. Len(ram') |-> i]
      <3>1. Len(<< >>) = 0 /\ << >> = [i \in 1 .. 0 |-> i]
        OBVIOUS
      <3>2. ram' = << >>
        BY <2>1, <2>4
      <3> QED
        BY <3>1, <3>2
    <2>10. ub' = "data" => next' = (Len(ram') + 1) % SeqMod
      <3>1. 1 % SeqMod = 1 /\ 0 + 1 = 1
        BY Numbering
      <3> QED
        BY <2>1, <2>4, <2>9, <3>1
    <2>11. Len(ram') \in (IF blk' = 0 THEN {0} ELSE {blk' - 1, blk'})
      <3>1. blk' \in {0, 1}
        BY <2>1
      <3>2. Len(ram') = 0
        BY <2>9
      <3>3. 1 - 1 = 0
        OBVIOUS
      <3> QED
        BY <3>1, <3>2, <3>3
    <2> QED
      BY <2>1, <2>3, <2>4, <2>5, <2>6, <2>7, <2>8, <2>9, <2>10, <2>11 DEF Blockwise, Answers, Answers0
  <1>4. CASE Acked
    <2>1. /\ pc = "ack" /\ up # << >> /\ Head(up) = "ACK" /\ up' = Tail(up)
          /\ blk \in 1 .. Blocks - 1 /\ blk' = blk + 1 /\ Send(Frame(blk + 1))
          /\ UNCHANGED <<rate, ub, next, ram, mishap>>
      BY <1>4 DEF Acked, IsAck, SendBlock, uboot
    <2>2. blk # 0 /\ blk' # 0
      <3>1. blk \in 1 .. Blocks - 1 /\ blk' = blk + 1
        BY <2>1
      <3> QED
        BY <3>1, LoadyAssumption
    <2>3. up \in Answers /\ Ended
      BY <1>2, <2>1, <2>2 DEF Blockwise
    <2>4. up \in Answers0
      BY <2>3 DEF Answers0
    <2>5. up' \in {<< >>, <<"CAN">>} /\ On(up) = {"ACK"} \cup On(up') /\ "ACK" \notin On(up')
      BY <2>1, <2>3, <2>4, AnswersTo
    <2>6. down = << >> /\ ub \notin {"open", "eof"} /\ Len(ram) = blk
          /\ ram = [i \in 1 .. Len(ram) |-> i] /\ (ub = "data" => next = (Len(ram) + 1) % SeqMod)
      BY <1>2, <2>1, <2>5 DEF Blockwise
    <2>7. Ended'
      BY <2>1, <2>3, <2>5 DEF Ended
    <2>8. ub' \in {"open", "data"} => up' = << >>
      <3>1. "CAN" \in On(<<"CAN">>)
        BY One
      <3> QED
        BY <2>1, <2>3, <2>5, <3>1 DEF Ended
    <2>9. down' = <<Frame(blk)'>>
      <3>1. down' = Append(<< >>, Frame(blk)')
        BY <2>1, <2>6 DEF Send, Frame
      <3> QED
        BY <3>1, Literals
    <2>10. up' \in Answers
      BY <2>5 DEF Answers, Asking
    <2>11. Len(ram') = blk' - 1
      <3>1. blk' - 1 = blk
        BY <1>0, <2>1
      <3> QED
        BY <2>1, <2>6, <3>1
    <2>12. Len(ram') \in (IF blk' = 0 THEN {0} ELSE {blk' - 1, blk'})
      BY <2>2, <2>11
    <2>13. ram' = [i \in 1 .. Len(ram') |-> i] /\ (ub' = "data" => next' = (Len(ram') + 1) % SeqMod)
      BY <2>1, <2>6
    <2> QED
      BY <2>1, <2>2, <2>5, <2>6, <2>7, <2>8, <2>9, <2>10, <2>12, <2>13 DEF Blockwise
  <1>5. CASE Resend
    <2>1. /\ pc = "ack" /\ UNCHANGED <<pc, rate, blk, ub, next, ram, mishap>> /\ Send(Frame(blk))
          /\ \/ up # << >> /\ Head(up) = "C" /\ up' = Tail(up)
             \/ up = << >> /\ down = << >> /\ UNCHANGED up
      BY <1>5 DEF Resend, Again, AgainAnswered, Silence, Quiet, uboot
    <2>2. /\ up' \in {<< >>, <<"CAN">>} /\ On(up') \subseteq On(up) /\ "ACK" \notin On(up')
          /\ (ub \in {"open", "data"} => up' = << >> /\ down = << >>)
      <3>1. CASE up = << >> /\ UNCHANGED up /\ down = << >>
        BY <3>1, OnEmpty
      <3>2. CASE up # << >> /\ Head(up) = "C" /\ up' = Tail(up)
        <4>1. up \in Answers0
          BY <1>2, <2>1 DEF Blockwise, Answers0
        <4>2. up \in Asking /\ "ACK" \notin On(up')
          BY <3>2, <4>1, AnswersTo
        <4>3. up' \in {<< >>, <<"CAN">>} /\ On(up') \subseteq On(up)
              /\ ("CAN" \notin On(up) => up' = << >>)
          BY <3>2, <4>2, Asks
        <4> QED
          BY <1>2, <2>1, <3>2, <4>2, <4>3 DEF Blockwise, Ended
      <3> QED
        BY <2>1, <3>1, <3>2
    <2>3. ub \in {"open", "data"} => down' = <<Frame(blk)'>>
      <3>1. ub \in {"open", "data"} => down' = Append(<< >>, Frame(blk)')
        BY <2>1, <2>2 DEF Send, Frame
      <3> QED
        BY <3>1, Literals
    <2>4. up' \in Answers /\ up' \in Answers0
      BY <2>2 DEF Answers, Answers0, Asking
    <2>5. Ended'
      BY <1>2, <2>1, <2>2 DEF Blockwise, Ended
    <2> QED
      BY <1>2, <2>1, <2>2, <2>3, <2>4, <2>5 DEF Blockwise
  <1>6. CASE Skip \/ NoiseUp
    <2>1. UNCHANGED <<pc, blk, rate, ub, next, ram, down, mishap>> /\ Consumes
      BY <1>6, Aside DEF script, uboot
    <2>2. pc = "ack" /\ up \in Answers0 /\ up # << >> /\ up' = Tail(up)
      BY <1>2, <2>1 DEF Blockwise, Answers0, Consumes
    <2>3. up' \in Asking /\ "ACK" \notin On(up')
      BY <2>2, AnswersTo
    <2>4. Ended'
      BY <1>0, <1>2, <2>1, <2>2, EndedTail DEF Blockwise
    <2>5. up' \in Answers /\ up' \in Answers0
      BY <2>3 DEF Answers, Answers0
    <2>6. ub \in {"open", "data"} => down = << >>
      BY <1>2, <2>2 DEF Blockwise
    <2> QED
      BY <1>2, <2>1, <2>2, <2>3, <2>4, <2>5, <2>6 DEF Blockwise
  <1>7. CASE UBoot \/ NoiseDown
    <2>1. UNCHANGED <<pc, blk, rate>> /\ Delivers /\ pc = "ack"
      BY <1>7, Apart DEF UBoot, Prompt, Enter, Open, Data, Eof, Esc, Garbled, NoiseDown, Clear, Reads,
                         Delivers, script
    <2>2. /\ Got[1] = "block" /\ Got[3] = rate /\ "ACK" \notin On(up)
          /\ ub \in {"open", "data"} => up = << >> /\ Got = Frame(blk) /\ Got[2] = blk /\ down' = << >>
      BY <1>2, <2>1, ReadsBlock
    <2>3. CASE UNCHANGED <<ub, next, ram, up, mishap>>
      BY <1>2, <2>1, <2>3, BlockLost
    <2>4. CASE Open
      <3>1. /\ ub = "open" /\ UNCHANGED <<ram, mishap>>
            /\ \/ UNCHANGED <<ub, next, up>>
               \/ Got[2] = 0 /\ ub' = "data" /\ next' = 1 /\ (Says(<<"ACK">>) \/ Says(<<"ACK", "C">>))
        BY <2>4 DEF Open, Clear, Reads
      <3>2. CASE Got[2] = 0 /\ ub' = "data" /\ next' = 1 /\ (Says(<<"ACK">>) \/ Says(<<"ACK", "C">>))
        <4>1. blk = 0 /\ up = << >> /\ down' = << >>
          BY <2>2, <3>1, <3>2
        <4>2. << >> \o <<"ACK">> = <<"ACK">> /\ << >> \o <<"ACK", "C">> = <<"ACK", "C">>
          OBVIOUS
        <4>3. up' \in {<<"ACK">>, <<"ACK", "C">>}
          BY <3>2, <4>1, <4>2 DEF Says
        <4>4. "CAN" \notin On(up') /\ up' \in Answers0
          BY <4>3, One, Two DEF Answers, Answers0
        <4>5. Len(ram) = 0 /\ ram = [i \in 1 .. Len(ram) |-> i]
          BY <1>2, <2>1, <4>1 DEF Blockwise
        <4>6. next' = (Len(ram') + 1) % SeqMod
          <5>1. 1 % SeqMod = 1 /\ 0 + 1 = 1
            BY Numbering
          <5> QED
            BY <3>1, <3>2, <4>5, <5>1
        <4> QED
          BY <2>1, <3>1, <3>2, <4>1, <4>4, <4>5, <4>6 DEF Blockwise, Ended
      <3> QED
        BY <2>3, <3>1, <3>2
    <2>5. CASE Data
      <3>1. /\ up' = <<"ACK">> /\ down' = << >> /\ UNCHANGED <<ub, mishap>>
            /\ ram' = [i \in 1 .. Len(ram') |-> i] /\ Len(ram') = blk
            /\ next' = (Len(ram') + 1) % SeqMod
        BY <1>2, <2>1, <2>5, DataDoes
      <3>2. ub' = "data"
        BY <2>5, <3>1, HeaderKnown
      <3>3. "CAN" \notin On(up') /\ up' \in Answers /\ up' \in Answers0
        BY <3>1, One DEF Answers, Answers0
      <3>4. Len(ram') \in (IF blk' = 0 THEN {0} ELSE {blk' - 1, blk'})
        BY <2>1, <3>1
      <3> QED
        BY <2>1, <3>1, <3>2, <3>3, <3>4 DEF Blockwise, Ended
    <2>6. CASE Prompt
      <3>1. UNCHANGED <<uboot, up, mishap>>
        BY <2>2, <2>6, PromptDoes
      <3> QED
        BY <2>3, <3>1 DEF uboot
    <2>7. CASE Enter \/ Eof \/ Esc
      <3>1. UNCHANGED <<ub, next, ram, up, mishap>>
        BY <2>2, <2>7 DEF Enter, Eof, Esc, Clear, Reads, uboot
      <3> QED
        BY <2>3, <3>1
    <2>8. CASE Garbled
      <3>1. UNCHANGED <<ub, next, ram, up, mishap>>
        BY <2>8 DEF Garbled, Reads, uboot
      <3> QED
        BY <2>3, <3>1
    <2>9. CASE NoiseDown
      <3>1. UNCHANGED <<ub, next, ram, up>> /\ mishap' = mishap
        BY <2>2, <2>9 DEF NoiseDown, uboot, Got
      <3> QED
        BY <2>3, <3>1
    <2> QED
      BY <1>7, <2>4, <2>5, <2>6, <2>7, <2>8, <2>9 DEF UBoot
  <1>8. CASE UbTimeout
    <2>1. /\ ub \in {"open", "data", "eof"} /\ (ub # "eof" => up' = <<"C">> /\ UNCHANGED uboot)
          /\ down = << >> /\ UNCHANGED <<script, down, mishap>>
      BY <1>8, AsksInTime
    <2>2. pc = "ack" /\ up' = <<"C">> /\ UNCHANGED <<ub, next, ram, pc, blk, rate>>
      BY <1>2, <2>1 DEF Blockwise, script, uboot
    <2>3. On(up') = {"C"} /\ up' \in Answers /\ up' \in Answers0
      BY <2>2, One DEF Answers, Answers0, Asking
    <2> QED
      BY <1>2, <2>1, <2>2, <2>3 DEF Blockwise, Ended
  <1>9. CASE UbGivesUp
    BY <1>9 DEF UbGivesUp, script
  <1>10. CASE Cancel
    <2>1. /\ ub \in {"open", "data"} /\ ub' \in {"esc", "prompt"} /\ mishap' # {}
          /\ UNCHANGED <<pc, blk, ram, down>>
          /\ up' = Append(up, "CAN") /\ On(up') = On(up) \cup {"CAN"}
      BY <1>0, <1>10, CancelDoes DEF script
    <2>2. "CAN" \notin On(up) /\ pc = "ack"
      BY <1>2, <2>1 DEF Blockwise, Ended
    <2>3. up \in Answers0
      BY <1>2, <2>2 DEF Blockwise, Answers0
    <2>4. up' \in (IF blk = 0 THEN Answers0 ELSE Answers)
      BY <1>2, <2>1, <2>2, <2>3, CancelSaid DEF Blockwise
    <2>5. "ACK" \in On(up') => down = << >> /\ Len(ram) = blk
      BY <1>2, <2>1, <2>2 DEF Blockwise
    <2> QED
      BY <1>2, <2>1, <2>2, <2>4, <2>5 DEF Blockwise, Ended
  <1>11. CASE TypeLoady \/ TakeOffer \/ NotAcknowledged \/ Cancelled \/ Eot \/ Escape \/ EscapeStd
    BY <1>11 DEF TypeLoady, TakeOffer, NotAcknowledged, Cancelled, Eot, Escape, EscapeStd
  <1>12. CASE TypeCrc \/ Sum \/ NoAnswer \/ Rerun \/ Look \/ GiveUp \/ ResetBoard \/ PowerCycle
    BY <1>12 DEF TypeCrc, Sum, NoAnswer, Rerun, Look, GiveUp, ResetBoard, PowerCycle
  <1>13. CASE \E b \in BOOLEAN : StartRun(b)
    BY <1>13 DEF StartRun
  <1> QED
    BY Steps, <1>3, <1>4, <1>5, <1>6, <1>7, <1>8, <1>9, <1>10, <1>11, <1>12, <1>13 DEF UBoot

LEMMA HeaderTakenStep ==
  ASSUME Base, Exchange, Next, "stall" \notin mishap'
  PROVE  HeaderTaken'
  <1>0. Types /\ Ready /\ Header
    BY DEF Base
  <1>1. CASE pc' # "data C"
    BY <1>1 DEF HeaderTaken
  <1> SUFFICES ASSUME pc' = "data C"
               PROVE  HeaderTaken'
    BY <1>1
  <1>2. Blockwise /\ HeaderTaken
    <2>1. ~TypeLoady
      BY DEF TypeLoady
    <2> QED
      BY <2>1, MishapStays DEF Exchange
  <1>3. CASE Acked
    <2>1. /\ pc = "ack" /\ up # << >> /\ Head(up) = "ACK" /\ up' = Tail(up) /\ blk = 0
          /\ UNCHANGED <<ub, next, ram, down, mishap>>
      BY <1>3 DEF Acked, IsAck, SendBlock, uboot
    <2>2. up \in Answers0 /\ Ended /\ Len(ram) = 0
      BY <1>2, <2>1 DEF Blockwise
    <2>3. up' \in Asking /\ On(up) = {"ACK"} \cup On(up')
      BY <2>1, <2>2, AnswersTo
    <2>4. down = << >> /\ ub \notin {"open", "eof"} /\ (ub = "data" => next = 1)
      BY <1>0, <1>2, <2>1, <2>3 DEF Blockwise, Header
    <2>5. ram = << >>
      BY <1>0, <2>2, EmptySeq DEF Types
    <2>6. Ended'
      BY <2>1, <2>2, <2>3 DEF Ended
    <2> QED
      BY <2>1, <2>3, <2>4, <2>5, <2>6 DEF HeaderTaken
  <1>4. CASE Skip \/ NoiseUp
    <2>1. UNCHANGED <<pc, ub, next, ram, down, mishap>> /\ Consumes
      BY <1>4, Aside DEF script, uboot
    <2>2. pc = "data C" /\ up \in Asking /\ up # << >> /\ up' = Tail(up)
      BY <1>2, <2>1 DEF HeaderTaken, Consumes
    <2>3. up' \in Asking
      BY <2>2, Asks DEF Asking
    <2>4. Ended'
      BY <1>0, <1>2, <2>1, <2>2, EndedTail DEF HeaderTaken
    <2> QED
      BY <1>2, <2>1, <2>2, <2>3, <2>4 DEF HeaderTaken
  <1>5. CASE UBoot \/ NoiseDown
    <2>1. UNCHANGED pc /\ down # << >>
      BY <1>5, Apart DEF UBoot, Prompt, Enter, Open, Data, Eof, Esc, Garbled, NoiseDown, Clear, Reads, script
    <2> QED
      BY <1>2, <2>1 DEF HeaderTaken
  <1>6. CASE UbTimeout
    <2>1. /\ ub \in {"open", "data", "eof"} /\ (ub # "eof" => up' = <<"C">> /\ UNCHANGED uboot)
          /\ UNCHANGED <<script, down, mishap>>
      BY <1>6, AsksInTime
    <2>2. pc = "data C" /\ up' = <<"C">> /\ UNCHANGED <<ub, next, ram>>
      BY <1>2, <2>1 DEF HeaderTaken, script, uboot
    <2>3. On(up') = {"C"} /\ up' \in Asking
      BY <2>2, One DEF Asking
    <2> QED
      BY <1>2, <2>1, <2>2, <2>3 DEF HeaderTaken, Ended
  <1>7. CASE Cancel
    <2>1. /\ ub \in {"open", "data"} /\ ub' \in {"esc", "prompt"} /\ mishap' # {}
          /\ UNCHANGED <<pc, ram, down>>
          /\ up' = Append(up, "CAN") /\ On(up') = On(up) \cup {"CAN"}
      BY <1>0, <1>7, CancelDoes DEF script
    <2>2. "CAN" \notin On(up) /\ pc = "data C" /\ up \in Asking
      BY <1>2, <2>1 DEF HeaderTaken, Ended
    <2>3. up' \in Asking
      <3>1. up \in Answers0
        BY <2>2 DEF Answers0, Answers
      <3> QED
        BY <2>1, <2>2, <3>1, CancelSaid
    <2> QED
      BY <1>2, <2>1, <2>2, <2>3 DEF HeaderTaken, Ended
  <1>8. CASE UbGivesUp
    BY <1>8 DEF UbGivesUp, script
  <1>9. CASE TypeLoady \/ TakeOffer \/ Asked \/ Resend \/ NotAcknowledged \/ Cancelled \/ Eot \/ Escape
    BY <1>9 DEF TypeLoady, TakeOffer, Asked, Resend, Again, NotAcknowledged, Cancelled, Eot, Escape
  <1>10. CASE EscapeStd \/ TypeCrc \/ Sum \/ NoAnswer \/ Rerun \/ Look \/ GiveUp \/ ResetBoard
    BY <1>10 DEF EscapeStd, TypeCrc, Sum, NoAnswer, Rerun, Look, GiveUp, ResetBoard
  <1>11. CASE PowerCycle \/ \E b \in BOOLEAN : StartRun(b)
    BY <1>11 DEF PowerCycle, StartRun
  <1> QED
    BY Steps, <1>3, <1>4, <1>5, <1>6, <1>7, <1>8, <1>9, <1>10, <1>11 DEF UBoot

LEMMA ExchangeStep == Base /\ Exchange /\ [Next]_vars => Exchange'
  <1> SUFFICES ASSUME Base, Exchange, [Next]_vars PROVE Exchange'
    OBVIOUS
  <1>1. CASE Next
    BY <1>1, BeginningStep, BlockwiseStep, HeaderTakenStep DEF Exchange
  <1>2. CASE UNCHANGED vars
    BY <1>2 DEF Exchange, Beginning, Blockwise, HeaderTaken, Ended, Frame, vars, script, uboot
  <1> QED
    BY <1>1, <1>2

LEMMA ExchangeInvariant == Spec => [](Base /\ Exchange)
  <1>1. Init => Exchange
    BY DEF Init, Exchange, Beginning, Blockwise, HeaderTaken
  <1> QED
    BY <1>1, BaseInit, BaseStep, ExchangeStep, PTL DEF Spec

(***************************************************************************)
(* While the Mac keeps up, the block before the one being sent has been    *)
(* stored: no ACK is taken for another block's, whatever the noise and     *)
(* wherever the block numbers wrap.                                        *)
(***************************************************************************)
THEOREM AcksAreTrue == Spec => []AckedIsStored
  <1>1. Base /\ Exchange => AckedIsStored
    <2> SUFFICES ASSUME Base, Exchange, "stall" \notin mishap, pc = "ack", blk > 0
                 PROVE  Len(ram) \in {blk - 1, blk}
      BY DEF AckedIsStored
    <2>1. blk # 0
      BY LineFree
    <2> QED
      BY <2>1 DEF Exchange, Blockwise
  <1> QED
    BY <1>1, ExchangeInvariant, PTL

----------------------------------------------------------------------------
(***************************************************************************)
(* As long as only noise has gone wrong, U-Boot is where the script takes  *)
(* it to be.                                                               *)
(***************************************************************************)
LEMMA NothingNew ==
  ASSUME Exchange, NoMishap, Next, mishap' = {}, ~TypeLoady
  PROVE  /\ mishap = {} /\ "stall" \notin mishap' /\ ~Cancel
         /\ Beginning /\ Blockwise /\ HeaderTaken /\ MBegin /\ MBlocks /\ MEnd /\ MPrompt
  <1>1. mishap = {}
    BY MishapStays
  <1>2. ~Cancel
    BY DEF Cancel
  <1> QED
    BY <1>1, <1>2 DEF Exchange, NoMishap

\* A U-Boot that waits for blocks asks by itself.
LEMMA NeverSilent == ASSUME Silence, ubRate = rate PROVE ub \notin {"open", "data"}
  BY DEF Silence, WillAsk

\* Where the script is told to go on, a command is read by the state it is meant for.
LEMMA TypedRead ==
  ASSUME Base, UBoot \/ NoiseDown, pc \in {"offer", "C"}, Delivers
  PROVE  /\ ubRate = rate /\ up = << >> /\ down' = << >> /\ (Prompt \/ Enter)
         /\ pc = "offer" => Got[1] = "loady fast" /\ Prompt
         /\ pc = "C" => \/ Got[1] = "loady" /\ Prompt /\ down = Typed("loady")
                        \/ Got[1] = "cr" /\ Enter /\ down = Typed("cr")
  <1>1. /\ up = << >> /\ ubRate = rate /\ down # << >>
        /\ ub = IF down = Typed("cr") THEN "enter" ELSE "prompt"
    BY DEF Base, Unread, Delivers
  <1>2. /\ pc = "offer" => Got = Type("loady fast", rate)
        /\ pc = "C" => Got \in {Type("loady", rate), Type("cr", rate)} /\ down = <<Got>>
        /\ down' = << >>
    BY GotIs
  <1>3. /\ pc = "offer" => Got[1] = "loady fast"
        /\ pc = "C" => \/ Got[1] = "loady" /\ down = Typed("loady")
                       \/ Got[1] = "cr" /\ down = Typed("cr")
        /\ Got[3] = rate
    <2>1. CASE pc = "offer"
      <3>1. Got = Type("loady fast", rate)
        BY <1>2, <2>1
      <3> QED
        BY <2>1, <3>1, TypeParts
    <2>2. CASE pc = "C"
      <3>1. CASE Got = Type("loady", rate)
        <4>1. down = Typed("loady")
          BY <1>2, <2>2, <3>1 DEF Typed
        <4> QED
          BY <2>2, <3>1, <4>1, TypeParts
      <3>2. CASE Got = Type("cr", rate)
        <4>1. down = Typed("cr")
          BY <1>2, <2>2, <3>2 DEF Typed
        <4> QED
          BY <2>2, <3>2, <4>1, TypeParts
      <3> QED
        BY <1>2, <2>2, <3>1, <3>2
    <2> QED
      BY <2>1, <2>2
  <1>4. down # Typed("cr") <=> ub = "prompt"
    BY <1>1
  <1>5. pc = "offer" => down # Typed("cr")
    <2>1. ASSUME down = Typed("cr") PROVE Got = Type("cr", rate)
      BY <2>1, One DEF Got, Typed
    <2>2. Type("cr", rate)[1] = "cr"
      BY TypeParts
    <2> QED
      BY <1>3, <2>1, <2>2
  <1>6. Typed("loady") # Typed("cr")
    BY TypedApart
  <1>7. Prompt \/ Enter
    BY <1>1, <1>3 DEF UBoot, Open, Data, Eof, Esc, Garbled, NoiseDown, Reads, Got
  <1>8. (Prompt => ub = "prompt") /\ (Enter => ub = "enter")
    BY DEF Prompt, Enter
  <1> QED
    BY <1>1, <1>2, <1>3, <1>4, <1>5, <1>6, <1>7, <1>8

LEMMA MBeginStep ==
  ASSUME Base, Exchange, NoMishap, Next, mishap' = {}
  PROVE  MBegin'
  <1>0. Types /\ Ready /\ Unread /\ Telling /\ Header /\ Line
    BY DEF Base
  <1>1. CASE TypeLoady
    <2>1. /\ down = << >> /\ down' = Append(down, Type(IF fast THEN "loady fast" ELSE "loady", rate))
          /\ UNCHANGED rate /\ switched' = FALSE /\ pc' = (IF fast THEN "offer" ELSE "C")
      BY <1>1, LineFree DEF TypeLoady, Send
    <2>2. down' = Typed(IF fast THEN "loady fast" ELSE "loady")
      BY <2>1, Literals DEF Typed
    <2>3. down' # << >> /\ down' # Typed("cr")
      BY <2>2, TypedApart DEF Typed
    <2> QED
      BY <2>1, <2>3 DEF MBegin, Typed
  <1>2. CASE pc' \notin {"offer", "C"}
    BY <1>2 DEF MBegin
  <1> SUFFICES ASSUME pc' \in {"offer", "C"}, ~TypeLoady
               PROVE  MBegin'
    BY <1>1, <1>2
  <1>3. MBegin /\ "stall" \notin mishap' /\ ~Cancel
    BY NothingNew
  <1>4. CASE TakeOffer
    <2>1. /\ pc = "offer" /\ up # << >> /\ Head(up) = "ENTER" /\ UNCHANGED back /\ rate' = Quick
          /\ switched' = TRUE /\ pc' = "C" /\ down' = Append(down, Type("cr", Quick))
      BY <1>4 DEF TakeOffer, Hears, Send, uboot
    <2>2. down = << >> /\ ub = "enter"
      BY <1>0, <2>1, HeardOn DEF Telling
    <2>3. back
      BY <1>3, <2>1, <2>2 DEF MBegin
    <2>4. down' = Typed("cr")'
      BY <2>1, <2>2, Literals DEF Typed
    <2>5. down' # << >> /\ down' # Typed("loady")'
      <3>1. \A r : <<Type("cr", r)>> # <<Type("loady", r)>>
        <4>1. \A r : Type("cr", r) # Type("loady", r)
          BY TypeParts
        <4>2. \A a, b : <<a>> = <<b>> => a = b
          OBVIOUS
        <4> QED
          BY <4>1, <4>2
      <3> QED
        BY <2>4, <3>1 DEF Typed
    <2> QED
      BY <2>1, <2>3, <2>5 DEF MBegin
  <1>5. CASE NoAnswer
    <2>1. pc = "offer" /\ down = << >> /\ up = << >> /\ Silence
      BY <1>5 DEF NoAnswer, Silence, Quiet
    <2>2. up # <<"ENTER">>
      BY <2>1
    <2>3. ub = "open" /\ ubRate = rate
      BY <1>3, <2>1, <2>2 DEF MBegin, Listening
    <2> QED
      BY <2>1, <2>3, NeverSilent
  <1>6. CASE Skip \/ NoiseUp
    <2>1. UNCHANGED <<pc, rate, switched, down, ub, ubRate, back>> /\ up # << >>
      BY <1>6, Aside DEF script, uboot, Consumes
    <2>2. CASE pc = "offer" /\ up = <<"ENTER">>
      <3>1. Head(up) = "ENTER"
        BY <2>2, One
      <3> QED
        BY <1>6, <2>2, <3>1 DEF Skip, NoiseUp, Wanted
    <2>3. CASE ~(pc = "offer" /\ up = <<"ENTER">>)
      BY <1>3, <2>1, <2>3 DEF MBegin, Listening, Typed
    <2> QED
      BY <2>2, <2>3
  <1>7. CASE UBoot \/ NoiseDown
    <2>1. UNCHANGED script /\ Delivers
      BY <1>7, Apart DEF UBoot, Prompt, Enter, Open, Data, Eof, Esc, Garbled, NoiseDown, Clear, Reads, Delivers
    <2>2. pc \in {"offer", "C"} /\ UNCHANGED <<pc, rate, switched>>
      BY <2>1 DEF script
    <2>3. /\ ubRate = rate /\ up = << >> /\ down' = << >>
          /\ pc = "offer" => Got[1] = "loady fast" /\ Prompt
          /\ pc = "C" => \/ Got[1] = "loady" /\ Prompt /\ down = Typed("loady")
                         \/ Got[1] = "cr" /\ Enter /\ down = Typed("cr")
      BY <1>7, <2>1, <2>2, TypedRead
    <2>4. down' # Typed("cr")' /\ down' # Typed("loady")'
      BY <2>3 DEF Typed
    <2>5. CASE pc = "offer"
      <3>1. ~switched
        BY <1>3, <2>5 DEF MBegin
      <3>2. CASE ubRate # Quick
        <4>1. ub' = "enter" /\ back' = TRUE /\ Says(<<"ENTER">>)
          BY <2>3, <2>5, <3>2, PromptDoes
        <4>2. << >> \o <<"ENTER">> = <<"ENTER">>
          OBVIOUS
        <4> QED
          BY <2>2, <2>3, <2>4, <2>5, <3>1, <4>1, <4>2 DEF MBegin, Says
      <3>3. CASE ubRate = Quick
        <4>1. ub' = "open" /\ back' = FALSE /\ UNCHANGED ubRate
          BY <2>3, <2>5, <3>3, PromptDoes
        <4> QED
          BY <2>2, <2>3, <2>4, <2>5, <3>1, <4>1, <1>0 DEF MBegin, Listening, Types, TypeOK
      <3> QED
        BY <3>2, <3>3
    <2>6. CASE pc = "C" /\ Got[1] = "loady" /\ Prompt /\ down = Typed("loady")
      <3>1. ~switched
        BY <1>3, <2>6 DEF MBegin
      <3>2. ub' = "open" /\ back' = FALSE /\ UNCHANGED ubRate
        BY <2>6, PromptDoes
      <3> QED
        BY <2>2, <2>3, <2>4, <2>6, <3>1, <3>2, <1>0 DEF MBegin, Listening, Types, TypeOK
    <2>7. CASE pc = "C" /\ Got[1] = "cr" /\ Enter /\ down = Typed("cr")
      <3>1. switched /\ back
        BY <1>3, <2>7 DEF MBegin
      <3>2. ub' = "open" /\ UNCHANGED <<back, ubRate>>
        BY <2>7 DEF Enter
      <3> QED
        BY <2>2, <2>3, <2>4, <2>7, <3>1, <3>2, <1>0 DEF MBegin, Listening, Types, TypeOK
    <2> QED
      BY <2>2, <2>3, <2>5, <2>6, <2>7
  <1>8. CASE UbTimeout
    <2>1. /\ ub \in {"open", "data", "eof"} /\ (ub # "eof" => UNCHANGED uboot) /\ UNCHANGED <<script, down>>
          /\ down = << >> /\ up = << >>
      BY <1>3, <1>8, AsksInTime
    <2>2. ub = "open" /\ UNCHANGED <<ub, ubRate, back, pc, rate, switched, down>>
      BY <1>0, <2>1 DEF Header, script, uboot
    <2> QED
      BY <1>3, <2>1, <2>2 DEF MBegin, Listening, Typed
  <1>9. CASE UbGivesUp
    BY <1>9 DEF UbGivesUp, script
  <1>10. CASE Asked \/ Acked \/ Resend \/ NotAcknowledged \/ Cancelled \/ Eot \/ Escape \/ EscapeStd
    BY <1>10 DEF Asked, Acked, Resend, NotAcknowledged, Again, Cancelled, Eot, Escape, EscapeStd
  <1>11. CASE TypeCrc \/ Sum \/ Rerun \/ Look \/ GiveUp \/ ResetBoard \/ PowerCycle
    BY <1>11 DEF TypeCrc, Sum, Rerun, Look, GiveUp, ResetBoard, PowerCycle
  <1>12. CASE \E b \in BOOLEAN : StartRun(b)
    BY <1>12 DEF StartRun
  <1> QED
    BY Steps, <1>3, <1>4, <1>5, <1>6, <1>7, <1>8, <1>9, <1>10, <1>11, <1>12 DEF UBoot

\* A first attempt needs no reason; the header is not a later block.
LEMMA FirstAttempt == ASSUME NEW h \in Nat, NEW t, t = 1 PROVE h >= t - 1
  OBVIOUS

LEMMA NoLater == ASSUME NEW n \in Nat PROVE n > 0 <=> n # 0
  OBVIOUS

LEMMA MBlocksStep ==
  ASSUME Base, Exchange, NoMishap, Next, mishap' = {}
  PROVE  MBlocks'
  <1>0. /\ Types /\ Ready /\ Unread /\ Telling /\ Header /\ Line
        /\ hits \in Nat /\ tries \in Nat /\ tries >= 1 /\ hits >= 0
    BY LoadyAssumption DEF Base, Types, TypeOK
  <1>1. CASE pc' \notin {"ack", "data C"}
    BY <1>1 DEF MBlocks
  <1> SUFFICES ASSUME pc' \in {"ack", "data C"}
               PROVE  MBlocks'
    BY <1>1
  <1>2. ~TypeLoady
    BY DEF TypeLoady
  <1>3. Beginning /\ Blockwise /\ HeaderTaken /\ MBegin /\ MBlocks /\ "stall" \notin mishap' /\ ~Cancel
    BY <1>2, NothingNew
  <1>4. CASE Asked
    <2>1. /\ pc \in {"offer", "C", "data C"} /\ up # << >> /\ Head(up) = "C" /\ pc' = "ack"
          /\ blk' = (IF pc = "data C" THEN 1 ELSE 0) /\ tries' = 1 /\ Send(Frame(blk'))
          /\ UNCHANGED <<rate, switched, ub, ubRate, back, hits>>
      BY <1>4 DEF Asked, Hears, SendBlock, uboot, budget
    <2>2. down = << >>
      BY <1>3, <2>1, LineFree DEF HeaderTaken
    <2>3. up # <<"ENTER">>
      <3>1. Head(<<"ENTER">>) = "ENTER" /\ Head(up) = "C"
        BY <2>1, One
      <3> QED
        BY <3>1
    <2>4. /\ ub \in {"open", "data"} /\ Listening /\ (pc = "data C" => ub = "data")
      BY <1>3, <2>1, <2>2, <2>3 DEF MBegin, MBlocks
    <2>5. down' # << >>
      <3>1. down' = Append(<< >>, Frame(blk)')
        BY <2>1, <2>2 DEF Send, Frame
      <3> QED
        BY <3>1, Literals
    <2>6. hits' >= tries' - 1
      <3>1. hits' \in Nat /\ tries' = 1
        BY <1>0, <2>1
      <3> QED
        BY <3>1, FirstAttempt
    <2>7. blk' > 0 => pc = "data C"
      <3>1. pc # "data C" => blk' = 0
        BY <2>1
      <3>2. 0 \in Nat
        OBVIOUS
      <3>3. ~(0 > 0)
        BY <3>2, NoLater
      <3> QED
        BY <3>1, <3>3
    <2>8. Listening'
      BY <2>1, <2>4 DEF Listening
    <2> QED
      BY <2>1, <2>4, <2>5, <2>6, <2>7, <2>8 DEF MBlocks
  <1>5. CASE Acked
    <2>1. /\ pc = "ack" /\ up # << >> /\ Head(up) = "ACK"
          /\ UNCHANGED <<rate, switched, ub, ubRate, back, hits>>
          /\ \/ blk = 0 /\ pc' = "data C"
             \/ blk \in 1 .. Blocks - 1 /\ UNCHANGED pc /\ SendBlock(blk + 1)
             \/ pc' = "EOT"
      BY <1>5 DEF Acked, IsAck, uboot, budget
    <2>2. "ACK" \in On(up)
      BY <1>0, <2>1, HeardOn
    <2>3. down = << >> /\ ub = "data" /\ Listening /\ Listening'
      BY <1>3, <2>1, <2>2 DEF Blockwise, MBlocks, Listening
    <2>4. CASE pc' = "data C"
      BY <2>1, <2>3, <2>4 DEF MBlocks
    <2>5. CASE pc' = "ack"
      <3>1. tries' = 1 /\ down' = Append(<< >>, Frame(blk + 1))
        BY <2>1, <2>3, <2>5 DEF SendBlock, Send
      <3>2. down' # << >>
        BY <3>1, Literals
      <3>3. hits' >= tries' - 1
        <4>1. hits' \in Nat /\ tries' = 1
          BY <1>0, <2>1, <3>1
        <4> QED
          BY <4>1, FirstAttempt
      <3> QED
        BY <2>1, <2>3, <2>5, <3>2, <3>3 DEF MBlocks
    <2> QED
      BY <2>4, <2>5
  <1>6. CASE Resend
    <2>1. /\ pc = "ack" /\ UNCHANGED <<pc, rate, switched, blk, ub, ubRate, back, hits>> /\ Send(Frame(blk))
          /\ tries' = tries + 1
          /\ \/ up # << >> /\ Head(up) = "C"
             \/ Silence
      BY <1>6 DEF Resend, Again, AgainAnswered, uboot, budget
    <2>2. ub \in {"open", "data"} /\ ubRate = rate
      BY <1>3, <2>1 DEF MBlocks, Listening
    <2>3. up # << >> /\ Head(up) = "C"
      BY <2>1, <2>2, NeverSilent
    <2>4. up \in Answers0
      BY <1>3, <2>1 DEF Blockwise, Answers0
    <2>5. "ACK" \notin On(up)
      BY <2>3, <2>4, AnswersTo, WithAck
    <2>6. down = << >>
      BY <1>3, <2>1, <2>2, <2>3 DEF Blockwise
    <2>7. hits >= tries
      BY <1>3, <2>1, <2>5, <2>6 DEF MBlocks
    <2>8. hits' >= tries' - 1
      BY <1>0, <2>1, <2>7
    <2>9. down' # << >>
      <3>1. down' = Append(<< >>, Frame(blk))
        BY <2>1, <2>6 DEF Send
      <3> QED
        BY <3>1, Literals
    <2> QED
      BY <1>3, <2>1, <2>8, <2>9 DEF MBlocks, Listening
  <1>7. CASE Skip
    <2>1. /\ UNCHANGED <<pc, rate, switched, blk, tries, down, ub, ubRate, back, hits>>
          /\ up # << >> /\ Head(up) \notin Wanted
      BY <1>7 DEF Skip, script, uboot, budget
    <2>2. pc = "ack" => Head(up) \in {"ACK", "C", "CAN"}
      <3>1. pc = "ack" => up \in Answers0
        BY <1>3 DEF Blockwise, Answers0
      <3> QED
        BY <2>1, <3>1, AnswersTo
    <2>3. pc # "ack"
      BY <2>1, <2>2 DEF Wanted
    <2> QED
      BY <1>3, <2>1, <2>3 DEF MBlocks, Listening
  <1>8. CASE NoiseUp \/ NoiseDown
    <2>1. /\ UNCHANGED <<pc, rate, switched, blk, tries, ub, ubRate, back>> /\ hits' = hits + 1
      BY <1>8 DEF NoiseUp, NoiseDown, Spend, script, uboot
    <2>2. pc = "ack" => hits' >= tries' - 1 /\ hits' >= tries'
      <3>1. pc = "ack" => hits >= tries - 1
        BY <1>3 DEF MBlocks
      <3> QED
        BY <1>0, <2>1, <3>1
    <2> QED
      BY <1>3, <2>1, <2>2 DEF MBlocks, Listening
  <1>9. CASE UBoot
    <2>1. UNCHANGED <<script, hits>> /\ Delivers
      BY <1>9, Apart DEF UBoot, Prompt, Enter, Open, Data, Eof, Esc, Garbled, Clear, Reads, Delivers, budget
    <2>2. pc = "ack" /\ UNCHANGED <<pc, rate, switched, blk, tries>>
      BY <1>3, <2>1 DEF script, HeaderTaken, Delivers
    <2>3. ub \in {"open", "data"} /\ ubRate = rate /\ (blk > 0 => ub = "data") /\ Listening
          /\ hits >= tries - 1
      BY <1>3, <2>2 DEF MBlocks, Listening
    <2>4. Got[3] = rate /\ up = << >> /\ Got = Frame(blk) /\ Got[2] = blk /\ Got[1] = "block"
      BY <1>3, <2>1, <2>2, <2>3, ReadsBlock
    <2>5. Open \/ Data
      BY <1>9, <2>3, <2>4 DEF UBoot, Prompt, Enter, Eof, Esc, Garbled
    <2>6. CASE Data
      <3>1. up' = <<"ACK">> /\ UNCHANGED <<ub, ubRate, back>> /\ ub = "data"
        BY <1>3, <2>2, <2>6, DataDoes, HeaderKnown
      <3>2. "ACK" \in On(up')
        BY <3>1, One
      <3> QED
        BY <2>1, <2>2, <2>3, <3>1, <3>2 DEF MBlocks, Listening
    <2>7. CASE Open
      <3>1. blk = 0
        <4>1. ~(blk > 0)
          BY <2>3, <2>7 DEF Open
        <4>2. blk \in Nat
          BY LineFree
        <4> QED
          BY <4>1, <4>2, NoLater
      <3>2. ub' = "data" /\ UNCHANGED <<ubRate, back>> /\ (Says(<<"ACK">>) \/ Says(<<"ACK", "C">>))
        BY <2>4, <2>7, <3>1 DEF Open
      <3>3. "ACK" \in On(up')
        <4>1. "ACK" \in Bytes /\ "C" \in Bytes
          BY DEF Bytes
        <4>2. CASE Says(<<"ACK">>)
          BY <1>0, <4>1, <4>2, SaysOne
        <4>3. CASE Says(<<"ACK", "C">>)
          BY <1>0, <4>1, <4>3, SaysTwo
        <4> QED
          BY <3>2, <4>2, <4>3
      <3> QED
        BY <2>1, <2>2, <2>3, <3>2, <3>3 DEF MBlocks, Listening
    <2> QED
      BY <2>5, <2>6, <2>7
  <1>10. CASE UbTimeout
    <2>1. /\ ub \in {"open", "data", "eof"} /\ (ub # "eof" => UNCHANGED uboot) /\ UNCHANGED <<script, down>>
          /\ down = << >> /\ up = << >>
      BY <1>3, <1>10, AsksInTime
    <2>2. UNCHANGED <<pc, rate, switched, blk, tries, hits>>
      BY <1>10, <2>1 DEF UbTimeout, script
    <2>3. UNCHANGED <<ub, ubRate, back>>
      BY <1>3, <2>1, <2>2 DEF Blockwise, HeaderTaken, uboot
    <2>4. "ACK" \notin On(up)
      BY <2>1, OnEmpty
    <2> QED
      BY <1>3, <2>1, <2>2, <2>3, <2>4 DEF MBlocks, Listening
  <1>11. CASE UbGivesUp
    BY <1>11 DEF UbGivesUp, script
  <1>12. CASE TakeOffer \/ NotAcknowledged \/ Cancelled \/ Eot \/ Escape \/ EscapeStd \/ TypeCrc \/ Sum
    BY <1>12 DEF TakeOffer, NotAcknowledged, Cancelled, Eot, Escape, EscapeStd, TypeCrc, Sum
  <1>13. CASE NoAnswer \/ Rerun \/ Look \/ GiveUp \/ ResetBoard \/ PowerCycle
    BY <1>13 DEF NoAnswer, Rerun, Look, GiveUp, ResetBoard, PowerCycle
  <1>14. CASE \E b \in BOOLEAN : StartRun(b)
    BY <1>14 DEF StartRun
  <1> QED
    BY Steps, <1>2, <1>3, <1>4, <1>5, <1>6, <1>7, <1>8, <1>9, <1>10, <1>11, <1>12, <1>13, <1>14 DEF UBoot

\* The file has ended for U-Boot too.
LEMMA FileEnds ==
  ASSUME Types, EndOfFile("ACK"), back = switched, ubRate = rate, UNCHANGED <<rate, switched>>
  PROVE  Over' /\ UNCHANGED <<back, ram>>
  <1>1. back \in BOOLEAN
    BY DEF Types, TypeOK
  <1>2. UNCHANGED <<back, ram>>
    BY DEF EndOfFile
  <1>3. CASE back
    BY <1>2, <1>3 DEF EndOfFile, Over
  <1>4. CASE ~back
    BY <1>2, <1>4 DEF EndOfFile, Over
  <1> QED
    BY <1>1, <1>2, <1>3, <1>4

\* An EOT is read, in whatever state U-Boot is in by then.
LEMMA EotRead ==
  ASSUME Base, UBoot, pc \in {"second EOT", "after"}, back = switched,
         Over \/ (ub \in {"data", "eof"} /\ ubRate = rate)
  PROVE  /\ down' = << >> /\ down # << >> /\ UNCHANGED <<script, ram, back>>
         /\ ub = "data" => ub' = "eof" /\ UNCHANGED ubRate
         /\ ub # "data" => Over'
  <1>1. Delivers /\ UNCHANGED script
    BY Apart DEF UBoot, Prompt, Enter, Open, Data, Eof, Esc, Garbled, Clear, Reads, Delivers
  <1>2. Got = Type("eot", rate) /\ down' = << >>
    BY <1>1, GotIs
  <1>3. Got[1] = "eot" /\ Got[3] = rate
    BY <1>2, TypeParts
  <1>4. UNCHANGED <<rate, switched>>
    BY <1>1 DEF script
  <1>5. ub \in {"data", "eof", "esc", "prompt"}
    BY DEF Over
  <1>6. CASE ub = "data"
    <2>1. ubRate = rate
      BY <1>6 DEF Over
    <2>2. Data
      BY <1>3, <1>6, <2>1 DEF UBoot, Prompt, Enter, Open, Eof, Esc, Garbled
    <2>3. ub' = "eof" /\ UNCHANGED <<ram, ubRate, back>>
      BY <1>3, <2>2 DEF Data
    <2> QED
      BY <1>1, <1>2, <1>6, <2>3 DEF Delivers
  <1>7. CASE ub = "eof"
    <2>1. ubRate = rate
      BY <1>7 DEF Over
    <2>2. Eof
      BY <1>3, <1>7, <2>1 DEF UBoot, Prompt, Enter, Open, Data, Esc, Garbled
    <2>3. EndOfFile("ACK")
      BY <1>3, <2>2 DEF Eof
    <2> QED
      BY <1>1, <1>2, <1>4, <1>7, <2>1, <2>3, FileEnds DEF Delivers, Base
  <1>8. CASE ub = "esc"
    <2>1. Esc \/ Garbled
      BY <1>8 DEF UBoot, Prompt, Enter, Open, Data, Eof
    <2>2. UNCHANGED <<ub, ubRate, back, ram>>
      BY <1>3, <2>1 DEF Esc, Garbled, uboot
    <2> QED
      BY <1>1, <1>2, <1>4, <1>8, <2>2 DEF Delivers, Over
  <1>9. CASE ub = "prompt"
    <2>1. ubRate = rate
      BY <1>9 DEF Over
    <2>2. Prompt
      BY <1>3, <1>9, <2>1 DEF UBoot, Enter, Open, Data, Eof, Esc, Garbled
    <2>3. UNCHANGED <<ub, ubRate, back, ram>>
      BY <1>3, <2>2, PromptDoes DEF uboot
    <2> QED
      BY <1>1, <1>2, <1>4, <1>9, <2>3 DEF Delivers, Over
  <1> QED
    BY <1>5, <1>6, <1>7, <1>8, <1>9

LEMMA MEndStep ==
  ASSUME Base, Exchange, NoMishap, Next, mishap' = {}
  PROVE  MEnd'
  <1>0. Types /\ Ready /\ Telling /\ Header /\ Line
    BY DEF Base
  <1> DEFINE Late == {"EOT", "second EOT", "after", "prompt", "prompt again", "sum"}
  <1>1. CASE pc' \notin Late
    BY <1>1 DEF MEnd, Prompts
  <1> SUFFICES ASSUME pc' \in Late
               PROVE  MEnd'
    BY <1>1
  <1>2. ~TypeLoady
    BY DEF TypeLoady
  <1>3. Blockwise /\ MBlocks /\ MEnd /\ "stall" \notin mishap' /\ ~Cancel
    BY <1>2, NothingNew
  <1>4. CASE Acked
    <2>1. /\ pc = "ack" /\ pc' = "EOT" /\ blk = Blocks /\ UNCHANGED down /\ up # << >> /\ Head(up) = "ACK"
          /\ UNCHANGED <<rate, switched, ub, ubRate, back, ram>>
      BY <1>4 DEF Acked, IsAck, uboot
    <2>2. "ACK" \in On(up)
      BY <1>0, <2>1, HeardOn
    <2>3. down = << >> /\ Len(ram) = Blocks /\ ram = [i \in 1 .. Len(ram) |-> i]
      BY <1>3, <2>1, <2>2 DEF Blockwise
    <2>4. ub = "data" /\ ubRate = rate /\ back = switched
      BY <1>3, <2>1, <2>2 DEF Blockwise, MBlocks, Listening
    <2>5. ram = Full
      BY <2>3 DEF Full
    <2> QED
      BY <2>1, <2>3, <2>4, <2>5 DEF MEnd, Prompts, Full
  <1>5. CASE Eot
    <2>1. /\ down = << >> /\ Send(Type("eot", rate)) /\ UNCHANGED <<rate, switched, ub, ubRate, back, ram>>
          /\ \/ pc = "EOT" /\ pc' = "second EOT"
             \/ pc = "second EOT" /\ pc' = "after"
      BY <1>5 DEF Eot, uboot
    <2>2. down' # << >>
      <3>1. down' = Append(<< >>, Type("eot", rate))
        BY <2>1 DEF Send
      <3> QED
        BY <3>1, Literals
    <2>3. ram = Full /\ back = switched
      BY <1>3, <2>1 DEF MEnd
    <2>4. pc = "EOT" => ub = "data" /\ ubRate = rate
      BY <1>3 DEF MEnd
    <2>5. pc = "second EOT" => Over \/ (ub = "eof" /\ ubRate = rate)
      BY <1>3, <2>1 DEF MEnd
    <2> QED
      BY <2>1, <2>2, <2>3, <2>4, <2>5 DEF MEnd, Over, Prompts, Full
  <1>6. CASE Escape \/ EscapeStd \/ TypeCrc
    <2>1. pc \in {"after"} \cup Prompts /\ pc' \in Prompts \cup {"sum"} /\ UNCHANGED ram
      BY <1>6 DEF Escape, EscapeStd, TypeCrc, Prompts, uboot
    <2> QED
      BY <1>3, <2>1 DEF MEnd, Prompts, Full
  <1>7. CASE Skip \/ NoiseUp
    <2>1. UNCHANGED <<pc, rate, switched, down, ub, ubRate, back, ram>>
      BY <1>7, Aside DEF script, uboot
    <2> QED
      BY <1>3, <2>1 DEF MEnd, Over, Full
  <1>8. CASE UBoot
    <2>1. UNCHANGED <<script, pc, rate, switched>> /\ Delivers
      BY <1>8, Apart DEF UBoot, Prompt, Enter, Open, Data, Eof, Esc, Garbled, Clear, Reads, Delivers, script
    <2>2. CASE pc = "EOT"
      BY <1>3, <2>1, <2>2 DEF MEnd, Delivers
    <2>3. CASE pc = "second EOT"
      <3>1. ub = "data" /\ ubRate = rate /\ back = switched /\ ram = Full
        BY <1>3, <2>1, <2>3 DEF MEnd, Delivers
      <3>2. down' = << >> /\ UNCHANGED <<ram, back, ubRate>> /\ ub' = "eof"
        BY <1>8, <2>3, <3>1, EotRead
      <3> QED
        BY <2>1, <2>3, <3>1, <3>2 DEF MEnd, Over, Prompts, Full
    <2>4. CASE pc = "after"
      <3>1. (Over \/ (ub = "eof" /\ ubRate = rate)) /\ back = switched /\ ram = Full
        BY <1>3, <2>4 DEF MEnd
      <3>2. ub # "data"
        BY <3>1 DEF Over
      <3>3. Over' /\ UNCHANGED <<ram, back>>
        BY <1>8, <2>4, <3>1, <3>2, EotRead
      <3> QED
        BY <2>1, <2>4, <3>1, <3>3 DEF MEnd, Prompts, Full
    <2>5. CASE pc \in Prompts \cup {"sum"}
      <3>1. Got[1] \in {"esc", "cr", "crc"}
        <4>1. CASE pc \in Prompts
          <5>1. CASE Got = Type("cr", rate)
            BY <5>1, TypeParts
          <5>2. CASE Got = Type("esc", rate)
            BY <5>2, TypeParts
          <5> QED
            BY <2>1, <4>1, <5>1, <5>2, GotIs
        <4>2. CASE pc = "sum"
          <5>1. Got = Type("crc", rate)
            BY <2>1, <4>2, GotIs
          <5> QED
            BY <5>1, TypeParts
        <4> QED
          BY <2>5, <4>1, <4>2
      <3>2. UNCHANGED ram
        <4>1. CASE Prompt
          BY <3>1, <4>1, PromptDoes DEF uboot
        <4>2. CASE ~Prompt
          BY <1>8, <3>1, <4>2 DEF UBoot, Enter, Open, Data, Eof, EndOfFile, Esc, Garbled, uboot
        <4> QED
          BY <4>1, <4>2
      <3> QED
        BY <1>3, <2>1, <2>5, <3>2 DEF MEnd, Prompts, Full
    <2> QED
      BY <2>1, <2>2, <2>3, <2>4, <2>5 DEF Prompts
  <1>9. CASE UbTimeout
    <2>1. /\ ub \in {"open", "data", "eof"} /\ (ub # "eof" => UNCHANGED uboot) /\ UNCHANGED <<script, down>>
          /\ down = << >> /\ up = << >>
      BY <1>3, <1>9, AsksInTime
    <2>2. UNCHANGED <<pc, rate, switched>>
      BY <2>1 DEF script
    <2>3. CASE ub # "eof"
      BY <1>3, <2>1, <2>2, <2>3 DEF MEnd, Over, Full, uboot
    <2>4. CASE ub = "eof"
      <3>1. EndOfFile("ACK")
        BY <1>9, <2>4 DEF UbTimeout
      <3>2. UNCHANGED ram
        BY <3>1 DEF EndOfFile
      <3>3. CASE pc = "second EOT"
        <4>1. ubRate = rate /\ back = switched
          BY <1>3, <2>1, <2>4, <3>3 DEF MEnd, Over
        <4>2. Over' /\ UNCHANGED back
          BY <1>0, <2>2, <3>1, <4>1, FileEnds
        <4> QED
          BY <1>3, <2>1, <2>2, <3>2, <3>3, <4>1, <4>2 DEF MEnd, Prompts, Full
      <3>4. CASE pc \in {"EOT", "after"}
        BY <1>3, <2>1, <2>4, <3>4 DEF MEnd, Over
      <3>5. CASE pc \in Prompts \cup {"sum"}
        BY <1>3, <2>2, <3>2, <3>5 DEF MEnd, Prompts, Full
      <3> QED
        BY <2>2, <3>3, <3>4, <3>5 DEF Prompts
    <2> QED
      BY <2>3, <2>4
  <1>10. CASE UbGivesUp
    <2>1. pc \in Prompts \cup {"sum"} \/ pc \notin Late
      BY <1>10 DEF UbGivesUp, Prompts
    <2>2. UNCHANGED <<pc, ram>>
      BY <1>10 DEF UbGivesUp, script
    <2> QED
      BY <1>3, <2>1, <2>2 DEF MEnd, Prompts, Full
  <1>11. CASE NoiseDown
    <2>1. Head(down)[1] = "block" /\ Delivers /\ UNCHANGED pc
      BY <1>11 DEF NoiseDown, Delivers, script
    <2>2. pc \notin Late
      <3>1. pc \in {"second EOT", "after"} => Got = Type("eot", rate)
        BY <2>1, GotIs
      <3>2. pc \in Prompts => Got = Type("cr", rate) \/ Got = Type("esc", rate)
        BY <2>1, GotIs
      <3>3. pc = "sum" => Got = Type("crc", rate)
        BY <2>1, GotIs
      <3>4. pc # "EOT"
        BY <1>3, <2>1 DEF MEnd, Delivers
      <3>5. Got[1] = "block"
        BY <2>1 DEF Got
      <3>6. \A k : Got = Type(k, rate) => k = "block"
        BY <3>5, TypeParts
      <3> QED
        BY <3>1, <3>2, <3>3, <3>4, <3>6 DEF Prompts
    <2> QED
      BY <2>1, <2>2
  <1>12. CASE TakeOffer \/ Asked \/ Resend \/ NotAcknowledged \/ Cancelled \/ Sum \/ NoAnswer \/ Rerun \/ Look
    BY <1>12
    DEF TakeOffer, Asked, Resend, Again, NotAcknowledged, Cancelled, Sum, NoAnswer, Rerun, Look
  <1>13. CASE GiveUp \/ ResetBoard \/ PowerCycle
    BY <1>13 DEF GiveUp, ResetBoard, PowerCycle
  <1>14. CASE \E b \in BOOLEAN : StartRun(b)
    BY <1>14 DEF StartRun
  <1> QED
    BY Steps, <1>2, <1>3, <1>4, <1>5, <1>6, <1>7, <1>8, <1>9, <1>10, <1>11, <1>12, <1>13, <1>14 DEF UBoot

LEMMA Lengths == \A a : Len(<< >>) # 2 /\ Len(<<a>>) # 2 /\ <<a>> # << >>
  <1> TAKE a
  <1>1. Len(<< >>) = 0
    OBVIOUS
  <1>2. Len(<<a>>) = 1
    OBVIOUS
  <1>3. <<a>> # << >>
    OBVIOUS
  <1> QED
    BY <1>1, <1>2, <1>3

\* ESC and CR, where nothing was on the line.
LEMMA BothTyped == ASSUME down = << >>, NEW r, down' = down \o <<Type("esc", r), Type("cr", r)>>
                   PROVE  down' = <<Type("esc", r), Type("cr", r)>>
  <1>1. \A e, f : << >> \o <<e, f>> = <<e, f>>
    OBVIOUS
  <1> QED
    BY <1>1

\* What is typed for the prompt, as it is read.
LEMMA PromptTyped ==
  ASSUME Base, UBoot, pc \in Prompts \cup {"sum"}
  PROVE  /\ Delivers /\ UNCHANGED <<script, pc, rate>> /\ Got[3] = rate
         /\ pc \in Prompts => \/ Got[1] = "cr" /\ down = Typed("cr") /\ down' = << >>
                              \/ Got[1] = "esc" /\ Len(down) = 2 /\ down' = Typed("cr")
         /\ pc = "sum" => Got[1] = "crc" /\ down' = << >>
         /\ ubRate # rate => UNCHANGED <<uboot, up>>
         /\ ubRate = rate => Prompt \/ Enter \/ Open \/ Data \/ Eof \/ Esc
  <1>1. Delivers /\ UNCHANGED script
    BY Apart DEF UBoot, Prompt, Enter, Open, Data, Eof, Esc, Garbled, Clear, Reads, Delivers
  <1>2. Got[3] = rate
    BY <1>1, GotRate
  <1>3. pc \in Prompts => \/ Got[1] = "cr" /\ down = Typed("cr") /\ down' = << >>
                          \/ Got[1] = "esc" /\ Len(down) = 2 /\ down' = Typed("cr")
    <2>1. CASE pc \in Prompts /\ Got = Type("cr", rate) /\ down = Typed("cr") /\ down' = << >>
      BY <2>1, TypeParts
    <2>2. CASE /\ pc \in Prompts /\ Got = Type("esc", rate) /\ down' = Typed("cr")
               /\ down = <<Type("esc", rate), Type("cr", rate)>>
      <3>1. \A a, b : Len(<<a, b>>) = 2
        OBVIOUS
      <3> QED
        BY <2>2, <3>1, TypeParts
    <2> QED
      BY <1>1, <2>1, <2>2, GotIs
  <1>4. pc = "sum" => Got[1] = "crc" /\ down' = << >>
    <2>1. pc = "sum" => Got = Type("crc", rate) /\ down' = << >>
      BY <1>1, GotIs
    <2> QED
      BY <2>1, TypeParts
  <1>5. ubRate # rate => UNCHANGED <<uboot, up>>
    BY <1>2 DEF UBoot, Prompt, Enter, Open, Data, Eof, Esc, Garbled, Clear
  <1>6. ubRate = rate => Prompt \/ Enter \/ Open \/ Data \/ Eof \/ Esc
    BY <1>2 DEF UBoot, Garbled
  <1> QED
    BY <1>1, <1>2, <1>3, <1>4, <1>5, <1>6 DEF script

LEMMA MPromptStep ==
  ASSUME Base, Exchange, NoMishap, Next, mishap' = {}
  PROVE  MPrompt'
  <1>0. Types /\ Ready /\ Telling /\ Line
    BY DEF Base
  <1> DEFINE Late == {"prompt", "prompt again", "sum"}
  <1>1. CASE pc' \notin Late
    BY <1>1 DEF MPrompt, Prompts
  <1> SUFFICES ASSUME pc' \in Late
               PROVE  MPrompt'
    BY <1>1
  <1>2. ~TypeLoady
    BY DEF TypeLoady
  <1>3. MEnd /\ MPrompt /\ "stall" \notin mishap' /\ ~Cancel
    BY <1>2, NothingNew
  <1>4. CASE Escape
    <2>1. /\ pc = "after" /\ pc' = "prompt" /\ switched /\ down = << >>
          /\ down' = down \o <<Type("esc", rate), Type("cr", rate)>>
          /\ UNCHANGED <<rate, ub, ubRate>>
      BY <1>4 DEF Escape, EscAndPrompt, uboot
    <2>2. ub = "esc" /\ ubRate \in {Std, rate}
      BY <1>3, <2>1 DEF MEnd, Over
    <2>3. down' # << >> /\ down' # Typed("cr")
      <3>1. down' = <<Type("esc", rate), Type("cr", rate)>>
        BY <2>1, Literals
      <3>2. \A a, b, c : <<a, b>> # << >> /\ <<a, b>> # <<c>>
        BY Literals
      <3> QED
        BY <3>1, <3>2 DEF Typed
    <2> QED
      BY <2>1, <2>2, <2>3 DEF MPrompt, Prompts, Typed
  <1>5. CASE EscapeStd
    <2>1. /\ pc = "prompt" /\ pc' = "prompt again" /\ rate' = Std /\ down = << >> /\ up = << >>
          /\ down' = down \o <<Type("esc", Std), Type("cr", Std)>>
          /\ UNCHANGED <<ub, ubRate>>
      BY <1>5 DEF EscapeStd, EscAndPrompt, Quiet, uboot
    <2>2. "=>" \notin On(up)
      BY <2>1, OnEmpty
    <2>3. ub = "esc" /\ ubRate = Std
      BY <1>3, <2>1, <2>2 DEF MPrompt, Prompts
    <2>4. down' # << >> /\ down' # <<Type("cr", Std)>>
      <3>1. down' = <<Type("esc", Std), Type("cr", Std)>>
        BY <2>1, BothTyped
      <3>2. \A a, b, c : <<a, b>> # << >> /\ <<a, b>> # <<c>>
        BY Literals
      <3> QED
        BY <3>1, <3>2
    <2> QED
      BY <2>1, <2>3, <2>4 DEF MPrompt, Prompts, Typed
  <1>6. CASE TypeCrc
    <2>1. /\ pc' = "sum" /\ up' = << >> /\ Send(Type("crc", rate)) /\ UNCHANGED <<rate, ub, ubRate>>
          /\ \/ pc = "after" /\ ~switched /\ down = << >>
             \/ pc \in Prompts /\ up # << >> /\ Head(up) = "=>"
      BY <1>6 DEF TypeCrc, Hears, Prompts, uboot
    <2>2. ub = "prompt" /\ ubRate = rate /\ down = << >>
      <3>1. CASE pc = "after" /\ ~switched /\ down = << >>
        BY <1>3, <3>1 DEF MEnd, Over
      <3>2. CASE pc \in Prompts /\ up # << >> /\ Head(up) = "=>"
        BY <1>0, <3>2, HeardOn DEF Telling
      <3> QED
        BY <2>1, <3>1, <3>2
    <2>3. down' # << >>
      <3>1. down' = Append(<< >>, Type("crc", rate))
        BY <2>1, <2>2 DEF Send
      <3> QED
        BY <3>1, Literals
    <2>4. On(up') = {}
      BY <2>1, OnEmpty
    <2> QED
      BY <2>1, <2>2, <2>3, <2>4 DEF MPrompt, Prompts
  <1>7. CASE Skip \/ NoiseUp
    <2>1. UNCHANGED <<pc, rate, down, ub, ubRate>> /\ up # << >> /\ up' = Tail(up)
      BY <1>7, Aside DEF script, uboot, Consumes
    <2>2. On(up) = {Head(up)} \cup On(up')
      BY <1>0, <2>1, Takes
    <2>3. Head(up) \notin (IF pc = "sum" THEN {"good", "bad"} ELSE {"=>"})
      BY <1>7, <2>1 DEF Skip, Wanted, NoiseUp
    <2>4. /\ pc \in Prompts /\ "=>" \in On(up) => "=>" \in On(up')
          /\ pc = "sum" /\ "good" \in On(up) => "good" \in On(up')
          /\ On(up') \subseteq On(up)
      BY <2>2, <2>3 DEF Prompts
    <2> QED
      BY <1>3, <2>1, <2>4 DEF MPrompt, Prompts, Typed
  <1>8. CASE UBoot
    <2>1. UNCHANGED <<script, pc, rate>>
      BY <1>8, Apart DEF UBoot, script
    <2>2. /\ Delivers /\ Got[3] = rate
          /\ pc \in Prompts => \/ Got[1] = "cr" /\ down = Typed("cr") /\ down' = << >>
                               \/ Got[1] = "esc" /\ Len(down) = 2 /\ down' = Typed("cr")
          /\ pc = "sum" => Got[1] = "crc" /\ down' = << >>
          /\ ubRate # rate => UNCHANGED <<uboot, up>>
          /\ ubRate = rate => Prompt \/ Enter \/ Open \/ Data \/ Eof \/ Esc
      BY <1>8, <2>1, PromptTyped DEF Prompts
    <2>3. CASE pc \in Prompts /\ ubRate # rate
      BY <1>3, <2>1, <2>2, <2>3 DEF MPrompt, Prompts, uboot
    <2>4. CASE pc \in Prompts /\ ubRate = rate /\ Got[1] = "cr" /\ down = Typed("cr") /\ down' = << >>
      <3>1. ub = "prompt"
        BY <1>3, <2>4 DEF MPrompt
      <3>2. Prompt
        BY <2>2, <2>4, <3>1 DEF Enter, Open, Data, Eof, Esc
      <3>3. Says(<<"=>">>) /\ UNCHANGED <<ub, ubRate>>
        BY <2>4, <3>2, PromptDoes DEF uboot
      <3>4. "=>" \in On(up')
        BY <1>0, <3>3, SaysOne DEF Bytes
      <3>5. down' # Typed("cr")' /\ Len(down') # 2
        <4>1. Len(<< >>) # 2 /\ \A a : << >> # <<a>>
          BY Lengths
        <4>2. down' = << >>
          BY <2>4
        <4> QED
          BY <4>1, <4>2 DEF Typed
      <3> QED
        BY <2>1, <2>4, <3>1, <3>3, <3>4, <3>5 DEF MPrompt, Prompts
    <2>5. CASE pc \in Prompts /\ ubRate = rate /\ Got[1] = "esc" /\ Len(down) = 2 /\ down' = Typed("cr")
      <3>1. ub = "esc"
        BY <1>3, <2>5 DEF MPrompt
      <3>2. Esc
        BY <2>2, <2>5, <3>1 DEF Enter, Open, Data, Eof, Prompt
      <3>3. ub' = "prompt" /\ UNCHANGED ubRate
        BY <2>5, <3>2 DEF Esc
      <3>4. down' # << >> /\ Len(down') # 2
        <4>1. \A a : Len(<<a>>) # 2 /\ <<a>> # << >>
          BY Lengths
        <4>2. down' = <<Type("cr", rate)>>
          BY <2>5 DEF Typed
        <4> QED
          BY <4>1, <4>2
      <3> QED
        BY <2>1, <2>5, <3>3, <3>4 DEF MPrompt, Prompts
    <2>6. CASE pc = "sum"
      <3>1. ub = "prompt" /\ ubRate = rate /\ "bad" \notin On(up) /\ ram = Full
        BY <1>3, <2>6 DEF MPrompt, MEnd
      <3>2. Prompt
        BY <2>2, <3>1 DEF Enter, Open, Data, Eof, Esc
      <3>3. Says(<<"good">>) /\ UNCHANGED <<ub, ubRate>>
        BY <2>2, <2>6, <3>1, <3>2, PromptDoes DEF uboot
      <3>4. On(up') = On(up) \cup {"good"}
        BY <1>0, <3>3, SaysOne DEF Bytes
      <3> QED
        BY <2>1, <2>6, <3>1, <3>3, <3>4 DEF MPrompt, Prompts
    <2> QED
      BY <2>1, <2>2, <2>3, <2>4, <2>5, <2>6 DEF Prompts
  <1>9. CASE UbTimeout \/ UbGivesUp
    <2>1. /\ ub \in {"open", "data", "eof"} /\ down = << >> /\ UNCHANGED pc
      BY <1>9 DEF UbTimeout, UbGivesUp, script
    <2> QED
      BY <1>3, <2>1 DEF MPrompt, Prompts
  <1>10. CASE NoiseDown
    <2>1. Head(down)[1] = "block" /\ Delivers /\ UNCHANGED pc
      BY <1>10 DEF NoiseDown, Delivers, script
    <2>2. Got[1] = "block"
      BY <2>1 DEF Got
    <2>3. \A k : Got = Type(k, rate) => k = "block"
      BY <2>2, TypeParts
    <2>4. pc \in Prompts => Got = Type("cr", rate) \/ Got = Type("esc", rate)
      BY <2>1, GotIs
    <2>5. pc = "sum" => Got = Type("crc", rate)
      BY <2>1, GotIs
    <2> QED
      BY <2>1, <2>3, <2>4, <2>5 DEF Prompts
  <1>11. CASE NoAnswer
    BY <1>11 DEF NoAnswer
  <1>12. CASE TakeOffer \/ Asked \/ Acked \/ Resend \/ NotAcknowledged \/ Cancelled \/ Eot \/ Sum \/ Rerun
    BY <1>12 DEF TakeOffer, Asked, Acked, Resend, Again, NotAcknowledged, Cancelled, Eot, Sum, Rerun
  <1>13. CASE Look \/ GiveUp \/ ResetBoard \/ PowerCycle
    BY <1>13 DEF Look, GiveUp, ResetBoard, PowerCycle
  <1>14. CASE \E b \in BOOLEAN : StartRun(b)
    BY <1>14 DEF StartRun
  <1> QED
    BY Steps, <1>2, <1>3, <1>4, <1>5, <1>6, <1>7, <1>8, <1>9, <1>10, <1>11, <1>12, <1>13, <1>14 DEF UBoot

LEMMA NoMishapStep == Base /\ Exchange /\ NoMishap /\ [Next]_vars => NoMishap'
  <1> SUFFICES ASSUME Base, Exchange, NoMishap, [Next]_vars PROVE NoMishap'
    OBVIOUS
  <1>1. CASE Next
    BY <1>1, MBeginStep, MBlocksStep, MEndStep, MPromptStep DEF NoMishap
  <1>2. CASE UNCHANGED vars
    <2> USE <1>2 DEF vars, script, uboot, budget, Listening, Typed, Over, Full
    <2>1. mishap' = {} => mishap = {}
      OBVIOUS
    <2>2. MBegin => MBegin'
      BY DEF MBegin
    <2>3. MBlocks => MBlocks'
      BY DEF MBlocks
    <2>4. MEnd => MEnd'
      BY DEF MEnd
    <2>5. MPrompt => MPrompt'
      BY DEF MPrompt
    <2> QED
      BY <2>1, <2>2, <2>3, <2>4, <2>5 DEF NoMishap
  <1> QED
    BY <1>1, <1>2

LEMMA NoMishapInvariant == Spec => [](Base /\ Exchange /\ NoMishap)
  <1>1. Init => NoMishap
    BY DEF Init, NoMishap, MBegin, MBlocks, MEnd, MPrompt, Prompts
  <1>2. Init => Exchange
    BY DEF Init, Exchange, Beginning, Blockwise, HeaderTaken
  <1> QED
    BY <1>1, <1>2, BaseInit, BaseStep, ExchangeStep, NoMishapStep, PTL DEF Spec

\* The script is asked for a block again only where noise took the block or its answer.
LEMMA AgainForNoise ==
  ASSUME Base, Blockwise, MBlocks, Again
  PROVE  hits >= tries
  <1>1. pc = "ack" /\ ub \in {"open", "data"} /\ ubRate = rate
    BY DEF Again, MBlocks, Listening
  <1>2. up # << >> /\ Head(up) = "C"
    BY <1>1, NeverSilent DEF Again, AgainAnswered
  <1>3. up \in Answers0
    BY <1>1 DEF Blockwise, Answers0
  <1>4. "ACK" \notin On(up)
    BY <1>2, <1>3, AnswersTo, WithAck
  <1>5. down = << >>
    BY <1>1, <1>2 DEF Blockwise
  <1> QED
    BY <1>1, <1>4, <1>5 DEF MBlocks

LEMMA OutOfAttempts == ASSUME Types, ~MayRetry, hits >= tries PROVE hits >= Tries
  <1>1. tries \in 1 .. Tries /\ hits \in 0 .. MaxNoise
    BY DEF Types, TypeOK
  <1>2. ~(tries < Tries)
    BY DEF MayRetry
  <1> QED
    BY <1>1, <1>2, LoadyAssumption

LEMMA ReasonStep == Base /\ Exchange /\ NoMishap /\ [Next]_vars => FailsForAReason
  <1> SUFFICES ASSUME Base, Exchange, NoMishap, [Next]_vars, pc' = "failed", pc \in Sending, mishap = {}
               PROVE  hits >= Tries
    BY DEF FailsForAReason
  <1>1. /\ Beginning /\ Blockwise /\ HeaderTaken /\ MBegin /\ MBlocks /\ MEnd /\ MPrompt
        /\ Types /\ Telling
    BY DEF Exchange, NoMishap, Base
  <1>2. pc # "failed" /\ Next
    BY DEF Sending, vars, script
  <1>3. CASE NotAcknowledged
    <2>1. Again /\ ~MayRetry
      BY <1>3 DEF NotAcknowledged
    <2> QED
      BY <1>1, <2>1, AgainForNoise, OutOfAttempts
  <1>4. CASE Cancelled
    <2>1. pc \in {"C", "data C", "ack"} /\ "CAN" \in On(up)
      BY <1>1, <1>4, HeardOn DEF Cancelled, Hears
    <2> QED
      BY <1>1, <2>1 DEF Beginning, Blockwise, HeaderTaken, Ended
  <1>5. CASE Sum
    <2>1. pc = "sum" /\ Head(up) \in {"good", "bad"} /\ Head(up) # "good" /\ up # << >>
      BY <1>5 DEF Sum, SumMatches
    <2>2. "bad" \in On(up)
      BY <1>1, <2>1, HeardOn
    <2> QED
      BY <1>1, <2>1, <2>2 DEF MPrompt
  <1>6. CASE NoAnswer
    <2>1. pc \in {"C", "data C", "prompt again", "sum"} /\ Silence /\ down = << >> /\ up = << >>
      BY <1>6 DEF NoAnswer, Silence, Quiet
    <2>2. On(up) = {}
      BY <2>1, OnEmpty
    <2>3. CASE pc \in {"C", "data C"}
      <3>1. ub \in {"open", "data"} /\ ubRate = rate
        BY <1>1, <2>1, <2>3 DEF MBegin, MBlocks, Listening
      <3> QED
        BY <2>1, <3>1, NeverSilent
    <2>4. CASE pc \in {"prompt again", "sum"}
      BY <1>1, <2>1, <2>2, <2>4 DEF MPrompt, Prompts
    <2> QED
      BY <2>1, <2>3, <2>4
  <1>7. CASE TypeLoady \/ TakeOffer \/ Asked \/ Acked \/ Resend \/ Skip \/ Eot \/ Escape \/ EscapeStd
    BY <1>2, <1>7
    DEF TypeLoady, TakeOffer, Asked, Acked, Resend, Again, Skip, script, Eot, Escape, EscapeStd
  <1>8. CASE TypeCrc \/ Rerun \/ Look \/ ResetBoard \/ PowerCycle \/ \E b \in BOOLEAN : StartRun(b)
    BY <1>8 DEF TypeCrc, Rerun, Look, ResetBoard, PowerCycle, StartRun
  <1>9. CASE GiveUp
    BY <1>9 DEF GiveUp, Sending
  <1>10. CASE UBoot \/ UbTimeout \/ UbGivesUp \/ NoiseDown \/ Cancel
    BY <1>2, <1>10, Apart DEF script
  <1>11. CASE NoiseUp
    BY <1>2, <1>11 DEF NoiseUp, script
  <1> QED
    BY <1>2, Steps, <1>3, <1>4, <1>5, <1>6, <1>7, <1>8, <1>9, <1>10, <1>11 DEF UBoot

(***************************************************************************)
(* An upload fails only for a reason: as many hits on the line as a block  *)
(* has attempts, a lost EOT, a cancel, or a Mac that stalled.              *)
(***************************************************************************)
THEOREM FailureHasAReason == Spec => NoNeedlessFailure
  BY NoMishapInvariant, ReasonStep, PTL DEF Spec, NoNeedlessFailure
=============================================================================
