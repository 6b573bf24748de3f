------------------------------ MODULE ConsoleProofs ------------------------------
(***************************************************************************)
(* Theorems about the two terminals, for buffers of all sizes, any client  *)
(* and any number of sessions, prints and restarts.                        *)
(***************************************************************************)
EXTENDS Console, SequenceTheorems, TLAPS

(***************************************************************************)
(* Texts.                                                                  *)
(***************************************************************************)

LEMMA ConsoleSizes ==
  /\ OutSize \in Nat /\ OutSize >= 2 /\ RxSize \in Nat /\ TxSize \in Nat /\ TxSize > 0
  /\ UartDepth \in Nat /\ UartDepth <= 2 * Done
  /\ Info \in Nat /\ Info > 0 /\ Done \in Nat /\ Done > 0
BY ConsoleAssumption

LEMMA Greets == Greeting \in Seq(Int) /\ Len(Greeting) = 2 /\ Greeting[1] = -2 /\ Greeting[2] = -3
BY DEF Greeting

(* What out_data takes of a text is a part from its beginning. *)
LEMMA FittingAppends ==
  ASSUME NEW out \in Seq(Int), Len(out) <= OutSize, NEW chars \in Seq(Int)
  PROVE  /\ Fitting(out \o chars) \in Seq(Int) /\ Len(Fitting(out \o chars)) <= OutSize
         /\ \E n \in 0..Len(chars) :
              /\ Fitting(out \o chars) = out \o SubSeq(chars, 1, n)
              /\ Len(out) + Len(chars) <= OutSize => n = Len(chars)
<1> DEFINE s == out \o chars
           room == IF Len(s) < OutSize THEN Len(s) ELSE OutSize
           n == room - Len(out)
<1>1. /\ s \in Seq(Int) /\ Len(s) = Len(out) + Len(chars)
      /\ Len(out) \in Nat /\ Len(chars) \in Nat /\ OutSize \in Nat
      /\ \A i \in 1..(Len(out) + Len(chars)) :
           s[i] = IF i <= Len(out) THEN out[i] ELSE chars[i - Len(out)]
  BY ConcatProperties, LenProperties, ConsoleSizes
<1>2. room \in 0..Len(s) /\ room <= OutSize /\ n \in 0..Len(chars) /\ room = Len(out) + n
  BY <1>1
<1>3. Fitting(s) = SubSeq(s, 1, room)
  BY DEF Fitting
<1> DEFINE t == SubSeq(s, 1, room)
           u == SubSeq(chars, 1, n)
<1>4. Len(out) + Len(chars) <= OutSize => n = Len(chars)
  BY <1>1
<1> HIDE DEF s, room, n
<1>5. t \in Seq(Int) /\ Len(t) = room /\ \A i \in 1..room : t[i] = s[i]
  <2>1. \A i \in 1..room : s[i] \in Int
    BY <1>1, <1>2, ElementOfSeq
  <2> QED BY <1>1, <1>2, <2>1, SubSeqProperties
<1>6. u \in Seq(Int) /\ Len(u) = n /\ \A i \in 1..n : u[i] = chars[i]
  <2>1. \A i \in 1..n : chars[i] \in Int
    BY <1>1, <1>2, ElementOfSeq
  <2> QED BY <1>1, <1>2, <2>1, SubSeqProperties
<1> HIDE DEF t, u
<1>7. /\ out \o u \in Seq(Int) /\ Len(out \o u) = Len(out) + n
      /\ \A i \in 1..(Len(out) + n) : (out \o u)[i] = IF i <= Len(out) THEN out[i] ELSE u[i - Len(out)]
  BY <1>6, ConcatProperties
<1>8. ASSUME NEW i \in 1..Len(t) PROVE t[i] = (out \o u)[i]
  <2>1. i \in 1..(Len(out) + n) /\ i \in 1..(Len(out) + Len(chars)) /\ t[i] = s[i]
    BY <1>1, <1>2, <1>5, <1>8
  <2>2. CASE i <= Len(out)
    BY <1>1, <1>7, <2>1, <2>2
  <2>3. CASE ~(i <= Len(out))
    <3>1. i - Len(out) \in 1..n
      <4>1. Len(out) \in Nat /\ n \in Nat /\ i \in 1..(Len(out) + n) /\ i > Len(out)
        BY <1>1, <1>2, <2>1, <2>3
      <4> QED BY <2>3, <4>1
    <3>2. u[i - Len(out)] = chars[i - Len(out)]
      BY <1>6, <3>1
    <3> QED BY <1>1, <1>7, <2>1, <2>3, <3>2
  <2> QED BY <2>2, <2>3
<1>9. t = out \o u
  BY <1>2, <1>5, <1>7, <1>8, SeqEqual
<1> QED BY <1>2, <1>3, <1>4, <1>5, <1>9 DEF t, u, s

(* A part of a text remains one when both get what is newer than all, or   *)
(* the part only the beginning of it.                                      *)
LEMMA PartGrows ==
  ASSUME NEW part \in Seq(Int), NEW whole \in Seq(Int), IsPartOf(part, whole),
         NEW p \in Nat, p > 0, \A m \in 1..Len(whole) : whole[m] < p,
         NEW chars \in {<<p>>, <<p, Return, NewLine>>}, NEW n \in 0..Len(chars)
  PROVE  IsPartOf(part \o SubSeq(chars, 1, n), whole \o chars)
<1> DEFINE u == SubSeq(chars, 1, n)
           s == part \o u
           t == whole \o chars
<1>1. /\ chars \in Seq(Int) /\ Len(chars) \in {1, 3} /\ chars[1] = p
      /\ \A i \in 2..Len(chars) : chars[i] \in Int /\ chars[i] <= 0
  <2>1. CASE chars = <<p>>
    BY <2>1
  <2>2. CASE chars = <<p, Return, NewLine>>
    <3>1. chars = <<p, -1, 0>>
      BY <2>2 DEF Return, NewLine
    <3>2. chars \in Seq(Int) /\ Len(chars) = 3 /\ chars[1] = p /\ chars[2] = -1 /\ chars[3] = 0
      BY <3>1
    <3>3. 2..Len(chars) = {2, 3}
      BY <3>2
    <3> QED BY <3>2, <3>3
  <2> QED BY <2>1, <2>2
<1>2. u \in Seq(Int) /\ Len(u) = n /\ n \in Nat /\ n <= Len(chars) /\ \A i \in 1..n : u[i] = chars[i]
  <2>1. \A i \in 1..n : chars[i] \in Int
    BY <1>1, ElementOfSeq
  <2> QED BY <1>1, <2>1, SubSeqProperties
<1> HIDE DEF u
<1>3. /\ s \in Seq(Int) /\ Len(s) = Len(part) + n /\ Len(part) \in Nat
      /\ \A i \in 1..(Len(part) + n) : s[i] = IF i <= Len(part) THEN part[i] ELSE u[i - Len(part)]
  <2>1. /\ s \in Seq(Int) /\ Len(s) = Len(part) + Len(u)
        /\ \A i \in 1..(Len(part) + Len(u)) : s[i] = IF i <= Len(part) THEN part[i] ELSE u[i - Len(part)]
    <3>1. part \in Seq(Int) /\ u \in Seq(Int)
      BY <1>2
    <3> QED BY <3>1, ConcatProperties
  <2>2. Len(part) \in Nat
    BY LenProperties
  <2> QED BY <1>2, <2>1, <2>2
<1>4. /\ t \in Seq(Int) /\ Len(t) = Len(whole) + Len(chars) /\ Len(whole) \in Nat
      /\ \A i \in 1..(Len(whole) + Len(chars)) :
           t[i] = IF i <= Len(whole) THEN whole[i] ELSE chars[i - Len(whole)]
  BY <1>1, ConcatProperties, LenProperties
<1> HIDE DEF s, t
<1>5. \A i \in 1..Len(part) : part[i] \in Int
  BY ElementOfSeq
<1>6. ASSUME NEW i \in 1..Len(part) PROVE part[i] < p
  <2>1. CASE part[i] > 0
    <3>1. PICK m \in 1..Len(whole) : whole[m] = part[i]
      BY <2>1 DEF IsPartOf
    <3> QED BY <3>1
  <2>2. CASE ~(part[i] > 0)
    BY <1>5, <2>2
  <2> QED BY <2>1, <2>2
<1>7. ASSUME NEW k \in 1..Len(s), s[k] > 0
      PROVE  /\ \E m \in 1..Len(t) : t[m] = s[k]
             /\ \A m \in 1..(k - 1) : s[m] < s[k]
  <2>1. CASE k <= Len(part)
    <3>1. s[k] = part[k] /\ k \in 1..Len(part) /\ \A m \in 1..(k - 1) : s[m] = part[m]
      <4>1. k \in Nat /\ k >= 1 /\ k <= Len(part) /\ Len(part) \in Nat /\ n \in Nat
        BY <1>2, <1>3, <2>1
      <4>2. k \in 1..(Len(part) + n) /\ k \in 1..Len(part)
        BY <4>1
      <4>3. ASSUME NEW m \in 1..(k - 1) PROVE m \in 1..(Len(part) + n) /\ m <= Len(part)
        BY <4>1, <4>3
      <4> QED BY <1>3, <4>1, <4>2, <4>3
    <3>2. PICK m \in 1..Len(whole) : whole[m] = part[k]
      BY <1>7, <3>1 DEF IsPartOf
    <3>3. m \in 1..Len(t) /\ t[m] = s[k]
      <4>1. m \in 1..(Len(whole) + Len(chars)) /\ m <= Len(whole)
        BY <1>1, <1>4, <3>2
      <4> QED BY <1>4, <3>1, <3>2, <4>1
    <3>4. \A i \in 1..(k - 1) : part[i] < part[k]
      BY <1>7, <3>1 DEF IsPartOf
    <3> QED BY <3>1, <3>3, <3>4
  <2>2. CASE k > Len(part)
    <3>1. s[k] = u[k - Len(part)] /\ k - Len(part) \in 1..n
      BY <1>2, <1>3, <2>2
    <3>2. s[k] = chars[k - Len(part)]
      BY <1>2, <3>1
    <3>3. k - Len(part) = 1
      <4>1. k - Len(part) \in 2..Len(chars) => s[k] <= 0
        BY <1>1, <3>2
      <4>2. s[k] \in Int
        BY <1>3, ElementOfSeq
      <4>3. ~(k - Len(part) \in 2..Len(chars))
        BY <1>7, <4>1, <4>2
      <4>4. /\ k - Len(part) \in 1..n /\ n \in Nat /\ n <= Len(chars)
            /\ k \in Int /\ Len(part) \in Nat /\ Len(chars) \in Nat
        BY <1>1, <1>2, <1>3, <1>7, <3>1
      <4> DEFINE j == k - Len(part)
                 l == Len(chars)
      <4>5. j \in 1..n /\ n \in Nat /\ n <= l /\ l \in Nat /\ ~(j \in 2..l)
        BY <4>3, <4>4
      <4> HIDE DEF j, l
      <4>6. j = 1
        BY <4>5
      <4> QED BY <4>6 DEF j
    <3>4. s[k] = p /\ k - 1 = Len(part)
      BY <1>1, <1>3, <3>2, <3>3
    <3>5. Len(whole) + 1 \in 1..Len(t) /\ t[Len(whole) + 1] = p
      <4>1. (Len(whole) + 1) - Len(whole) = 1
        BY <1>4
      <4>2. Len(whole) + 1 \in 1..(Len(whole) + Len(chars)) /\ ~(Len(whole) + 1 <= Len(whole))
        BY <1>1, <1>4
      <4> QED BY <1>1, <1>4, <4>1, <4>2
    <3>6. \A m \in 1..(k - 1) : s[m] = part[m]
      <4> TAKE m \in 1..(k - 1)
      <4>1. m \in 1..(Len(part) + n) /\ m <= Len(part)
        BY <1>2, <1>3, <3>4
      <4> QED BY <1>3, <4>1
    <3> QED BY <1>6, <3>4, <3>5, <3>6
  <2> QED BY <1>3, <2>1, <2>2
<1> QED BY <1>7 DEF IsPartOf, s, t, u

(* What a print makes of its text. *)
LEMMA LinesOf ==
  ASSUME NEW p \in Nat, p > 0
  PROVE  /\ Lines(<<>>) = <<>>
         /\ Lines(<<p>>) = <<p>>
         /\ Lines(<<p, NewLine>>) = <<p, Return, NewLine>>
<1>1. Lines(<<>>) = <<>>
  BY DEF Lines
<1>2. Lines(<<p>>) = <<p>>
  BY DEF Lines, NewLine
<1>3. Lines(<<p, NewLine>>) = <<p, Return, NewLine>>
  <2> DEFINE s == <<p, NewLine>>
  <2>1. s \in Seq(Int) /\ Len(s) = 2 /\ s # <<>> /\ s[2] = NewLine /\ s[1] = p
    BY DEF NewLine
  <2> HIDE DEF s
  <2>2. Lines(s) = SubSeq(s, 1, 1) \o <<Return, NewLine>>
    BY <2>1 DEF Lines
  <2>3. SubSeq(s, 1, 1) = <<p>>
    <3>1. s[1] \in Int /\ 1 - 1 + 1 = 1
      BY <2>1
    <3>2. \A i \in 1..1 : s[i] \in Int
      BY <3>1
    <3>3. SubSeq(s, 1, 1) \in Seq(Int) /\ Len(SubSeq(s, 1, 1)) = 1 /\ SubSeq(s, 1, 1)[1] = s[1]
      BY <3>2, SubSeqProperties
    <3>4. <<p>> \in Seq(Int) /\ Len(<<p>>) = 1 /\ <<p>>[1] = p
      OBVIOUS
    <3>5. \A i \in 1..1 : SubSeq(s, 1, 1)[i] = <<p>>[i]
      BY <2>1, <3>3, <3>4
    <3> QED BY <3>3, <3>4, <3>5, SeqEqual
  <2>4. <<p>> \o <<Return, NewLine>> = <<p, Return, NewLine>>
    <3> DEFINE u == <<p>>
               v == <<Return, NewLine>>
               w == <<p, Return, NewLine>>
    <3>1. /\ u \in Seq(Int) /\ Len(u) = 1 /\ u[1] = p
          /\ v \in Seq(Int) /\ Len(v) = 2 /\ v[1] = Return /\ v[2] = NewLine
          /\ w \in Seq(Int) /\ Len(w) = 3 /\ w[1] = p /\ w[2] = Return /\ w[3] = NewLine
      BY DEF Return, NewLine
    <3> HIDE DEF u, v, w
    <3>2. /\ u \o v \in Seq(Int) /\ Len(u \o v) = 3
          /\ (u \o v)[1] = p /\ (u \o v)[2] = Return /\ (u \o v)[3] = NewLine
      <4>1. /\ u \o v \in Seq(Int) /\ Len(u \o v) = Len(u) + Len(v)
            /\ \A i \in 1..(Len(u) + Len(v)) : (u \o v)[i] = IF i <= Len(u) THEN u[i] ELSE v[i - Len(u)]
        BY <3>1, ConcatProperties, Zenon
      <4>2. Len(u) + Len(v) = 3 /\ 2 - Len(u) = 1 /\ 3 - Len(u) = 2 /\ {1, 2, 3} \subseteq 1..3
        BY <3>1
      <4> QED BY <3>1, <4>1, <4>2
    <3>3. \A i \in 1..3 : (u \o v)[i] = w[i]
      <4>1. 1..3 = {1, 2, 3}
        OBVIOUS
      <4> QED BY <3>1, <3>2, <4>1
    <3> QED BY <3>1, <3>2, <3>3, SeqEqual DEF u, v, w
  <2> QED BY <2>2, <2>3, <2>4 DEF s
<1> QED BY <1>1, <1>2, <1>3

(* The text is not changed by moving its border. *)
LEMMA Regroup ==
  ASSUME NEW a \in Seq(Int), NEW b \in Seq(Int), NEW c \in Seq(Int)
  PROVE  (a \o b) \o c = a \o (b \o c)
OBVIOUS

LEMMA BorderMoves ==
  ASSUME NEW a \in Seq(Int), NEW b \in Seq(Int), NEW n \in 0..Len(b)
  PROVE  /\ a \o SubSeq(b, 1, n) \in Seq(Int) /\ SubSeq(b, n + 1, Len(b)) \in Seq(Int)
         /\ Len(SubSeq(b, n + 1, Len(b))) = Len(b) - n
         /\ (a \o SubSeq(b, 1, n)) \o SubSeq(b, n + 1, Len(b)) = a \o b
<1> DEFINE u == SubSeq(b, 1, n)
           v == SubSeq(b, n + 1, Len(b))
<1>1. Len(b) \in Nat /\ n \in Int /\ n >= 0 /\ n <= Len(b) /\ \A i \in 1..Len(b) : b[i] \in Int
  BY LenProperties, ElementOfSeq
<1>2. u \in Seq(Int)
  BY <1>1, SubSeqProperties
<1>3. v \in Seq(Int) /\ Len(v) = Len(b) - n
  <2>1. \A i \in (n + 1)..Len(b) : b[i] \in Int
    BY <1>1
  <2>2. v \in Seq(Int) /\ Len(v) = IF n + 1 <= Len(b) THEN Len(b) - (n + 1) + 1 ELSE 0
    BY <1>1, <2>1, SubSeqProperties
  <2> QED BY <1>1, <2>2
<1>4. u \o v = b
  <2>1. u \o v = SubSeq(b, 1, Len(b))
    <3>1. 1 \in 1..(Len(b) + 1) /\ n \in (1 - 1)..Len(b) /\ Len(b) \in n..Len(b)
      BY <1>1
    <3> QED BY <3>1, ConcatAdjacentSubSeq
  <2> QED BY <2>1, SubSeqFull
<1> HIDE DEF u, v
<1>5. (a \o u) \o v = a \o b
  <2>1. (a \o u) \o v = a \o (u \o v)
    <3>1. a \in Seq(Int) /\ u \in Seq(Int) /\ v \in Seq(Int)
      BY <1>2, <1>3
    <3> QED BY <3>1, Regroup, Zenon
  <2> QED BY <1>4, <2>1
<1>6. a \o u \in Seq(Int)
  BY <1>2, ConcatProperties
<1> QED BY <1>3, <1>5, <1>6 DEF u, v

LEMMA BorderStep ==
  ASSUME NEW a \in Seq(Int), NEW b \in Seq(Int), b # <<>>
  PROVE  Append(a, Head(b)) \o Tail(b) = a \o b
<1> DEFINE h == <<Head(b)>>
           t == Tail(b)
<1>1. Head(b) \in Int /\ t \in Seq(Int) /\ h \in Seq(Int)
  BY HeadTailProperties
<1>2. Append(a, Head(b)) = a \o h
  BY <1>1, AppendIsConcat
<1>3. h \o t = b
  BY <1>1
<1> HIDE DEF h, t
<1>4. (a \o h) \o t = a \o (h \o t)
  <2>1. a \in Seq(Int) /\ h \in Seq(Int) /\ t \in Seq(Int)
    BY <1>1
  <2> QED BY <2>1, Regroup, Zenon
<1> QED BY <1>2, <1>3, <1>4 DEF t

(* The bytes the UART gets. *)
LEMMA Others ==
  ASSUME NEW n \in Nat
  PROVE  Other(n) \in Seq(Byte) /\ Len(Other(n)) = n /\ \A j \in 1..n : Other(n)[j] = "other"
BY DEF Other, Byte

LEMMA PanicBytes ==
  /\ PanicText \in Seq(Byte) /\ Len(PanicText) = Info + 2 * Done
  /\ \A j \in 1..Len(PanicText) : PanicText[j] = "info" <=> IsInfo(j)
<1> DEFINE u == [k \in 1..Info |-> "info"]
           v == Other(2 * Done)
           d == 2 * Done
<1>1. Info \in Nat /\ d \in Nat
  BY ConsoleSizes
<1> HIDE DEF d
<1>2. u \in Seq(Byte) /\ Len(u) = Info /\ \A j \in 1..Info : u[j] = "info"
  BY <1>1 DEF Byte
<1>3. v \in Seq(Byte) /\ Len(v) = d /\ \A j \in 1..d : v[j] = "other"
  BY <1>1, Others DEF d
<1>4. PanicText = u \o v
  BY DEF PanicText
<1> HIDE DEF u, v
<1>5. /\ u \o v \in Seq(Byte) /\ Len(u \o v) = Len(u) + Len(v)
      /\ \A j \in 1..(Len(u) + Len(v)) : (u \o v)[j] = IF j <= Len(u) THEN u[j] ELSE v[j - Len(u)]
  BY <1>2, <1>3, ConcatProperties
<1>6. ASSUME NEW j \in 1..(Info + d) PROVE (u \o v)[j] = "info" <=> IsInfo(j)
  <2>1. CASE j <= Info
    BY <1>1, <1>2, <1>3, <1>5, <1>6, <2>1 DEF IsInfo
  <2>2. CASE ~(j <= Info)
    <3>1. j - Info \in 1..d /\ ~IsInfo(j)
      BY <1>1, <1>6, <2>2 DEF IsInfo
    <3>2. (u \o v)[j] = v[j - Info]
      BY <1>2, <1>3, <1>5, <1>6, <2>2
    <3> QED BY <1>3, <3>1, <3>2
  <2> QED BY <2>1, <2>2
<1> QED BY <1>2, <1>3, <1>4, <1>5, <1>6 DEF d

(***************************************************************************)
(* The initial state.                                                      *)
(***************************************************************************)
LEMMA ConsoleInitInv == ConsoleInit => ConsoleInv
<1> SUFFICES ASSUME ConsoleInit PROVE ConsoleInv
  OBVIOUS
<1> USE DEF ConsoleInit, SocketInit
<1>1. Other(1) \in Seq(Byte) /\ Len(Other(1)) = 1 /\ \A j \in 1..1 : Other(1)[j] = "other"
  BY Others
<1>2. Len(<<>>) = 0 /\ <<>> \in Seq(Int) /\ <<>> \in Seq(Byte) /\ <<>> \in Seq({"key", "enter", "nul"})
  OBVIOUS
<1>3. telnet_active \in BOOLEAN /\ dropped \in BOOLEAN /\ ~telnet_active
  BY Zenon
<1>4. ConsoleTypeOK
  BY <1>1, <1>2, <1>3, ConsoleSizes DEF ConsoleTypeOK
<1>5. PanicInv
  BY <1>1, <1>2 DEF PanicInv
<1>6. PrintsInv
  BY <1>2 DEF PrintsInv
<1>7. SessionInv
  BY <1>2, <1>3 DEF SessionInv, IsActive
<1> QED BY <1>4, <1>5, <1>6, <1>7 DEF ConsoleInv

(***************************************************************************)
(* The step, one part of the invariant at a time.                          *)
(***************************************************************************)

(* What a byte that the menu gets can lead to.                             *)
LEMMA InputLeads ==
  ASSUME NEW key \in {"key", "enter", "nul"}, NEW then \in {"poll", "receive"},
         ConsoleTypeOK, Input(key, then)
  PROVE  \/ pc' = then /\ UNCHANGED <<print_vars, prints>>
         \/ /\ pc' = "print" /\ back' = then /\ prints' = prints + 1 /\ prints' \in Nat
            /\ text' \in {<<prints'>>, <<prints', NewLine>>}
            /\ text' \in Seq(Int) /\ Len(text') \in Nat /\ todo' = Other(Len(text'))
         \/ pc' \in {"panic", "reset"} /\ todo' = PanicText /\ UNCHANGED <<back, text, prints>>
<1>1. prints + 1 \in Nat
  BY DEF ConsoleTypeOK
<1>2. CASE key = "nul" /\ pc' = then /\ UNCHANGED <<print_vars, prints>>
  BY <1>2
<1>3. CASE /\ prints' = prints + 1 /\ pc' = "print" /\ back' = then
           /\ text' = IF key = "key" THEN <<prints + 1>> ELSE <<prints + 1, NewLine>>
           /\ todo' = Other(Len(text'))
  <2>1. text' \in {<<prints'>>, <<prints', NewLine>>}
    BY <1>3
  <2>2. text' \in Seq(Int) /\ Len(text') \in Nat
    BY <1>1, <1>3, <2>1 DEF NewLine
  <2> QED BY <1>1, <1>3, <2>1, <2>2
<1>4. CASE pc' \in {"panic", "reset"} /\ todo' = PanicText /\ UNCHANGED <<back, text, prints>>
  BY <1>4
<1> QED BY <1>2, <1>3, <1>4, Zenon DEF Input

(* The network leaves the rest of the program alone.                       *)
LEMMA NetworkStep ==
  ASSUME ConsoleInv, Syn \/ Ack \/ Rst \/ Type \/ Fin \/ Take
  PROVE  ConsoleTypeOK' /\ PanicInv' /\ PrintsInv'
<1>1. Network
  BY DEF Syn, Ack, Rst, Type, Fin, Take
<1>2. /\ ConsoleTypeOK /\ PanicInv /\ PrintsInv
      /\ UNCHANGED <<pc, back, text, todo, out_data, telnet_active, uart, told, printed, dropped, prints>>
  BY <1>1 DEF ConsoleInv, Network, print_vars, uart_vars, session_vars
<1>3. PanicInv' /\ PrintsInv'
  BY <1>2 DEF PanicInv, PrintsInv, NextLeaving
<1>4. tcp' \in {"Closed", "Listen", "SynReceived", "Established", "CloseWait", "LastAck"}
  BY <1>2 DEF Syn, Ack, Rst, Type, Fin, Take, ConsoleTypeOK
<1> DEFINE Key == {"key", "enter", "nul"}
<1>5. rx \in Seq(Key) /\ tx \in Seq(Int) /\ received \in Seq(Int)
  BY <1>2 DEF ConsoleTypeOK
<1>6. rx' \in Seq(Key)
  <2>1. CASE Type
    <3>1. PICK key \in Key : rx' = Append(rx, key)
      BY <2>1 DEF Type
    <3> HIDE DEF Key
    <3> QED BY <1>5, <3>1, AppendProperties
  <2>2. CASE Syn \/ Ack \/ Rst \/ Fin \/ Take
    <3>1. rx' = rx
      BY <2>2 DEF Syn, Ack, Rst, Fin, Take
    <3> QED BY <1>5, <3>1
  <2> QED BY <2>1, <2>2
<1>7. tx' \in Seq(Int) /\ received' \in Seq(Int)
  <2>1. CASE Take
    <3>1. tx # <<>> /\ received' = Append(received, Head(tx)) /\ tx' = Tail(tx)
      BY <2>1 DEF Take
    <3>2. Head(tx) \in Int /\ tx' \in Seq(Int)
      BY <1>5, <3>1, HeadTailProperties
    <3> QED BY <1>5, <3>1, <3>2, AppendProperties
  <2>2. CASE Syn
    <3>1. tx' = tx /\ received' = <<>>
      BY <2>2 DEF Syn
    <3> QED BY <1>5, <3>1
  <2>3. CASE Ack \/ Rst \/ Type \/ Fin
    <3>1. tx' = tx /\ received' = received
      BY <2>3 DEF Ack, Rst, Type, Fin
    <3> QED BY <1>5, <3>1
  <2> QED BY <2>1, <2>2, <2>3
<1>8. ConsoleTypeOK'
  BY <1>2, <1>4, <1>5, <1>6, <1>7 DEF ConsoleTypeOK
<1> QED BY <1>3, <1>8

(* The UART.                                                               *)
LEMMA UartStep ==
  ASSUME ConsoleInv, UartSend \/ WriteUart
  PROVE  ConsoleTypeOK' /\ PanicInv' /\ PrintsInv'
<1>1. ConsoleTypeOK /\ PanicInv /\ PrintsInv
  BY DEF ConsoleInv
<1>2. UNCHANGED <<pc, back, text, out_data, telnet_active, tcp, rx, tx, received, printed, dropped, prints>>
  BY DEF UartSend, WriteUart, print_vars, serial_keeps, socket_vars, session_vars, bounds_vars
<1>3. PrintsInv'
  BY <1>1, <1>2 DEF PrintsInv
<1>4. /\ uart \in Seq(Byte) /\ todo \in Seq(Byte) /\ told \in Nat /\ Info \in Nat /\ 2 * Done \in Nat
      /\ Len(uart) \in Nat /\ Len(todo) \in Nat /\ Len(uart) <= UartDepth /\ UartDepth \in Nat
  BY <1>1, ConsoleSizes, LenProperties DEF ConsoleTypeOK
<1> DEFINE d == 2 * Done
<1>5. NextLeaving = Info + d - Len(todo) - Len(uart) /\ NextLeaving' = Info + d - Len(todo') - Len(uart') /\ d \in Nat
  BY <1>4 DEF NextLeaving
<1> HIDE DEF d
<1>6. CASE UartSend
  <2>1. uart # <<>> /\ uart' = Tail(uart) /\ todo' = todo
        /\ told' = IF Head(uart) = "info" THEN told + 1 ELSE told
    BY <1>6 DEF UartSend, print_vars
  <2>2. /\ uart' \in Seq(Byte) /\ Len(uart) > 0 /\ Len(uart') = Len(uart) - 1 /\ Head(uart) = uart[1]
        /\ \A j \in 1..Len(uart') : uart'[j] = uart[j + 1]
    BY <1>4, <2>1
  <2>3. ConsoleTypeOK'
    BY <1>1, <1>2, <1>4, <2>1, <2>2 DEF ConsoleTypeOK
  <2>4. ASSUME pc # "panic" PROVE PanicInv'
    <3>1. told = 0 /\ \A j \in 1..Len(uart) : uart[j] = "other"
      BY <1>1, <2>4 DEF PanicInv
    <3>2. told' = 0
      BY <1>4, <2>1, <2>2, <3>1
    <3>3. \A j \in 1..Len(uart') : uart'[j] = "other"
      BY <1>4, <2>2, <3>1
    <3> QED BY <1>1, <1>2, <2>1, <2>4, <3>2, <3>3 DEF PanicInv
  <2>5. ASSUME pc = "panic" PROVE PanicInv'
    <3> DEFINE n == NextLeaving
    <3>1. /\ told = IF n < 0 THEN 0 ELSE IF n > Info THEN Info ELSE n
          /\ \A j \in 1..Len(uart) : uart[j] = "info" <=> IsInfo(n + j)
          /\ \A j \in 1..Len(todo) : todo[j] = "info" <=> IsInfo(n + Len(uart) + j)
      BY <1>1, <2>5 DEF PanicInv
    <3>2. n \in Int /\ NextLeaving' = n + 1
      BY <1>4, <1>5, <2>1, <2>2
    <3> HIDE DEF n
    <3>3. Head(uart) = "info" <=> n + 1 \in 1..Info
      BY <1>4, <2>2, <3>1 DEF IsInfo
    <3>4. told' = IF n + 1 < 0 THEN 0 ELSE IF n + 1 > Info THEN Info ELSE n + 1
      BY <1>4, <2>1, <3>1, <3>2, <3>3
    <3>5. ASSUME NEW j \in 1..Len(uart') PROVE uart'[j] = "info" <=> IsInfo((n + 1) + j)
      <4>1. j + 1 \in 1..Len(uart) /\ n + (j + 1) = (n + 1) + j
        BY <1>4, <2>2, <3>2, <3>5
      <4> QED BY <2>2, <3>1, <3>5, <4>1
    <3>6. ASSUME NEW j \in 1..Len(todo) PROVE todo[j] = "info" <=> IsInfo((n + 1) + Len(uart') + j)
      <4>1. (n + 1) + Len(uart') + j = n + Len(uart) + j
        BY <1>4, <2>2, <3>2, <3>6
      <4> QED BY <3>1, <3>6, <4>1
    <3> QED BY <1>2, <2>1, <2>5, <3>2, <3>4, <3>5, <3>6 DEF PanicInv
  <2> QED BY <1>3, <2>3, <2>4, <2>5
<1>7. CASE WriteUart
  <2>1. todo # <<>> /\ Len(uart) < UartDepth /\ uart' = Append(uart, Head(todo)) /\ todo' = Tail(todo)
        /\ told' = told /\ pc \in {"print", "panic"}
    BY <1>7 DEF WriteUart
  <2>2. /\ todo' \in Seq(Byte) /\ Len(todo) > 0 /\ Len(todo') = Len(todo) - 1
        /\ Head(todo) = todo[1] /\ todo[1] \in Byte
        /\ \A j \in 1..Len(todo') : todo'[j] = todo[j + 1]
    BY <1>4, <2>1
  <2>3. /\ uart' \in Seq(Byte) /\ Len(uart') = Len(uart) + 1
        /\ \A j \in 1..Len(uart) : uart'[j] = uart[j]
        /\ uart'[Len(uart) + 1] = todo[1]
    BY <1>4, <2>1, <2>2
  <2>4. ConsoleTypeOK'
    <3>1. Len(uart') <= UartDepth
      BY <1>4, <2>1, <2>3
    <3> QED BY <1>1, <1>2, <2>1, <2>2, <2>3, <3>1 DEF ConsoleTypeOK
  <2>5. ASSUME pc = "print" PROVE PanicInv'
    <3>1. told = 0 /\ (\A j \in 1..Len(uart) : uart[j] = "other") /\ \A j \in 1..Len(todo) : todo[j] = "other"
      BY <1>1, <2>5 DEF PanicInv
    <3>2. ASSUME NEW j \in 1..Len(uart') PROVE uart'[j] = "other"
      <4>1. CASE j = Len(uart) + 1
        <5>1. 1 \in 1..Len(todo)
          BY <1>4, <2>2
        <5> QED BY <2>3, <3>1, <4>1, <5>1
      <4>2. CASE j # Len(uart) + 1
        <5>1. j \in 1..Len(uart)
          BY <1>4, <2>3, <3>2, <4>2
        <5> QED BY <2>3, <3>1, <5>1
      <4> QED BY <4>1, <4>2
    <3>3. \A j \in 1..Len(todo') : todo'[j] = "other"
      BY <1>4, <2>2, <3>1
    <3> QED BY <1>2, <2>1, <2>5, <3>1, <3>2, <3>3 DEF PanicInv
  <2>6. ASSUME pc = "panic" PROVE PanicInv'
    <3> DEFINE n == NextLeaving
    <3>1. /\ told = IF n < 0 THEN 0 ELSE IF n > Info THEN Info ELSE n
          /\ \A j \in 1..Len(uart) : uart[j] = "info" <=> IsInfo(n + j)
          /\ \A j \in 1..Len(todo) : todo[j] = "info" <=> IsInfo(n + Len(uart) + j)
      BY <1>1, <2>6 DEF PanicInv
    <3>2. n \in Int /\ NextLeaving' = n
      BY <1>4, <1>5, <2>2, <2>3
    <3> HIDE DEF n
    <3>3. ASSUME NEW j \in 1..Len(uart') PROVE uart'[j] = "info" <=> IsInfo(n + j)
      <4>1. CASE j = Len(uart) + 1
        <5>1. n + Len(uart) + 1 = n + j /\ 1 \in 1..Len(todo)
          BY <1>4, <2>2, <3>2, <4>1
        <5> QED BY <2>3, <3>1, <4>1, <5>1
      <4>2. CASE j # Len(uart) + 1
        <5>1. j \in 1..Len(uart)
          BY <1>4, <2>3, <3>3, <4>2
        <5> QED BY <2>3, <3>1, <5>1
      <4> QED BY <4>1, <4>2
    <3>4. ASSUME NEW j \in 1..Len(todo') PROVE todo'[j] = "info" <=> IsInfo(n + Len(uart') + j)
      <4>1. j + 1 \in 1..Len(todo) /\ n + Len(uart) + (j + 1) = n + Len(uart') + j
        BY <1>4, <2>2, <2>3, <3>2, <3>4
      <4> QED BY <2>2, <3>1, <3>4, <4>1
    <3> QED BY <1>2, <2>1, <2>6, <3>1, <3>2, <3>3, <3>4 DEF PanicInv
  <2> QED BY <1>3, <2>1, <2>4, <2>5, <2>6
<1> QED BY <1>6, <1>7

(* What Send moves: a part of out_data from its beginning.                 *)
LEMMA SendPart ==
  ASSUME ConsoleTypeOK, Send
  PROVE  \E n \in 0..Len(out_data) :
           /\ tx' = tx \o SubSeq(out_data, 1, n) /\ out_data' = SubSeq(out_data, n + 1, Len(out_data))
           /\ ~CanSend => n = 0
<1> DEFINE room == IF CanSend THEN TxSize - Len(tx) ELSE 0
           n == IF room < Len(out_data) THEN room ELSE Len(out_data)
<1>1. tx' = tx \o SubSeq(out_data, 1, n) /\ out_data' = SubSeq(out_data, n + 1, Len(out_data))
  BY DEF Send
<1>2. Len(tx) \in Nat /\ Len(out_data) \in Nat /\ TxSize \in Nat
  BY ConsoleSizes, LenProperties DEF ConsoleTypeOK
<1>3. room \in Nat
  BY <1>2 DEF CanSend
<1>4. n \in 0..Len(out_data) /\ (~CanSend => n = 0)
  BY <1>2, <1>3
<1> QED BY <1>1, <1>4

(* Steps that leave the UART alone.                                        *)
LEMMA QuietKeepsPanic ==
  ASSUME PanicInv, UNCHANGED <<uart, told>>, pc # "panic", pc' \notin {"panic", "print"}
  PROVE  PanicInv'
BY DEF PanicInv

(* A byte that the menu gets.                                              *)
LEMMA InputKeeps ==
  ASSUME ConsoleTypeOK, PanicInv, PrintsInv, pc \notin {"print", "panic"},
         NEW key \in {"key", "enter", "nul"}, NEW then \in {"poll", "receive"}, Input(key, then),
         UNCHANGED <<uart, told, printed>>
  PROVE  /\ pc' \in {then, "print", "panic", "reset"} /\ back' \in {"poll", "receive"}
         /\ text' \in Seq(Int) /\ todo' \in Seq(Byte) /\ prints' \in Nat
         /\ PanicInv' /\ PrintsInv'
<1>1. /\ told = 0 /\ \A j \in 1..Len(uart) : uart[j] = "other"
      /\ text = <<>> /\ \A m \in 1..Len(printed) : printed[m] <= prints
  BY DEF PanicInv, PrintsInv
<1>2. /\ text \in Seq(Int) /\ todo \in Seq(Byte) /\ back \in {"poll", "receive"} /\ prints \in Nat
      /\ uart \in Seq(Byte) /\ Len(uart) \in Nat /\ printed \in Seq(Int)
      /\ \A m \in 1..Len(printed) : printed[m] \in Int
  BY LenProperties, ElementOfSeq DEF ConsoleTypeOK
<1>3. CASE pc' = then /\ UNCHANGED <<print_vars, prints>>
  <2>1. UNCHANGED <<back, text, todo, prints>>
    BY <1>3 DEF print_vars
  <2>2. PanicInv'
    BY <1>3, QuietKeepsPanic
  <2>3. PrintsInv'
    BY <1>1, <1>3, <2>1 DEF PrintsInv
  <2> QED BY <1>2, <1>3, <2>1, <2>2, <2>3
<1>4. CASE /\ pc' = "print" /\ back' = then /\ prints' = prints + 1 /\ prints' \in Nat
           /\ text' \in {<<prints'>>, <<prints', NewLine>>}
           /\ text' \in Seq(Int) /\ Len(text') \in Nat /\ todo' = Other(Len(text'))
  <2>1. todo' \in Seq(Byte) /\ \A j \in 1..Len(todo') : todo'[j] = "other"
    <3> DEFINE n == Len(text')
    <3>1. n \in Nat /\ todo' = Other(n)
      BY <1>4
    <3> HIDE DEF n
    <3> QED BY <3>1, Others
  <2>2. PanicInv'
    BY <1>1, <1>4, <2>1 DEF PanicInv
  <2>3. \A m \in 1..Len(printed') : printed'[m] < prints' /\ printed'[m] <= prints'
    BY <1>1, <1>2, <1>4
  <2>4. PrintsInv'
    <3>1. prints' > 0
      BY <1>2, <1>4
    <3> QED BY <1>4, <2>3, <3>1 DEF PrintsInv
  <2> QED BY <1>4, <2>1, <2>2, <2>4
<1>5. CASE pc' \in {"panic", "reset"} /\ todo' = PanicText /\ UNCHANGED <<back, text, prints>>
  <2>1. todo' \in Seq(Byte)
    BY <1>5, PanicBytes
  <2>2. PrintsInv'
    BY <1>1, <1>5 DEF PrintsInv
  <2>3. CASE pc' = "reset"
    BY <1>1, <1>2, <1>5, <2>1, <2>2, <2>3, QuietKeepsPanic
  <2>4. CASE pc' = "panic"
    <3> DEFINE n == NextLeaving'
               len == Len(uart)
    <3>1. n = 0 - len
      <4> DEFINE d == 2 * Done
      <4>1. Info \in Nat /\ d \in Nat
        BY ConsoleSizes
      <4>2. n = Info + d - Len(todo') - Len(uart') /\ Len(todo') = Info + d /\ Len(uart') = len
        BY <1>5, PanicBytes DEF NextLeaving
      <4> HIDE DEF d, n, len
      <4>3. len \in Nat
        BY <1>2 DEF len
      <4> QED BY <4>1, <4>2, <4>3
    <3>2. len \in Nat /\ Info \in Nat /\ len = Len(uart')
      BY <1>2, ConsoleSizes
    <3> HIDE DEF n, len
    <3>3. told' = IF n < 0 THEN 0 ELSE IF n > Info THEN Info ELSE n
      BY <1>1, <3>1, <3>2
    <3>4. ASSUME NEW j \in 1..Len(uart') PROVE uart'[j] = "info" <=> IsInfo(n + j)
      <4>1. uart'[j] = "other"
        BY <1>1, <3>4
      <4>2. ~IsInfo(n + j)
        <5>1. n + j <= 0 /\ n + j \in Int
          BY <3>1, <3>2, <3>4
        <5> QED BY <3>2, <5>1 DEF IsInfo
      <4> QED BY <4>1, <4>2
    <3>5. ASSUME NEW j \in 1..Len(todo') PROVE todo'[j] = "info" <=> IsInfo(n + Len(uart') + j)
      <4>1. n + Len(uart') + j = j
        BY <3>1, <3>2, <3>5
      <4>2. PanicText[j] = "info" <=> IsInfo(j)
        BY <1>5, <3>5, PanicBytes
      <4> QED BY <1>5, <4>1, <4>2
    <3>6. PanicInv'
      BY <2>4, <3>3, <3>4, <3>5 DEF PanicInv, n
    <3> QED BY <1>2, <1>5, <2>1, <2>2, <3>6
  <2> QED BY <1>5, <2>3, <2>4
<1> QED BY <1>3, <1>4, <1>5, InputLeads

LEMMA ReceiveStep == ASSUME ConsoleInv, Receive PROVE ConsoleTypeOK' /\ PanicInv' /\ PrintsInv'
<1>1. ConsoleTypeOK /\ PanicInv /\ PrintsInv
  BY DEF ConsoleInv
<1>2. pc = "receive" /\ UNCHANGED <<out_data, telnet_active, tcp, tx, received, uart, told, printed, dropped>>
  BY DEF Receive, uart_vars, session_vars
<1> DEFINE Key == {"key", "enter", "nul"}
<1>3. CASE rx # <<>> /\ rx' = Tail(rx) /\ Input(Head(rx), "receive")
  <2>1. rx' \in Seq(Key) /\ Head(rx) \in Key
    <3>1. rx \in Seq(Key)
      BY <1>1 DEF ConsoleTypeOK
    <3> HIDE DEF Key
    <3> QED BY <1>3, <3>1, HeadTailProperties
  <2>2. /\ pc' \in {"receive", "print", "panic", "reset"} /\ back' \in {"poll", "receive"}
        /\ text' \in Seq(Int) /\ todo' \in Seq(Byte) /\ prints' \in Nat
        /\ PanicInv' /\ PrintsInv'
    BY <1>1, <1>2, <1>3, <2>1, InputKeeps
  <2> QED BY <1>1, <1>2, <2>1, <2>2 DEF ConsoleTypeOK
<1>4. CASE rx = <<>> /\ pc' = "send" /\ UNCHANGED <<rx, print_vars, prints>>
  <2>1. UNCHANGED <<rx, back, text, todo, prints>>
    BY <1>4 DEF print_vars
  <2>2. ConsoleTypeOK'
    BY <1>1, <1>2, <1>4, <2>1 DEF ConsoleTypeOK
  <2>3. PanicInv'
    BY <1>1, <1>2, <1>4, QuietKeepsPanic
  <2> QED BY <1>1, <1>2, <1>4, <2>1, <2>2, <2>3 DEF PrintsInv
<1> QED BY <1>3, <1>4 DEF Receive

LEMMA SerialStep == ASSUME ConsoleInv, Serial PROVE ConsoleTypeOK' /\ PanicInv' /\ PrintsInv'
<1>1. ConsoleTypeOK /\ PanicInv /\ PrintsInv
  BY DEF ConsoleInv
<1>2. pc = "serial" /\ UNCHANGED <<out_data, telnet_active, tcp, rx, tx, received, uart, told, printed, dropped>>
  BY DEF Serial, serial_keeps, socket_vars, uart_vars, session_vars
<1>3. ASSUME NEW key \in {"key", "enter"}, Input(key, "poll") PROVE ConsoleTypeOK' /\ PanicInv' /\ PrintsInv'
  <2>1. /\ pc' \in {"poll", "print", "panic", "reset"} /\ back' \in {"poll", "receive"}
        /\ text' \in Seq(Int) /\ todo' \in Seq(Byte) /\ prints' \in Nat
        /\ PanicInv' /\ PrintsInv'
    BY <1>1, <1>2, <1>3, InputKeeps
  <2> QED BY <1>1, <1>2, <2>1 DEF ConsoleTypeOK
<1>4. CASE pc' = "poll" /\ UNCHANGED <<print_vars, prints>>
  <2>1. UNCHANGED <<back, text, todo, prints>>
    BY <1>4 DEF print_vars
  <2>2. ConsoleTypeOK'
    BY <1>1, <1>2, <1>4, <2>1 DEF ConsoleTypeOK
  <2>3. PanicInv'
    BY <1>1, <1>2, <1>4, QuietKeepsPanic
  <2> QED BY <1>1, <1>2, <1>4, <2>1, <2>2, <2>3 DEF PrintsInv
<1> QED BY <1>3, <1>4 DEF Serial

(* The steps of the loop that the menu has no part in.                     *)
LEMMA TurnStep ==
  ASSUME ConsoleInv, PollEnd \/ Listen \/ Session \/ Send
  PROVE  ConsoleTypeOK' /\ PanicInv' /\ PrintsInv'
<1>1. ConsoleTypeOK /\ PanicInv /\ PrintsInv
  BY DEF ConsoleInv
<1>2. /\ pc \in {"poll", "telnet", "session", "send"} /\ pc' \in {"telnet", "session", "receive", "send", "serial"}
      /\ UNCHANGED <<back, text, todo, received, uart, told, prints>>
  BY DEF PollEnd, Listen, Session, Send, print_vars, socket_vars, uart_vars, bounds_vars
<1>3. PanicInv'
  BY <1>1, <1>2, QuietKeepsPanic
<1>4. PrintsInv'
  <2>1. printed' = printed \/ printed' = <<>>
    BY DEF PollEnd, Listen, Session, Send, session_vars
  <2>2. text' = <<>>
    BY <1>1, <1>2 DEF PrintsInv
  <2> QED BY <1>1, <1>2, <2>1, <2>2 DEF PrintsInv
<1>5. ConsoleTypeOK'
  <2>1. CASE PollEnd
    BY <1>1, <1>2, <2>1 DEF PollEnd, socket_vars, session_vars, ConsoleTypeOK
  <2>2. CASE Session
    <3>1. UNCHANGED <<out_data, telnet_active, rx, tx, printed, dropped>> /\ tcp' \in {tcp, "LastAck"}
      BY <2>2 DEF Session, session_vars
    <3> QED BY <1>1, <1>2, <3>1 DEF ConsoleTypeOK
  <2>3. CASE Listen
    <3>1. /\ tcp' \in {tcp, "Listen"} /\ rx' \in {rx, <<>>} /\ tx' \in {tx, <<>>}
          /\ \/ out_data' = Greeting /\ printed' = <<>> /\ dropped' = FALSE
             \/ UNCHANGED <<out_data, printed, dropped>>
      BY <2>3 DEF Listen, Greeted, session_vars
    <3>2. telnet_active' \in BOOLEAN
      <4>1. telnet_active' = IsActive(tcp')
        BY <2>3 DEF Listen
      <4>2. IsActive(tcp') \in BOOLEAN
        BY DEF IsActive
      <4> QED BY <4>1, <4>2
    <3>3. out_data' \in Seq(Int) /\ Len(out_data') <= OutSize
      BY <1>1, <3>1, Greets, ConsoleSizes DEF ConsoleTypeOK
    <3>4. printed' \in Seq(Int) /\ rx' \in Seq({"key", "enter", "nul"}) /\ tx' \in Seq(Int)
      <4> DEFINE Key == {"key", "enter", "nul"}
      <4>1. printed \in Seq(Int) /\ rx \in Seq(Key) /\ tx \in Seq(Int)
        BY <1>1 DEF ConsoleTypeOK
      <4> HIDE DEF Key
      <4>2. <<>> \in Seq(Int) /\ <<>> \in Seq(Key)
        OBVIOUS
      <4>3. printed' \in {printed, <<>>}
        BY <3>1
      <4>4. printed' \in Seq(Int) /\ rx' \in Seq(Key) /\ tx' \in Seq(Int)
        BY <3>1, <4>1, <4>2, <4>3
      <4> QED BY <4>4 DEF Key
    <3>5. dropped' \in BOOLEAN
      <4>1. dropped \in BOOLEAN
        BY <1>1 DEF ConsoleTypeOK
      <4> QED BY <3>1, <4>1, Zenon
    <3>6. tcp' \in {"Closed", "Listen", "SynReceived", "Established", "CloseWait", "LastAck"}
      BY <1>1, <3>1 DEF ConsoleTypeOK
    <3> QED BY <1>1, <1>2, <3>2, <3>3, <3>4, <3>5, <3>6 DEF ConsoleTypeOK
  <2>4. CASE Send
    <3>1. UNCHANGED <<telnet_active, tcp, rx, printed, dropped>>
      BY <2>4 DEF Send, session_vars
    <3>2. tx' \in Seq(Int) /\ out_data' \in Seq(Int) /\ Len(out_data') <= OutSize
      <4>1. tx \in Seq(Int) /\ out_data \in Seq(Int) /\ Len(out_data) <= OutSize /\ Len(out_data) \in Nat /\ OutSize \in Nat
        BY <1>1, ConsoleSizes, LenProperties DEF ConsoleTypeOK
      <4>2. PICK n \in 0..Len(out_data) : tx' = tx \o SubSeq(out_data, 1, n) /\ out_data' = SubSeq(out_data, n + 1, Len(out_data))
        BY <1>1, <2>4, SendPart
      <4>3. /\ tx' \in Seq(Int) /\ out_data' \in Seq(Int) /\ Len(out_data') = Len(out_data) - n
        BY <4>1, <4>2, BorderMoves
      <4> QED BY <4>1, <4>2, <4>3
    <3> QED BY <1>1, <1>2, <3>1, <3>2 DEF ConsoleTypeOK
  <2> QED BY <2>1, <2>2, <2>3, <2>4
<1> QED BY <1>3, <1>4, <1>5

(* What is printed and what out_data takes of it.                          *)
LEMMA PrintedText ==
  ASSUME ConsoleTypeOK, PrintsInv
  PROVE  /\ Lines(text) \in Seq(Int) /\ prints \in Nat
         /\ \/ Lines(text) = <<>>
            \/ /\ prints > 0 /\ Lines(text) \in {<<prints>>, <<prints, Return, NewLine>>}
               /\ \A m \in 1..Len(printed) : printed[m] < prints
         /\ \A m \in 1..Len(Lines(text)) : Lines(text)[m] <= prints
<1>1. prints \in Nat /\ text \in Seq(Int)
  BY DEF ConsoleTypeOK
<1>2. CASE text = <<>>
  <2>1. Lines(text) = <<>>
    BY <1>2 DEF Lines
  <2> QED BY <1>1, <2>1
<1>3. CASE text # <<>>
  <2>1. /\ text \in {<<prints>>, <<prints, NewLine>>} /\ prints > 0
        /\ \A m \in 1..Len(printed) : printed[m] < prints
    BY <1>3 DEF PrintsInv
  <2>2. Lines(text) \in {<<prints>>, <<prints, Return, NewLine>>}
    <3>1. Lines(<<prints>>) = <<prints>> /\ Lines(<<prints, NewLine>>) = <<prints, Return, NewLine>>
      BY <1>1, <2>1, LinesOf
    <3> QED BY <2>1, <3>1
  <2>3. CASE Lines(text) = <<prints>>
    BY <1>1, <2>1, <2>2, <2>3
  <2>4. CASE Lines(text) = <<prints, Return, NewLine>>
    <3> DEFINE s == <<prints, Return, NewLine>>
    <3>1. s \in Seq(Int) /\ Len(s) = 3 /\ s[1] = prints /\ s[2] = -1 /\ s[3] = 0
      BY <1>1 DEF Return, NewLine
    <3> HIDE DEF s
    <3>2. \A m \in 1..Len(s) : s[m] <= prints
      <4>1. 1..3 = {1, 2, 3}
        OBVIOUS
      <4> QED BY <1>1, <3>1, <4>1
    <3> QED BY <1>1, <2>1, <2>2, <2>4, <3>1, <3>2 DEF s
  <2> QED BY <2>2, <2>3, <2>4
<1> QED BY <1>2, <1>3

LEMMA PrintedStep == ASSUME ConsoleInv, Printed PROVE ConsoleTypeOK' /\ PanicInv' /\ PrintsInv'
<1>1. ConsoleTypeOK /\ PanicInv /\ PrintsInv
  BY DEF ConsoleInv
<1> DEFINE lines == Lines(text)
<1>2. /\ pc = "print" /\ pc' = back /\ back' = back /\ text' = <<>>
      /\ UNCHANGED <<todo, telnet_active, tcp, rx, tx, received, uart, told, prints>>
      /\ out_data' = Fitting(out_data \o lines)
      /\ printed' = IF telnet_active THEN printed \o lines ELSE <<>>
      /\ dropped' = (dropped \/ Len(out_data) + Len(lines) > OutSize)
  BY DEF Printed, Pushed, serial_keeps, socket_vars, uart_vars
<1>3. lines \in Seq(Int) /\ \A m \in 1..Len(lines) : lines[m] <= prints
  BY <1>1, PrintedText
<1> HIDE DEF lines
<1>4. back \in {"poll", "receive"} /\ out_data \in Seq(Int) /\ Len(out_data) <= OutSize /\ printed \in Seq(Int) /\ prints \in Nat
  BY <1>1 DEF ConsoleTypeOK
<1>5. PanicInv'
  BY <1>1, <1>2, <1>4, QuietKeepsPanic
<1>6. out_data' \in Seq(Int) /\ Len(out_data') <= OutSize
  BY <1>2, <1>3, <1>4, FittingAppends
<1>7. dropped' \in BOOLEAN
  <2>1. dropped \in BOOLEAN
    BY <1>1 DEF ConsoleTypeOK
  <2> QED BY <1>2, <2>1, Zenon
<1>8. printed' \in Seq(Int) /\ \A m \in 1..Len(printed') : printed'[m] <= prints
  <2>1. CASE telnet_active
    <3>1. /\ printed' = printed \o lines /\ printed' \in Seq(Int) /\ Len(printed') = Len(printed) + Len(lines)
          /\ \A m \in 1..(Len(printed) + Len(lines)) :
               printed'[m] = IF m <= Len(printed) THEN printed[m] ELSE lines[m - Len(printed)]
      BY <1>2, <1>3, <1>4, <2>1, ConcatProperties
    <3>2. \A m \in 1..Len(printed) : printed[m] <= prints
      BY <1>1 DEF PrintsInv
    <3>3. Len(printed) \in Nat /\ Len(lines) \in Nat
      BY <1>3, <1>4, LenProperties
    <3>4. ASSUME NEW m \in 1..Len(printed') PROVE printed'[m] <= prints
      <4>1. m \in 1..(Len(printed) + Len(lines))
        BY <3>1, <3>4
      <4>2. CASE m <= Len(printed)
        BY <3>1, <3>2, <3>3, <4>1, <4>2
      <4>3. CASE ~(m <= Len(printed))
        <5>1. m - Len(printed) \in 1..Len(lines)
          BY <3>3, <4>1, <4>3
        <5> QED BY <1>3, <3>1, <4>1, <4>3, <5>1
      <4> QED BY <4>2, <4>3
    <3> QED BY <3>1, <3>4
  <2>2. CASE ~telnet_active
    BY <1>2, <2>2
  <2> QED BY <2>1, <2>2
<1>9. PrintsInv'
  BY <1>2, <1>4, <1>8 DEF PrintsInv
<1>10. ConsoleTypeOK'
  BY <1>1, <1>2, <1>4, <1>6, <1>7, <1>8 DEF ConsoleTypeOK
<1> QED BY <1>5, <1>9, <1>10

LEMMA ResetStep == ASSUME ConsoleInv, Reset PROVE ConsoleInv'
<1>1. Other(1) \in Seq(Byte) /\ Len(Other(1)) = 1 /\ \A j \in 1..1 : Other(1)[j] = "other"
  BY Others
<1>2. Len(<<>>) = 0 /\ <<>> \in Seq(Int) /\ <<>> \in Seq(Byte) /\ <<>> \in Seq({"key", "enter", "nul"})
  OBVIOUS
<1>3. telnet_active' \in BOOLEAN /\ dropped' \in BOOLEAN /\ ~telnet_active'
  BY Zenon DEF Reset
<1>4. prints \in Nat /\ prints' = prints
  BY DEF ConsoleInv, ConsoleTypeOK, Reset
<1>5. ConsoleTypeOK'
  BY <1>1, <1>2, <1>3, <1>4, ConsoleSizes DEF Reset, ConsoleTypeOK
<1>6. PanicInv'
  BY <1>1, <1>2 DEF Reset, PanicInv
<1>7. PrintsInv'
  BY <1>2 DEF Reset, PrintsInv
<1>8. SessionInv'
  BY <1>2, <1>3 DEF Reset, SessionInv, IsActive
<1> QED BY <1>5, <1>6, <1>7, <1>8 DEF ConsoleInv

(***************************************************************************)
(* The session.                                                            *)
(***************************************************************************)

(* The text is right as long as it and what was printed stay.              *)
LEMMA TextStays ==
  ASSUME TextRight, AllText' = AllText, UNCHANGED <<printed, dropped>>
  PROVE  TextRight'
BY DEF TextRight, IsPartOf

(* The network.                                                            *)
LEMMA NetworkSession ==
  ASSUME ConsoleInv, Syn \/ Ack \/ Rst \/ Type \/ Fin \/ Take
  PROVE  SessionInv'
<1>1. ConsoleTypeOK /\ SessionInv
  BY DEF ConsoleInv
<1>2. pc = "poll" /\ UNCHANGED <<pc, out_data, telnet_active, printed, dropped>>
  BY DEF Syn, Ack, Rst, Type, Fin, Take, Network, session_vars
<1>3. CASE Syn
  <2>1. tcp = "Listen" /\ tcp' = "SynReceived" /\ received' = <<>> /\ tx' = tx
    BY <1>3 DEF Syn
  <2>2. tx = <<>> /\ (telnet_active => received = <<>>) /\ (telnet_active => TextRight)
    BY <1>1, <2>1 DEF SessionInv
  <2>3. telnet_active => TextRight'
    <3> SUFFICES ASSUME telnet_active PROVE TextRight'
      OBVIOUS
    <3>1. TextRight /\ AllText' = AllText
      BY <1>2, <2>1, <2>2 DEF AllText
    <3> QED BY <1>2, <3>1, TextStays
  <2> QED BY <1>2, <2>1, <2>2, <2>3 DEF SessionInv, IsActive
<1>4. CASE Take
  <2>1. /\ tcp \in {"Established", "CloseWait", "LastAck"} /\ tcp' = tcp /\ tx # <<>>
        /\ received' = Append(received, Head(tx)) /\ tx' = Tail(tx)
    BY <1>4 DEF Take
  <2>2. telnet_active /\ TextRight
    BY <1>1, <2>1 DEF SessionInv, IsActive
  <2>3. AllText' = AllText
    <3>1. received \in Seq(Int) /\ tx \in Seq(Int)
      BY <1>1 DEF ConsoleTypeOK
    <3>2. Append(received, Head(tx)) \o Tail(tx) = received \o tx
      BY <2>1, <3>1, BorderStep
    <3>3. AllText' = (Append(received, Head(tx)) \o Tail(tx)) \o out_data
      BY <1>2, <2>1 DEF AllText
    <3> QED BY <3>2, <3>3 DEF AllText
  <2>4. TextRight'
    BY <1>2, <2>2, <2>3, TextStays
  <2> QED BY <1>2, <2>1, <2>4, <2>2 DEF SessionInv, IsActive
<1>5. CASE Ack \/ Rst \/ Type \/ Fin
  <2>1. /\ UNCHANGED <<tx, received>>
        /\ \/ tcp' = tcp
           \/ tcp' = "Closed"
           \/ tcp = "SynReceived" /\ tcp' \in {"Established", "Listen"}
           \/ tcp = "Established" /\ tcp' = "CloseWait"
    BY <1>5 DEF Ack, Rst, Type, Fin
  <2>2. AllText' = AllText
    BY <1>2, <2>1 DEF AllText
  <2>3. telnet_active /\ tcp # "Closed" => TextRight'
    BY <1>1, <1>2, <2>2, TextStays DEF SessionInv
  <2>4. telnet_active /\ tcp' # "Closed" => TextRight'
    BY <2>1, <2>3
  <2>5. telnet_active' = telnet_active /\ pc' = "poll"
    BY <1>2
  <2>6. CASE tcp' = tcp
    BY <1>1, <2>1, <2>4, <2>5, <2>6 DEF SessionInv
  <2>7. CASE tcp' = "Closed"
    BY <2>5, <2>7 DEF SessionInv, IsActive
  <2>8. CASE tcp = "SynReceived" /\ tcp' \in {"Established", "Listen"}
    BY <1>1, <2>1, <2>4, <2>5, <2>8 DEF SessionInv, IsActive
  <2>9. CASE tcp = "Established" /\ tcp' = "CloseWait"
    BY <1>1, <2>1, <2>4, <2>5, <2>9 DEF SessionInv, IsActive
  <2> QED BY <2>1, <2>6, <2>7, <2>8, <2>9
<1> QED BY <1>3, <1>4, <1>5

(* Steps that leave the session alone.                                     *)
LEMMA SessionStays ==
  ASSUME SessionInv, UNCHANGED <<telnet_active, tcp, tx, received, out_data, printed, dropped>>,
         pc' \notin {"poll", "telnet"} => pc \notin {"poll", "telnet"}
  PROVE  SessionInv'
<1>1. AllText' = AllText
  BY DEF AllText
<1>2. telnet_active /\ tcp # "Closed" => TextRight'
  BY <1>1, TextStays DEF SessionInv
<1> QED BY <1>2 DEF SessionInv, IsActive

LEMMA OthersSession ==
  ASSUME ConsoleInv, PollEnd \/ Receive \/ Serial \/ WriteUart \/ UartSend
  PROVE  SessionInv'
<1>1. /\ UNCHANGED <<telnet_active, tcp, tx, received, out_data, printed, dropped>>
      /\ pc' \notin {"poll", "telnet"} => pc \notin {"poll", "telnet"}
  <2>1. CASE PollEnd
    BY <2>1 DEF PollEnd, socket_vars, session_vars
  <2>2. CASE Receive
    BY <2>2 DEF Receive, session_vars
  <2>3. CASE Serial
    BY <2>3 DEF Serial, serial_keeps, socket_vars, session_vars
  <2>4. CASE WriteUart
    BY <2>4 DEF WriteUart, serial_keeps, socket_vars, session_vars
  <2>5. CASE UartSend
    BY <2>5 DEF UartSend, socket_vars, session_vars
  <2> QED BY <2>1, <2>2, <2>3, <2>4, <2>5
<1>2. SessionInv
  BY DEF ConsoleInv
<1> QED BY <1>1, <1>2, SessionStays

(* A client that is done.                                                  *)
LEMMA SessionSession == ASSUME ConsoleInv, Session PROVE SessionInv'
<1>1. SessionInv /\ pc = "session" /\ UNCHANGED <<telnet_active, tx, received, out_data, printed, dropped>>
  BY DEF ConsoleInv, Session, session_vars
<1>2. AllText' = AllText
  BY <1>1 DEF AllText
<1>3. CASE tcp' = tcp
  <2>1. telnet_active /\ tcp # "Closed" => TextRight'
    BY <1>1, <1>2, TextStays DEF SessionInv
  <2> QED BY <1>1, <1>3, <2>1 DEF SessionInv, IsActive
<1>4. CASE tcp \in {"Established", "CloseWait"} /\ tcp' = "LastAck"
  <2>1. telnet_active /\ telnet_active'
    BY <1>1, <1>4 DEF SessionInv, IsActive
  <2>2. TextRight'
    BY <1>1, <1>2, <1>4, <2>1, TextStays DEF SessionInv
  <2> QED BY <1>4, <2>1, <2>2 DEF SessionInv, IsActive
<1>5. tcp' = tcp \/ (tcp \in {"Established", "CloseWait"} /\ tcp' = "LastAck")
  BY DEF Session, CanSend
<1> QED BY <1>3, <1>4, <1>5

(* A session begins, or the socket listens for the next one.               *)
LEMMA GreetingIsRight ==
  ASSUME AllText' = Greeting, printed' = <<>>
  PROVE  TextRight'
<1>1. /\ Greeting \in Seq(Int) /\ Len(Greeting) = 2
      /\ \A k \in 1..Len(Greeting) : ~(Greeting[k] > 0)
  <2>1. 1..2 = {1, 2}
    OBVIOUS
  <2> QED BY <2>1, Greets
<1>2. SubSeq(Greeting, 1, Len(Greeting)) = Greeting
  BY <1>1, SubSeqFull
<1>3. Greeting \o <<>> = Greeting
  BY <1>1, ConcatEmptySeq
<1>4. IsPartOf(AllText, printed)'
  BY <1>1 DEF IsPartOf
<1> QED BY <1>1, <1>2, <1>3, <1>4 DEF TextRight

LEMMA ListenSession == ASSUME ConsoleInv, Listen PROVE SessionInv'
<1>1. /\ SessionInv /\ pc = "telnet" /\ pc' = "session" /\ received' = received
      /\ tcp' = IF IsOpen(tcp) THEN tcp ELSE "Listen"
      /\ tx' = IF IsOpen(tcp) THEN tx ELSE <<>>
      /\ telnet_active' = IsActive(tcp')
  BY DEF ConsoleInv, Listen
<1>2. CASE tcp = "Closed"
  <2>1. tcp' = "Listen" /\ tx' = <<>> /\ ~telnet_active'
    BY <1>1, <1>2 DEF IsOpen, IsActive
  <2> QED BY <1>1, <2>1 DEF SessionInv, IsActive
<1>3. CASE tcp # "Closed" /\ ~IsActive(tcp)
  <2>1. tcp' = "Listen" /\ tx' = <<>> /\ ~telnet_active'
    BY <1>1, <1>3 DEF IsOpen, IsActive, SessionInv
  <2> QED BY <1>1, <2>1 DEF SessionInv, IsActive
<1>4. CASE IsActive(tcp) /\ telnet_active
  <2>1. tcp' = tcp /\ tcp # "Closed" /\ tx' = tx /\ telnet_active'
    BY <1>1, <1>4 DEF IsOpen, IsActive
  <2>2. UNCHANGED <<out_data, printed, dropped>>
    BY <1>4 DEF Listen, session_vars
  <2>3. TextRight'
    <3>1. AllText' = AllText
      BY <1>1, <2>1, <2>2 DEF AllText
    <3> QED BY <1>1, <1>4, <2>1, <2>2, <3>1, TextStays DEF SessionInv
  <2> QED BY <1>1, <1>4, <2>1, <2>3 DEF SessionInv, IsActive
<1>5. CASE IsActive(tcp) /\ ~telnet_active
  <2>1. tcp' = tcp /\ tcp # "Closed" /\ telnet_active' /\ tx' = <<>> /\ received' = <<>>
    BY <1>1, <1>5 DEF IsOpen, IsActive, SessionInv
  <2>2. out_data' = Greeting /\ printed' = <<>>
    BY <1>5, <2>1 DEF Listen, Greeted
  <2>3. AllText' = Greeting
    <3>1. <<>> \o <<>> = <<>> /\ <<>> \o Greeting = Greeting
      BY Greets, ConcatEmptySeq
    <3> QED BY <2>1, <2>2, <3>1 DEF AllText
  <2>4. TextRight'
    BY <2>2, <2>3, GreetingIsRight
  <2> QED BY <1>1, <1>5, <2>1, <2>4 DEF SessionInv, IsActive
<1> QED BY <1>2, <1>3, <1>4, <1>5

(* What out_data holds is sent.                                            *)
LEMMA SendSession == ASSUME ConsoleInv, Send PROVE SessionInv'
<1>1. /\ ConsoleTypeOK /\ SessionInv /\ pc = "send" /\ pc' = "serial"
      /\ UNCHANGED <<telnet_active, tcp, received, printed, dropped>>
  BY DEF ConsoleInv, Send, session_vars
<1>2. received \in Seq(Int) /\ tx \in Seq(Int) /\ out_data \in Seq(Int)
  BY <1>1 DEF ConsoleTypeOK
<1>3. PICK n \in 0..Len(out_data) :
        /\ tx' = tx \o SubSeq(out_data, 1, n) /\ out_data' = SubSeq(out_data, n + 1, Len(out_data))
        /\ ~CanSend => n = 0
  BY <1>1, SendPart
<1> DEFINE u == SubSeq(out_data, 1, n)
           v == SubSeq(out_data, n + 1, Len(out_data))
<1>4. ASSUME ~CanSend PROVE tx' = tx
  <2>1. SubSeq(out_data, 1, 0) = <<>>
    BY SubSeqEmpty
  <2>2. tx \o <<>> = tx
    BY <1>2, ConcatEmptySeq
  <2> QED BY <1>3, <1>4, <2>1, <2>2
<1>5. AllText' = AllText
  <2>1. u \in Seq(Int)
    <3>1. \A i \in 1..n : out_data[i] \in Int
      BY <1>2, ElementOfSeq
    <3> QED BY <1>2, <3>1, SubSeqProperties
  <2> DEFINE w == received \o tx
  <2>2. w \in Seq(Int)
    BY <1>2, ConcatProperties
  <2>3. (w \o u) \o v = w \o out_data
    <3> HIDE DEF u, v, w
    <3>1. w \in Seq(Int) /\ out_data \in Seq(Int) /\ n \in 0..Len(out_data)
      BY <1>2, <2>2
    <3> QED BY <3>1, BorderMoves DEF u, v
  <2>4. received \o (tx \o u) = (received \o tx) \o u
    <3> HIDE DEF u
    <3>1. received \in Seq(Int) /\ tx \in Seq(Int) /\ u \in Seq(Int)
      BY <1>2, <2>1
    <3> QED BY <3>1, Regroup, Zenon
  <2>5. AllText' = (received \o (tx \o u)) \o v
    BY <1>1, <1>3 DEF AllText
  <2> QED BY <2>3, <2>4, <2>5 DEF AllText
<1>6. telnet_active /\ tcp # "Closed" => TextRight'
  BY <1>1, <1>5, TextStays DEF SessionInv
<1>7. tcp \in {"Listen", "SynReceived"} => tx' = <<>>
  BY <1>1, <1>4 DEF CanSend, SessionInv
<1> QED BY <1>1, <1>6, <1>7 DEF SessionInv, IsActive

(* The text gets a part of the lines that are printed.                     *)
LEMMA TextGrows ==
  ASSUME TextRight, AllText \in Seq(Int), printed \in Seq(Int), dropped \in BOOLEAN,
         NEW p \in Nat, p > 0, \A m \in 1..Len(printed) : printed[m] < p,
         NEW lines \in {<<p>>, <<p, Return, NewLine>>}, lines \in Seq(Int), NEW n \in 0..Len(lines),
         AllText' = AllText \o SubSeq(lines, 1, n), printed' = printed \o lines,
         ~dropped' => ~dropped /\ n = Len(lines)
  PROVE  TextRight'
<1> DEFINE u == SubSeq(lines, 1, n)
           a == AllText
           g == Greeting
<1>1. u \in Seq(Int)
  <2>1. \A i \in 1..n : lines[i] \in Int
    BY ElementOfSeq
  <2> QED BY <2>1, SubSeqProperties
<1>2. /\ a \in Seq(Int) /\ Len(a) >= 2 /\ SubSeq(a, 1, 2) = g
      /\ IsPartOf(a, printed) /\ (~dropped => a = g \o printed)
  <2>1. Len(Greeting) = 2
    BY Greets
  <2> QED BY <2>1 DEF TextRight
<1>3. IsPartOf(a \o u, printed \o lines)
  <2> HIDE DEF a
  <2> QED BY <1>2, PartGrows
<1>4. ASSUME ~dropped' PROVE a \o u = g \o (printed \o lines)
  <2>1. u = lines /\ a = g \o printed
    <3>1. n = Len(lines) /\ ~dropped
      BY <1>4
    <3>2. SubSeq(lines, 1, Len(lines)) = lines
      BY SubSeqFull
    <3> QED BY <1>2, <3>1, <3>2
  <2>2. (g \o printed) \o lines = g \o (printed \o lines)
    <3>1. g \in Seq(Int) /\ printed \in Seq(Int) /\ lines \in Seq(Int)
      BY Greets
    <3> HIDE DEF g
    <3> QED BY <3>1, Regroup, Zenon
  <2> QED BY <2>1, <2>2
<1> HIDE DEF u
<1>5. Len(a \o u) >= 2 /\ SubSeq(a \o u, 1, 2) = g
  <2> HIDE DEF a, g
  <2>1. Len(a) \in Nat /\ Len(u) \in Nat /\ Len(a \o u) = Len(a) + Len(u)
    BY <1>1, <1>2, ConcatProperties, LenProperties
  <2>2. 1 \in 1..Len(a) /\ 2 \in 1..Len(a) /\ Len(a \o u) >= 2
    <3> DEFINE m == Len(a)
               l == Len(u)
               k == Len(a \o u)
    <3>1. m \in Nat /\ l \in Nat /\ k = m + l /\ m >= 2
      BY <1>2, <2>1
    <3> HIDE DEF m, l, k
    <3>2. 1 \in 1..m /\ 2 \in 1..m /\ k >= 2
      BY <3>1
    <3> QED BY <3>2 DEF m, k
  <2>3. SubSeq(a \o u, 1, 2) = SubSeq(a, 1, 2)
    BY <1>1, <1>2, <2>2, SubSeqOfConcat1
  <2> QED BY <1>2, <2>2, <2>3
<1>6. AllText' = a \o u /\ Len(g) = 2 /\ g = Greeting
  BY Greets DEF u
<1> HIDE DEF a, g
<1> QED BY <1>3, <1>4, <1>5, <1>6 DEF TextRight, IsPartOf

LEMMA PrintedSession == ASSUME ConsoleInv, Printed PROVE SessionInv'
<1>1. ConsoleTypeOK /\ PrintsInv /\ SessionInv
  BY DEF ConsoleInv
<1> DEFINE lines == Lines(text)
<1>2. /\ pc = "print" /\ UNCHANGED <<telnet_active, tcp, tx, received>>
      /\ out_data' = Fitting(out_data \o lines)
      /\ printed' = IF telnet_active THEN printed \o lines ELSE <<>>
      /\ dropped' = (dropped \/ Len(out_data) + Len(lines) > OutSize)
  BY DEF Printed, Pushed, serial_keeps, socket_vars
<1>3. /\ lines \in Seq(Int) /\ prints \in Nat
      /\ \/ lines = <<>>
         \/ /\ prints > 0 /\ lines \in {<<prints>>, <<prints, Return, NewLine>>}
            /\ \A m \in 1..Len(printed) : printed[m] < prints
  BY <1>1, PrintedText
<1>4. /\ out_data \in Seq(Int) /\ Len(out_data) <= OutSize /\ tx \in Seq(Int) /\ received \in Seq(Int)
      /\ printed \in Seq(Int) /\ dropped \in BOOLEAN
  BY <1>1 DEF ConsoleTypeOK
<1> HIDE DEF lines
<1>5. PICK n \in 0..Len(lines) :
        /\ Fitting(out_data \o lines) = out_data \o SubSeq(lines, 1, n)
        /\ Len(out_data) + Len(lines) <= OutSize => n = Len(lines)
  BY <1>3, <1>4, FittingAppends
<1> DEFINE u == SubSeq(lines, 1, n)
<1>6. u \in Seq(Int)
  <2>1. \A i \in 1..n : lines[i] \in Int
    BY <1>3, ElementOfSeq
  <2> QED BY <1>3, <2>1, SubSeqProperties
<1>7. AllText \in Seq(Int) /\ AllText' = AllText \o u
  <2> DEFINE w == received \o tx
  <2>1. w \in Seq(Int)
    BY <1>4, ConcatProperties
  <2>2. AllText = w \o out_data
    BY DEF AllText
  <2>3. AllText' = w \o (out_data \o u)
    BY <1>2, <1>5 DEF AllText
  <2> HIDE DEF w, u
  <2>4. w \o (out_data \o u) = (w \o out_data) \o u
    <3>1. w \in Seq(Int) /\ out_data \in Seq(Int) /\ u \in Seq(Int)
      BY <1>4, <1>6, <2>1
    <3> QED BY <3>1, Regroup, Zenon
  <2>5. w \o out_data \in Seq(Int)
    BY <1>4, <2>1, ConcatProperties
  <2> QED BY <2>2, <2>3, <2>4, <2>5
<1>8. ASSUME telnet_active, tcp # "Closed" PROVE TextRight'
  <2>1. TextRight /\ printed' = printed \o lines
    BY <1>1, <1>2, <1>8 DEF SessionInv
  <2>2. CASE lines = <<>>
    <3>1. u = <<>> /\ Len(lines) = 0
      BY <2>2, <1>5
    <3>2. AllText' = AllText
      BY <1>7, <3>1, ConcatEmptySeq
    <3>3. printed' = printed
      BY <1>4, <2>1, <2>2, ConcatEmptySeq
    <3>4. ~(Len(out_data) + Len(lines) > OutSize)
      BY <1>4, <3>1, ConsoleSizes, LenProperties
    <3>5. dropped' = dropped
      BY <1>2, <1>4, <3>4, Zenon
    <3> QED BY <2>1, <3>2, <3>3, <3>5, TextStays
  <2>3. CASE lines # <<>>
    <3>1. /\ prints > 0 /\ lines \in {<<prints>>, <<prints, Return, NewLine>>}
          /\ \A m \in 1..Len(printed) : printed[m] < prints
      BY <1>3, <2>3
    <3>2. ~dropped' => ~dropped /\ n = Len(lines)
      <4>1. ~(Len(out_data) + Len(lines) > OutSize) => Len(out_data) + Len(lines) <= OutSize
        BY <1>3, <1>4, ConsoleSizes, LenProperties
      <4>2. ~dropped' => ~dropped /\ ~(Len(out_data) + Len(lines) > OutSize)
        BY <1>2, Zenon
      <4> QED BY <1>5, <4>1, <4>2, Zenon
    <3> QED BY <1>3, <1>4, <1>7, <2>1, <3>1, <3>2, TextGrows
  <2> QED BY <2>2, <2>3
<1> QED BY <1>1, <1>2, <1>8 DEF SessionInv, IsActive

(***************************************************************************)
(* The theorems.                                                           *)
(***************************************************************************)
LEMMA ConsoleStep == ConsoleInv /\ [ConsoleNext]_console_vars => ConsoleInv'
<1> SUFFICES ASSUME ConsoleInv, [ConsoleNext]_console_vars PROVE ConsoleInv'
  OBVIOUS
<1>1. CASE Syn \/ Ack \/ Rst \/ Type \/ Fin \/ Take
  BY <1>1, NetworkStep, NetworkSession DEF ConsoleInv
<1>2. CASE UartSend \/ WriteUart
  BY <1>2, UartStep, OthersSession DEF ConsoleInv
<1>3. CASE PollEnd
  BY <1>3, TurnStep, OthersSession DEF ConsoleInv
<1>4. CASE Listen
  BY <1>4, TurnStep, ListenSession DEF ConsoleInv
<1>5. CASE Session
  BY <1>5, TurnStep, SessionSession DEF ConsoleInv
<1>6. CASE Send
  BY <1>6, TurnStep, SendSession DEF ConsoleInv
<1>7. CASE Receive
  BY <1>7, ReceiveStep, OthersSession DEF ConsoleInv
<1>8. CASE Serial
  BY <1>8, SerialStep, OthersSession DEF ConsoleInv
<1>9. CASE Printed
  BY <1>9, PrintedStep, PrintedSession DEF ConsoleInv
<1>10. CASE Reset
  BY <1>10, ResetStep
<1>11. CASE UNCHANGED console_vars
  <2>1. /\ UNCHANGED <<pc, back, text, todo, out_data, telnet_active, tcp, rx, tx, received, uart, told>>
        /\ UNCHANGED <<printed, dropped, prints>>
    BY <1>11 DEF console_vars, print_vars, socket_vars, uart_vars, session_vars, bounds_vars
  <2>2. ConsoleTypeOK /\ PanicInv /\ PrintsInv /\ SessionInv
    BY DEF ConsoleInv
  <2>3. ConsoleTypeOK'
    BY <2>1, <2>2 DEF ConsoleTypeOK
  <2>4. PanicInv' /\ PrintsInv'
    BY <2>1, <2>2 DEF PanicInv, PrintsInv, NextLeaving
  <2>5. SessionInv'
    BY <2>1, <2>2, SessionStays
  <2> QED BY <2>3, <2>4, <2>5 DEF ConsoleInv
<1> QED BY <1>1, <1>2, <1>3, <1>4, <1>5, <1>6, <1>7, <1>8, <1>9, <1>10, <1>11 DEF ConsoleNext, Client, Main

(* The inductive invariant of the terminals: where the bytes of a panic's  *)
(* message are, that what is printed is newer than all of the session's    *)
(* text, and which sessions main.rs has not seen yet.                      *)
THEOREM ConsoleInvariant == ConsoleSpec => []ConsoleInv
<1>1. ConsoleInit => ConsoleInv
  BY ConsoleInitInv
<1>2. ConsoleInv /\ [ConsoleNext]_console_vars => ConsoleInv'
  BY ConsoleStep
<1> QED BY <1>1, <1>2, PTL DEF ConsoleSpec

(* A telnet client reads the greeting and then, in order and never twice,  *)
(* what either terminal printed since; out_data and the socket's buffer    *)
(* hold the rest of that text and nothing from before the session          *)
(* (main.rs, with Output of menu.rs).                                      *)
THEOREM SessionTextHolds == ConsoleSpec => []SessionText
<1>1. ConsoleInv => SessionText
  BY DEF ConsoleInv, SessionInv, SessionText, IsActive
<1> QED BY <1>1, ConsoleInvariant, PTL

(* When the panic handler resets the chip, the UART has sent all of the    *)
(* panic's message: the text that the handler writes behind it fills what  *)
(* the UART holds (panic.rs).                                              *)
THEOREM PanicIsTold == ConsoleSpec => []PanicTold
<1>1. ASSUME ConsoleInv, pc = "panic", todo = <<>> PROVE told = Info
  <2>1. told = IF NextLeaving < 0 THEN 0 ELSE IF NextLeaving > Info THEN Info ELSE NextLeaving
    BY <1>1 DEF ConsoleInv, PanicInv
  <2>2. /\ Len(uart) \in Nat /\ Len(uart) <= UartDepth /\ UartDepth \in Nat /\ UartDepth <= 2 * Done
        /\ Info \in Nat /\ 2 * Done \in Nat
    BY <1>1, ConsoleSizes, LenProperties DEF ConsoleInv, ConsoleTypeOK
  <2>3. NextLeaving >= Info /\ NextLeaving \in Int
    <3>1. Len(todo) = 0 /\ NextLeaving = Info + 2 * Done - Len(todo) - Len(uart)
      BY <1>1 DEF NextLeaving
    <3> DEFINE d == 2 * Done
    <3> HIDE DEF d
    <3>2. NextLeaving = Info + d - 0 - Len(uart) /\ d \in Nat /\ Len(uart) <= d
      BY <2>2, <3>1 DEF d
    <3> QED BY <2>2, <3>2
  <2> QED BY <2>1, <2>2, <2>3
<1>2. ConsoleInv => PanicTold
  BY <1>1 DEF PanicTold
<1> QED BY <1>2, ConsoleInvariant, PTL
==================================================================================
