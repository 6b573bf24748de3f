------------------------------ MODULE DisplayProofs ------------------------------
(***************************************************************************)
(* Theorems about the commands of the menu and the registers they write,   *)
(* for all numbers of outputs and panels, widths of the fields, sizes of   *)
(* the memories, images and palettes.                                      *)
(***************************************************************************)
EXTENDS Display, SequenceTheorems, TLAPS

(***************************************************************************)
(* Arithmetic.                                                             *)
(***************************************************************************)

(* Quotient and remainder are determined by their sum and their ranges. *)
LEMMA Divides ==
  ASSUME NEW d \in Nat, d > 0, NEW q \in Int, NEW r \in 0..(d - 1)
  PROVE  (q * d + r) \div d = q /\ (q * d + r) % d = r
<1> DEFINE n == q * d + r
           a == n \div d
           b == n % d
<1>1. n \in Int /\ q * d \in Int
  OBVIOUS
<1>2. a \in Int /\ b \in 0..(d - 1) /\ n = d * a + b
  BY <1>1
<1>3. n = d * q + r
  OBVIOUS
<1> HIDE DEF n, a, b
<1>4. d * a \in Int /\ d * q \in Int /\ d * (a - q) = d * a - d * q
  BY <1>2
<1>5. d * (a - q) = r - b
  BY <1>1, <1>2, <1>3, <1>4
<1>6. a - q < 1
  <2>1. SUFFICES ASSUME a - q >= 1 PROVE FALSE
    BY <1>2
  <2>2. d * (a - q) >= d
    BY <2>1, <1>2
  <2> QED BY <2>2, <1>5, <1>2
<1>7. a - q > -1
  <2>1. SUFFICES ASSUME a - q <= -1 PROVE FALSE
    BY <1>2
  <2>2. d * (a - q) <= -d
    BY <2>1, <1>2
  <2> QED BY <2>2, <1>5, <1>2
<1>8. a = q
  BY <1>2, <1>6, <1>7
<1>9. b = r
  BY <1>8, <1>2, <1>3, <1>1, <1>5
<1> QED BY <1>8, <1>9 DEF n, a, b

LEMMA Digits ==
  ASSUME NEW d \in Nat, d > 0, NEW q \in Int, NEW r \in 0..(d - 1), NEW s \in Int, NEW t \in 0..(d - 1),
         q * d + r = s * d + t
  PROVE  q = s /\ r = t
<1>1. (q * d + r) \div d = q /\ (q * d + r) % d = r
  BY Divides
<1>2. (s * d + t) \div d = s /\ (s * d + t) % d = t
  BY Divides
<1> QED BY <1>1, <1>2, Zenon

LEMMA Quotient ==
  ASSUME NEW d \in Nat, d > 0, NEW n \in Nat
  PROVE  /\ n \div d \in Nat /\ n % d \in 0..(d - 1)
         /\ n = (n \div d) * d + (n % d)
OBVIOUS

LEMMA Remainder ==
  ASSUME NEW d \in Nat, d > 0, NEW r \in 0..(d - 1)
  PROVE  r % d = r
<1>1. (0 * d + r) % d = r
  BY Divides
<1> QED BY <1>1

(* A digit and the number before it stay within the product. *)
LEMMA Within ==
  ASSUME NEW d \in Nat, d > 0, NEW e \in Nat, e > 0, NEW q \in 0..(e - 1), NEW r \in 0..(d - 1)
  PROVE  q * d + r \in 0..(e * d - 1) /\ e * d \in Nat /\ e * d > 0
<1>1. q * d \in Nat /\ e * d \in Nat /\ e * d > 0
  OBVIOUS
<1>2. q * d <= (e - 1) * d
  OBVIOUS
<1>3. (e - 1) * d = e * d - d
  OBVIOUS
<1> QED BY <1>1, <1>2, <1>3

LEMMA Splits ==
  ASSUME NEW d \in Nat, d > 0, NEW e \in Nat, e > 0, NEW n \in 0..(e * d - 1)
  PROVE  \E q \in 0..(e - 1), r \in 0..(d - 1) : n = q * d + r
<1> DEFINE q == n \div d
           r == n % d
<1>1. e * d \in Nat /\ n \in Nat
  OBVIOUS
<1>2. q \in Nat /\ r \in 0..(d - 1) /\ n = q * d + r
  BY <1>1, Quotient
<1> HIDE DEF q, r
<1>3. q < e
  <2> SUFFICES ASSUME q >= e PROVE FALSE
    BY <1>2
  <2>1. q * d >= e * d
    BY <1>2
  <2>2. q * d \in Nat
    BY <1>2
  <2> QED BY <1>1, <1>2, <2>1, <2>2
<1>4. q \in 0..(e - 1)
  BY <1>2, <1>3
<1> QED BY <1>2, <1>4

(***************************************************************************)
(* The fields of a register of three.                                      *)
(***************************************************************************)

(* The register whose fields have the values a, b and c.                   *)
Word(u, v, a, b, c) == (c * v + b) * u + a

LEMMA WordDigits ==
  ASSUME NEW u \in Nat, u > 0, NEW v \in Nat, v > 0, NEW w \in Nat, w > 0,
         NEW a \in 0..(u - 1), NEW b \in 0..(v - 1), NEW c \in 0..(w - 1)
  PROVE  /\ Word(u, v, a, b, c) \in 0..((w * v) * u - 1)
         /\ (Word(u, v, a, b, c) \div 1) % u = a
         /\ (Word(u, v, a, b, c) \div u) % v = b
         /\ (Word(u, v, a, b, c) \div (u * v)) % w = c
<1> DEFINE h == c * v + b
           x == h * u + a
<1>1. h \in 0..(w * v - 1) /\ w * v \in Nat /\ w * v > 0
  BY Within
<1>2. h \div v = c /\ h % v = b
  BY Divides
<1> HIDE DEF h
<1>3. x \in 0..((w * v) * u - 1)
  <2> DEFINE e == w * v
  <2>1. h \in 0..(e - 1) /\ e \in Nat /\ e > 0
    BY <1>1
  <2> HIDE DEF e
  <2>2. h * u + a \in 0..(e * u - 1)
    BY <2>1, Within
  <2> QED BY <2>2 DEF e
<1>4. h \in Nat
  BY <1>1
<1>5. x \div u = h /\ x % u = a
  BY <1>4, Divides
<1>6. x \div 1 = x
  <2>1. x \in Int /\ 0 \in 0..(1 - 1)
    BY <1>4
  <2> HIDE DEF x
  <2>2. (x * 1 + 0) \div 1 = x
    BY <2>1, Divides
  <2> QED BY <2>1, <2>2
<1>7. x \div (u * v) = c
  <2>1. b * u + a \in 0..(v * u - 1) /\ v * u \in Nat /\ v * u > 0
    BY Within
  <2> DEFINE d == v * u
             r == b * u + a
  <2>2. x = c * d + r /\ u * v = d
    BY DEF h
  <2>3. r \in 0..(d - 1) /\ d \in Nat /\ d > 0 /\ c \in Int
    BY <2>1
  <2> HIDE DEF d, r, x
  <2>4. (c * d + r) \div d = c
    BY <2>3, Divides
  <2> QED BY <2>2, <2>4
<1>8. c % w = c
  BY Remainder
<1>9. Word(u, v, a, b, c) = x
  BY DEF Word, h
<1> HIDE DEF x
<1> QED BY <1>2, <1>3, <1>5, <1>6, <1>7, <1>8, <1>9

LEMMA IsWord ==
  ASSUME NEW u \in Nat, u > 0, NEW v \in Nat, v > 0, NEW w \in Nat, w > 0,
         NEW x \in 0..((w * v) * u - 1)
  PROVE  \E a \in 0..(u - 1), b \in 0..(v - 1), c \in 0..(w - 1) : x = Word(u, v, a, b, c)
<1> DEFINE e == w * v
<1>1. e \in Nat /\ e > 0 /\ x \in 0..(e * u - 1)
  OBVIOUS
<1> HIDE DEF e
<1>2. PICK h \in 0..(e - 1), a \in 0..(u - 1) : x = h * u + a
  BY <1>1, Splits
<1>3. PICK c \in 0..(w - 1), b \in 0..(v - 1) : h = c * v + b
  <2>1. h \in 0..(w * v - 1)
    BY <1>2 DEF e
  <2> QED BY <2>1, Splits
<1> QED BY <1>2, <1>3 DEF Word

(* Reading and writing one field of such a register. *)
LEMMA WordGets ==
  ASSUME NEW u \in Nat, u > 0, NEW v \in Nat, v > 0, NEW w \in Nat, w > 0,
         NEW a \in 0..(u - 1), NEW b \in 0..(v - 1), NEW c \in 0..(w - 1)
  PROVE  /\ Get(Word(u, v, a, b, c), [unit |-> 1, values |-> u]) = a
         /\ Get(Word(u, v, a, b, c), [unit |-> u, values |-> v]) = b
         /\ Get(Word(u, v, a, b, c), [unit |-> u * v, values |-> w]) = c
<1> DEFINE x == Word(u, v, a, b, c)
<1>1. (x \div 1) % u = a /\ (x \div u) % v = b /\ (x \div (u * v)) % w = c
  BY WordDigits
<1> HIDE DEF x
<1>2. Get(x, [unit |-> 1, values |-> u]) = (x \div 1) % u
  BY Zenon DEF Get
<1>3. Get(x, [unit |-> u, values |-> v]) = (x \div u) % v
  BY Zenon DEF Get
<1>4. Get(x, [unit |-> u * v, values |-> w]) = (x \div (u * v)) % w
  BY Zenon DEF Get
<1>5. /\ Get(x, [unit |-> 1, values |-> u]) = a
      /\ Get(x, [unit |-> u, values |-> v]) = b
      /\ Get(x, [unit |-> u * v, values |-> w]) = c
  BY <1>1, <1>2, <1>3, <1>4, Zenon
<1> QED BY <1>5 DEF x

LEMMA WordPuts ==
  ASSUME NEW u \in Nat, u > 0, NEW v \in Nat, v > 0, NEW w \in Nat, w > 0,
         NEW a \in 0..(u - 1), NEW b \in 0..(v - 1), NEW c \in 0..(w - 1), NEW n \in Nat
  PROVE  /\ Put(Word(u, v, a, b, c), [unit |-> 1, values |-> u], n) = Word(u, v, n % u, b, c)
         /\ Put(Word(u, v, a, b, c), [unit |-> u, values |-> v], n) = Word(u, v, a, n % v, c)
         /\ Put(Word(u, v, a, b, c), [unit |-> u * v, values |-> w], n) = Word(u, v, a, b, n % w)
<1> DEFINE x == Word(u, v, a, b, c)
<1>1. /\ x - 1 * a + 1 * (n % u) = Word(u, v, n % u, b, c)
      /\ x - u * b + u * (n % v) = Word(u, v, a, n % v, c)
      /\ x - (u * v) * c + (u * v) * (n % w) = Word(u, v, a, b, n % w)
  <2> DEFINE l == n % u
             m == n % v
             k == n % w
  <2>1. l \in Nat /\ m \in Nat /\ k \in Nat
    OBVIOUS
  <2> HIDE DEF l, m, k
  <2>2. x - 1 * a + 1 * l = Word(u, v, l, b, c)
    BY <2>1 DEF Word
  <2>3. x - u * b + u * m = Word(u, v, a, m, c)
    BY <2>1 DEF Word
  <2>4. x - (u * v) * c + (u * v) * k = Word(u, v, a, b, k)
    BY <2>1 DEF Word
  <2> HIDE DEF x
  <2> QED BY <2>2, <2>3, <2>4, Zenon DEF l, m, k
<1>2. /\ Get(x, [unit |-> 1, values |-> u]) = a
      /\ Get(x, [unit |-> u, values |-> v]) = b
      /\ Get(x, [unit |-> u * v, values |-> w]) = c
  BY WordGets
<1> HIDE DEF x
<1>3. Put(x, [unit |-> 1, values |-> u], n) = x - 1 * a + 1 * (n % u)
  BY <1>2, Zenon DEF Put
<1>4. Put(x, [unit |-> u, values |-> v], n) = x - u * b + u * (n % v)
  BY <1>2, Zenon DEF Put
<1>5. Put(x, [unit |-> u * v, values |-> w], n) = x - (u * v) * c + (u * v) * (n % w)
  BY <1>2, Zenon DEF Put
<1>6. /\ Put(x, [unit |-> 1, values |-> u], n) = Word(u, v, n % u, b, c)
      /\ Put(x, [unit |-> u, values |-> v], n) = Word(u, v, a, n % v, c)
      /\ Put(x, [unit |-> u * v, values |-> w], n) = Word(u, v, a, b, n % w)
  BY <1>1, <1>3, <1>4, <1>5, Zenon
<1> QED BY <1>6 DEF x

(* All bits of such a register are bits of its fields. *)
LEMMA WordKept ==
  ASSUME NEW u \in Nat, u > 0, NEW v \in Nat, v > 0, NEW w \in Nat, w > 0,
         NEW a \in 0..(u - 1), NEW b \in 0..(v - 1), NEW c \in 0..(w - 1)
  PROVE  /\ Word(u, v, a, b, c) \in 0..((u * v) * w - 1)
         /\ Word(u, v, a, b, c) % ((u * v) * w) = Word(u, v, a, b, c)
<1> DEFINE x == Word(u, v, a, b, c)
           k == (u * v) * w
<1>1. x \in 0..((w * v) * u - 1)
  BY WordDigits
<1> HIDE DEF x
<1>2. k = (w * v) * u /\ k \in Nat /\ k > 0
  OBVIOUS
<1> HIDE DEF k
<1>3. x \in 0..(k - 1)
  BY <1>1, <1>2
<1>4. x % k = x
  BY <1>2, <1>3, Remainder
<1> QED BY <1>3, <1>4 DEF x, k

LEMMA DisplaySizes ==
  /\ OUTPUTS \in Nat /\ OUTPUTS > 0 /\ CHAIN_LENGTH \in Nat /\ CHAIN_LENGTH > 0
  /\ Bytes \in Nat /\ Bytes > 2 /\ Shorts \in Nat /\ Shorts > 0 /\ Rotations \in Nat /\ Rotations > 0
  /\ MemoryWords \in Nat /\ HeaderWords \in Nat /\ PaletteSize \in Nat /\ UniversePixels \in Nat
  /\ PixelBytes \in Nat /\ PixelBytes > 0
BY DisplayAssumption

(* The registers ctrl and those of the panels, by their fields.            *)
Control(indexed, enabled, width) == Word(2, 2, indexed, enabled, width)
PanelRegister(x, y, rot) == Word(Bytes, Bytes, x, y, rot)

LEMMA FieldsAre ==
  /\ Indexed = [unit |-> 1, values |-> 2] /\ Enabled = [unit |-> 2, values |-> 2]
  /\ Width = [unit |-> 2 * 2, values |-> Shorts]
  /\ X = [unit |-> 1, values |-> Bytes] /\ Y = [unit |-> Bytes, values |-> Bytes]
  /\ Rot = [unit |-> Bytes * Bytes, values |-> Rotations]
<1>1. Indexed = [unit |-> 1, values |-> 2]
  BY DEF Indexed, First, Field
<1>2. Enabled = [unit |-> 2, values |-> 2]
  BY <1>1 DEF Enabled, After, Field
<1>3. Width = [unit |-> 2 * 2, values |-> Shorts]
  BY <1>2 DEF Width, After, Field
<1>4. X = [unit |-> 1, values |-> Bytes]
  BY DEF X, First, Field
<1>5. Y = [unit |-> Bytes, values |-> Bytes]
  <2>1. 1 * Bytes = Bytes
    BY DisplaySizes
  <2> QED BY <1>4, <2>1 DEF Y, After, Field
<1>6. Rot = [unit |-> Bytes * Bytes, values |-> Rotations]
  BY <1>5 DEF Rot, After, Field
<1> QED BY <1>1, <1>2, <1>3, <1>4, <1>5, <1>6

LEMMA ControlFields ==
  ASSUME NEW i \in 0..1, NEW e \in 0..1, NEW w \in 0..(Shorts - 1)
  PROVE  /\ Get(Control(i, e, w), Indexed) = i
         /\ Get(Control(i, e, w), Enabled) = e
         /\ Get(Control(i, e, w), Width) = w
         /\ Control(i, e, w) \in Bits(CtrlWord)
         /\ Kept(CtrlWord, Control(i, e, w)) = Control(i, e, w)
<1> DEFINE d == 2
<1>1. Shorts \in Nat /\ Shorts > 0 /\ d \in Nat /\ d > 0 /\ i \in 0..(d - 1) /\ e \in 0..(d - 1)
  BY DisplaySizes
<1>2. Bits(CtrlWord) = 0..((d * d) * Shorts - 1)
  BY FieldsAre DEF Bits, Fields
<1>3. ASSUME NEW x PROVE Kept(CtrlWord, x) = x % ((d * d) * Shorts)
  BY FieldsAre DEF Kept, Fields
<1>4. ASSUME NEW x PROVE Control(i, e, w) = Word(d, d, i, e, w)
  BY Zenon DEF Control
<1>5. /\ Indexed = [unit |-> 1, values |-> d] /\ Enabled = [unit |-> d, values |-> d]
      /\ Width = [unit |-> d * d, values |-> Shorts]
  BY FieldsAre
<1> HIDE DEF d
<1>6. /\ Get(Word(d, d, i, e, w), [unit |-> 1, values |-> d]) = i
      /\ Get(Word(d, d, i, e, w), [unit |-> d, values |-> d]) = e
      /\ Get(Word(d, d, i, e, w), [unit |-> d * d, values |-> Shorts]) = w
  BY <1>1, WordGets
<1>7. /\ Word(d, d, i, e, w) \in 0..((d * d) * Shorts - 1)
      /\ Word(d, d, i, e, w) % ((d * d) * Shorts) = Word(d, d, i, e, w)
  BY <1>1, WordKept
<1> QED BY <1>2, <1>3, <1>4, <1>5, <1>6, <1>7, Zenon

LEMMA ControlPuts ==
  ASSUME NEW i \in 0..1, NEW e \in 0..1, NEW w \in 0..(Shorts - 1), NEW n \in Nat
  PROVE  /\ Put(Control(i, e, w), Indexed, n) = Control(n % 2, e, w)
         /\ Put(Control(i, e, w), Enabled, n) = Control(i, n % 2, w)
         /\ Put(Control(i, e, w), Width, n) = Control(i, e, n % Shorts)
<1> DEFINE d == 2
<1>1. Shorts \in Nat /\ Shorts > 0 /\ d \in Nat /\ d > 0 /\ i \in 0..(d - 1) /\ e \in 0..(d - 1)
  BY DisplaySizes
<1>2. ASSUME NEW x, NEW y, NEW z PROVE Control(x, y, z) = Word(d, d, x, y, z)
  BY Zenon DEF Control
<1>3. /\ Indexed = [unit |-> 1, values |-> d] /\ Enabled = [unit |-> d, values |-> d]
      /\ Width = [unit |-> d * d, values |-> Shorts]
  BY FieldsAre
<1>4. n % 2 = n % d
  OBVIOUS
<1> HIDE DEF d
<1>5. /\ Put(Word(d, d, i, e, w), [unit |-> 1, values |-> d], n) = Word(d, d, n % d, e, w)
      /\ Put(Word(d, d, i, e, w), [unit |-> d, values |-> d], n) = Word(d, d, i, n % d, w)
      /\ Put(Word(d, d, i, e, w), [unit |-> d * d, values |-> Shorts], n) = Word(d, d, i, e, n % Shorts)
  BY <1>1, WordPuts
<1> QED BY <1>2, <1>3, <1>4, <1>5, Zenon

LEMMA PanelFields ==
  ASSUME NEW x \in 0..(Bytes - 1), NEW y \in 0..(Bytes - 1), NEW r \in 0..(Rotations - 1),
         NEW word \in Nat, word # CtrlWord
  PROVE  /\ PanelParam(PanelRegister(x, y, r)) = [x |-> x, y |-> y, rot |-> r]
         /\ PanelRegister(x, y, r) \in Bits(word)
         /\ Kept(word, PanelRegister(x, y, r)) = PanelRegister(x, y, r)
<1> DEFINE p == PanelRegister(x, y, r)
<1>1. Bytes \in Nat /\ Bytes > 0 /\ Rotations \in Nat /\ Rotations > 0
  BY DisplaySizes
<1>2. p = Word(Bytes, Bytes, x, y, r)
  BY DEF PanelRegister
<1>3. Get(p, X) = x /\ Get(p, Y) = y /\ Get(p, Rot) = r
  <2>1. /\ Get(Word(Bytes, Bytes, x, y, r), [unit |-> 1, values |-> Bytes]) = x
        /\ Get(Word(Bytes, Bytes, x, y, r), [unit |-> Bytes, values |-> Bytes]) = y
        /\ Get(Word(Bytes, Bytes, x, y, r), [unit |-> Bytes * Bytes, values |-> Rotations]) = r
    BY <1>1, WordGets
  <2> QED BY <1>2, <2>1, FieldsAre, Zenon
<1>4. /\ Word(Bytes, Bytes, x, y, r) \in 0..((Bytes * Bytes) * Rotations - 1)
      /\ Word(Bytes, Bytes, x, y, r) % ((Bytes * Bytes) * Rotations) = Word(Bytes, Bytes, x, y, r)
  BY <1>1, WordKept
<1>5. /\ Bits(word) = 0..((Bytes * Bytes) * Rotations - 1)
      /\ Kept(word, p) = p % ((Bytes * Bytes) * Rotations)
  BY FieldsAre DEF Bits, Kept, Fields
<1>6. PanelParam(p) = [x |-> x, y |-> y, rot |-> r]
  BY <1>3 DEF PanelParam
<1> QED BY <1>2, <1>4, <1>5, <1>6, Zenon

LEMMA PanelPuts ==
  ASSUME NEW x \in 0..(Bytes - 1), NEW y \in 0..(Bytes - 1), NEW r \in 0..(Rotations - 1), NEW n \in Nat
  PROVE  /\ Put(PanelRegister(x, y, r), X, n) = PanelRegister(n % Bytes, y, r)
         /\ Put(PanelRegister(x, y, r), Y, n) = PanelRegister(x, n % Bytes, r)
         /\ Put(PanelRegister(x, y, r), Rot, n) = PanelRegister(x, y, n % Rotations)
<1>1. Bytes \in Nat /\ Bytes > 0 /\ Rotations \in Nat /\ Rotations > 0
  BY DisplaySizes
<1>2. /\ Put(Word(Bytes, Bytes, x, y, r), [unit |-> 1, values |-> Bytes], n)
           = Word(Bytes, Bytes, n % Bytes, y, r)
      /\ Put(Word(Bytes, Bytes, x, y, r), [unit |-> Bytes, values |-> Bytes], n)
           = Word(Bytes, Bytes, x, n % Bytes, r)
      /\ Put(Word(Bytes, Bytes, x, y, r), [unit |-> Bytes * Bytes, values |-> Rotations], n)
           = Word(Bytes, Bytes, x, y, n % Rotations)
  BY <1>1, WordPuts
<1> QED BY <1>2, FieldsAre, Zenon DEF PanelRegister

(***************************************************************************)
(* Register files.                                                         *)
(***************************************************************************)

LEMMA ControlIs ==
  ASSUME NEW b \in Bits(CtrlWord)
  PROVE  \E i \in 0..1, e \in 0..1, w \in 0..(Shorts - 1) : b = Control(i, e, w)
<1> DEFINE d == 2
<1>1. Shorts \in Nat /\ Shorts > 0 /\ d \in Nat /\ d > 0
  BY DisplaySizes
<1>2. b \in 0..((d * d) * Shorts - 1)
  BY FieldsAre DEF Bits, Fields
<1>3. 0..(d - 1) = 0..1
  OBVIOUS
<1>4. ASSUME NEW x, NEW y, NEW z PROVE Control(x, y, z) = Word(d, d, x, y, z)
  BY Zenon DEF Control
<1> HIDE DEF d
<1>5. b \in 0..((Shorts * d) * d - 1)
  <2>1. (d * d) * Shorts = (Shorts * d) * d
    BY <1>1
  <2> QED BY <1>2, <2>1
<1>6. \E i \in 0..(d - 1), e \in 0..(d - 1), w \in 0..(Shorts - 1) : b = Word(d, d, i, e, w)
  BY <1>1, <1>5, IsWord
<1> QED BY <1>3, <1>4, <1>6, Zenon

LEMMA PanelIs ==
  ASSUME NEW word \in Nat, word # CtrlWord, NEW b \in Bits(word)
  PROVE  \E x \in 0..(Bytes - 1), y \in 0..(Bytes - 1), r \in 0..(Rotations - 1) : b = PanelRegister(x, y, r)
<1>1. Bytes \in Nat /\ Bytes > 0 /\ Rotations \in Nat /\ Rotations > 0
  BY DisplaySizes
<1>2. b \in 0..((Bytes * Bytes) * Rotations - 1)
  BY FieldsAre DEF Bits, Fields
<1>3. (Bytes * Bytes) * Rotations = (Rotations * Bytes) * Bytes
  BY <1>1
<1>4. b \in 0..((Rotations * Bytes) * Bytes - 1)
  BY <1>2, <1>3
<1>5. \E x \in 0..(Bytes - 1), y \in 0..(Bytes - 1), r \in 0..(Rotations - 1) : b = Word(Bytes, Bytes, x, y, r)
  BY <1>1, <1>4, IsWord
<1> QED BY <1>5, Zenon DEF PanelRegister

(* What a field has is small enough to be put there again. *)
LEMMA BitsKept ==
  ASSUME NEW word \in Nat, NEW b \in Bits(word)
  PROVE  b \in Nat /\ Kept(word, b) = b
<1>1. b \in Nat
  <2>1. Fields(word).unit * Fields(word).values \in Nat
    <3>1. CASE word = CtrlWord
      BY <3>1, DisplaySizes, FieldsAre DEF Fields
    <3>2. CASE word # CtrlWord
      <4>1. (Bytes * Bytes) * Rotations \in Nat
        BY DisplaySizes
      <4> QED BY <3>2, <4>1, FieldsAre DEF Fields
    <3> QED BY <3>1, <3>2
  <2> QED BY <2>1 DEF Bits
<1>2. ASSUME word = CtrlWord PROVE Kept(word, b) = b
  <2>1. b \in Bits(CtrlWord)
    BY <1>2
  <2>2. PICK i \in 0..1, e \in 0..1, w \in 0..(Shorts - 1) : b = Control(i, e, w)
    BY <2>1, ControlIs, Zenon
  <2>3. Kept(CtrlWord, Control(i, e, w)) = Control(i, e, w)
    BY <2>2, ControlFields
  <2> QED BY <1>2, <2>2, <2>3, Zenon
<1>3. ASSUME word # CtrlWord PROVE Kept(word, b) = b
  <2>1. PICK x \in 0..(Bytes - 1), y \in 0..(Bytes - 1), r \in 0..(Rotations - 1) :
          b = PanelRegister(x, y, r)
    BY <1>3, PanelIs, Zenon
  <2>2. Kept(word, PanelRegister(x, y, r)) = PanelRegister(x, y, r)
    BY <1>3, <2>1, PanelFields, Zenon
  <2> QED BY <2>1, <2>2, Zenon
<1> QED BY <1>1, <1>2, <1>3

LEMMA ResetRegisters ==
  /\ ResetValue = Control(0, 0, 0) /\ ResetValue = PanelRegister(0, 0, 0)
  /\ \A word \in Nat : ResetValue \in Bits(word)
<1>1. ResetValue = Control(0, 0, 0)
  BY DEF ResetValue, Control, Word
<1>2. ResetValue = PanelRegister(0, 0, 0)
  BY DisplaySizes DEF ResetValue, PanelRegister, Word
<1>3. 0 \in 0..1 /\ 0 \in 0..(Shorts - 1) /\ 0 \in 0..(Bytes - 1) /\ 0 \in 0..(Rotations - 1)
  BY DisplaySizes
<1>4. ASSUME NEW word \in Nat PROVE ResetValue \in Bits(word)
  <2>1. CASE word = CtrlWord
    BY <1>1, <1>3, <2>1, ControlFields, Zenon
  <2>2. CASE word # CtrlWord
    BY <1>2, <1>3, <2>2, PanelFields, Zenon
  <2> QED BY <2>1, <2>2
<1> QED BY <1>1, <1>2, <1>4

LEMMA Offsets ==
  ASSUME NEW p \in Panels
  PROVE  /\ p[1] \in 0..(OUTPUTS - 1) /\ p[2] \in 0..(CHAIN_LENGTH - 1)
         /\ PanelOffset(p[1], p[2]) \in 0..(OUTPUTS * CHAIN_LENGTH - 1)
         /\ PanelWord(PanelOffset(p[1], p[2])) \in 1..(RegisterWords - 1)
         /\ PanelWord(PanelOffset(p[1], p[2])) # CtrlWord
<1>1. p[1] \in 0..(OUTPUTS - 1) /\ p[2] \in 0..(CHAIN_LENGTH - 1)
  BY DEF Panels
<1>2. p[1] * CHAIN_LENGTH + p[2] \in 0..(OUTPUTS * CHAIN_LENGTH - 1) /\ OUTPUTS * CHAIN_LENGTH \in Nat
  BY <1>1, DisplaySizes, Within
<1> DEFINE n == OUTPUTS * CHAIN_LENGTH
           o == PanelOffset(p[1], p[2])
<1>3. o \in 0..(n - 1) /\ n \in Nat
  BY <1>2 DEF PanelOffset
<1>4. RegisterWords = 1 + n
  BY DEF RegisterWords
<1> HIDE DEF n, o
<1>5. PanelWord(o) \in 1..(RegisterWords - 1) /\ PanelWord(o) # CtrlWord
  BY <1>3, <1>4 DEF PanelWord, CtrlWord
<1> QED BY <1>1, <1>3, <1>5 DEF n, o

(* No two panels share a register. *)
LEMMA OffsetsDiffer ==
  ASSUME NEW p \in Panels, NEW q \in Panels,
         PanelWord(PanelOffset(p[1], p[2])) = PanelWord(PanelOffset(q[1], q[2]))
  PROVE  p = q
<1>1. /\ p[1] \in 0..(OUTPUTS - 1) /\ p[2] \in 0..(CHAIN_LENGTH - 1)
      /\ q[1] \in 0..(OUTPUTS - 1) /\ q[2] \in 0..(CHAIN_LENGTH - 1)
  BY Offsets
<1>2. PanelOffset(p[1], p[2]) = PanelOffset(q[1], q[2])
  BY Offsets DEF PanelWord
<1>3. p[1] * CHAIN_LENGTH + p[2] = q[1] * CHAIN_LENGTH + q[2]
  BY <1>2 DEF PanelOffset
<1>6. p[1] = q[1] /\ p[2] = q[2]
  <2> DEFINE d == CHAIN_LENGTH
             a == p[1]
             b == p[2]
             e == q[1]
             f == q[2]
  <2>1. /\ d \in Nat /\ d > 0 /\ a \in Int /\ e \in Int /\ b \in 0..(d - 1) /\ f \in 0..(d - 1)
        /\ a * d + b = e * d + f
    BY <1>1, <1>3, DisplaySizes
  <2> HIDE DEF a, b, d, e, f
  <2>2. a = e /\ b = f
    BY <2>1, Digits
  <2> QED BY <2>2 DEF a, b, e, f
<1>7. p = <<p[1], p[2]>> /\ q = <<q[1], q[2]>>
  BY DEF Panels
<1> QED BY <1>6, <1>7, Zenon

(* What is read in a register file. *)
LEMMA RegistersShow ==
  ASSUME NEW words, RegistersOK(words)
  PROVE  /\ \E i \in 0..1, e \in 0..1, w \in 0..(Shorts - 1) : words[CtrlWord] = Control(i, e, w)
         /\ PanelsOf(words) \in [Panels -> Settings!PanelParam]
<1>1. CtrlWord \in 0..(RegisterWords - 1)
  BY DisplaySizes, Within DEF CtrlWord, RegisterWords
<1>2. words[CtrlWord] \in Bits(CtrlWord)
  BY <1>1 DEF RegistersOK
<1>3. ASSUME NEW p \in Panels PROVE PanelAt(words, p) \in Settings!PanelParam
  <2> DEFINE k == PanelWord(PanelOffset(p[1], p[2]))
  <2>1. k \in 1..(RegisterWords - 1) /\ k # CtrlWord /\ RegisterWords \in Int
    BY Offsets, DisplaySizes DEF RegisterWords
  <2>2. k \in DOMAIN words /\ k \in Nat
    BY <2>1 DEF RegistersOK
  <2>3. words[k] \in Bits(k)
    BY <2>2 DEF RegistersOK
  <2>4. PanelAt(words, p) = PanelParam(words[k])
    BY DEF PanelAt
  <2> HIDE DEF k
  <2>5. PICK x \in 0..(Bytes - 1), y \in 0..(Bytes - 1), r \in 0..(Rotations - 1) :
          words[k] = PanelRegister(x, y, r)
    BY <2>1, <2>2, <2>3, PanelIs, Zenon
  <2>6. PanelParam(words[k]) = [x |-> x, y |-> y, rot |-> r]
    BY <2>1, <2>2, <2>5, PanelFields, Zenon
  <2> QED BY <2>4, <2>6 DEF Settings!PanelParam, Settings!Byte
<1>4. PanelsOf(words) \in [Panels -> Settings!PanelParam]
  BY <1>3 DEF PanelsOf
<1> QED BY <1>2, <1>4, ControlIs

(* Writing ctrl, and writing the register of a panel. *)
Written(words, word, bits) == [words EXCEPT ![word] = bits]
PlaceOf(p) == PanelWord(PanelOffset(p[1], p[2]))

LEMMA ControlWritten ==
  ASSUME NEW words, RegistersOK(words),
         NEW i \in 0..1, NEW e \in 0..1, NEW w \in 0..(Shorts - 1)
  PROVE  LET new == Written(words, CtrlWord, Control(i, e, w))
         IN  /\ RegistersOK(new) /\ new[CtrlWord] = Control(i, e, w)
             /\ PanelsOf(new) = PanelsOf(words)
<1> DEFINE new == [words EXCEPT ![CtrlWord] = Control(i, e, w)]
<1>1. words \in [0..(RegisterWords - 1) -> Nat] /\ \A word \in 0..(RegisterWords - 1) : words[word] \in Bits(word)
  BY DEF RegistersOK
<1>2. CtrlWord \in 0..(RegisterWords - 1)
  BY DisplaySizes, Within DEF CtrlWord, RegisterWords
<1>3. Control(i, e, w) \in Bits(CtrlWord)
  BY ControlFields
<1>4. Control(i, e, w) \in Nat
  BY <1>3, BitsKept DEF CtrlWord
<1>5. new \in [0..(RegisterWords - 1) -> Nat] /\ new[CtrlWord] = Control(i, e, w)
  BY <1>1, <1>2, <1>4
<1>6. \A word \in 0..(RegisterWords - 1) : word # CtrlWord => new[word] = words[word]
  BY <1>1
<1>7. RegistersOK(new)
  BY <1>1, <1>3, <1>5, <1>6 DEF RegistersOK
<1>8. ASSUME NEW p \in Panels PROVE PanelAt(new, p) = PanelAt(words, p)
  <2>1. PanelWord(PanelOffset(p[1], p[2])) \in 0..(RegisterWords - 1)
    BY Offsets
  <2> QED BY <1>6, <2>1, Offsets, Zenon DEF PanelAt
<1>9. PanelsOf(new) = PanelsOf(words)
  BY <1>8, Zenon DEF PanelsOf
<1> QED BY <1>5, <1>7, <1>9 DEF Written

LEMMA PanelWritten ==
  ASSUME NEW words, RegistersOK(words), NEW p \in Panels,
         NEW x \in 0..(Bytes - 1), NEW y \in 0..(Bytes - 1), NEW r \in 0..(Rotations - 1)
  PROVE  LET new == Written(words, PlaceOf(p), PanelRegister(x, y, r))
         IN  /\ RegistersOK(new) /\ new[CtrlWord] = words[CtrlWord]
             /\ PanelAt(new, p) = [x |-> x, y |-> y, rot |-> r]
             /\ \A q \in Panels : q # p => PanelAt(new, q) = PanelAt(words, q)
<1> DEFINE k == PanelWord(PanelOffset(p[1], p[2]))
           new == [words EXCEPT ![k] = PanelRegister(x, y, r)]
           value == [x |-> x, y |-> y, rot |-> r]
<1>1. words \in [0..(RegisterWords - 1) -> Nat] /\ \A word \in 0..(RegisterWords - 1) : words[word] \in Bits(word)
  BY DEF RegistersOK
<1>2. k \in 0..(RegisterWords - 1) /\ k \in Nat /\ k # CtrlWord /\ CtrlWord \in 0..(RegisterWords - 1)
  BY Offsets, DisplaySizes, Within DEF CtrlWord, RegisterWords
<1>3. new = [words EXCEPT ![k] = PanelRegister(x, y, r)]
  OBVIOUS
<1>4. ASSUME NEW q \in Panels, q # p
      PROVE  PanelWord(PanelOffset(q[1], q[2])) \in 0..(RegisterWords - 1) /\ PanelWord(PanelOffset(q[1], q[2])) # k
  BY <1>4, Offsets, OffsetsDiffer
<1>5. ASSUME NEW q PROVE /\ PanelAt(new, q) = PanelParam(new[PanelWord(PanelOffset(q[1], q[2]))])
                         /\ PanelAt(words, q) = PanelParam(words[PanelWord(PanelOffset(q[1], q[2]))])
  BY DEF PanelAt
<1>6. PanelAt(new, p) = PanelParam(new[k])
  BY <1>5
<1> HIDE DEF k
<1>7. PanelRegister(x, y, r) \in Bits(k) /\ PanelParam(PanelRegister(x, y, r)) = value
  BY <1>2, PanelFields
<1>8. PanelRegister(x, y, r) \in Nat
  BY <1>2, <1>7, BitsKept
<1>9. new \in [0..(RegisterWords - 1) -> Nat] /\ new[k] = PanelRegister(x, y, r)
  BY <1>1, <1>2, <1>3, <1>8
<1>10. \A word \in 0..(RegisterWords - 1) : word # k => new[word] = words[word]
  BY <1>1, <1>3
<1>11. RegistersOK(new) /\ new[CtrlWord] = words[CtrlWord]
  BY <1>1, <1>2, <1>7, <1>9, <1>10 DEF RegistersOK
<1>12. PanelAt(new, p) = value
  BY <1>6, <1>7, <1>9
<1>13. ASSUME NEW q \in Panels, q # p PROVE PanelAt(new, q) = PanelAt(words, q)
  BY <1>4, <1>5, <1>10, <1>13
<1>14. new = Written(words, PlaceOf(p), PanelRegister(x, y, r))
  BY DEF Written, PlaceOf, k
<1> HIDE DEF new
<1> QED BY <1>11, <1>12, <1>13, <1>14, Zenon

LEMMA PanelBitsAre ==
  ASSUME NEW x \in 0..(Bytes - 1), NEW y \in 0..(Bytes - 1), NEW rot \in Nat
  PROVE  /\ PanelBits(x, y, rot) = PanelRegister(x, y, rot % Rotations)
         /\ rot % Rotations \in 0..(Rotations - 1)
<1>1. 0 \in 0..(Bytes - 1) /\ 0 \in 0..(Rotations - 1) /\ x \in Nat /\ y \in Nat
  BY DisplaySizes
<1>2. x % Bytes = x /\ y % Bytes = y /\ rot % Rotations \in 0..(Rotations - 1)
  BY DisplaySizes, Remainder, Quotient
<1>3. Put(ResetValue, X, x) = PanelRegister(x, 0, 0)
  <2>1. Put(PanelRegister(0, 0, 0), X, x) = PanelRegister(x % Bytes, 0, 0)
    BY <1>1, PanelPuts
  <2> QED BY <1>2, <2>1, ResetRegisters
<1>4. Put(PanelRegister(x, 0, 0), Y, y) = PanelRegister(x, y, 0)
  <2>1. Put(PanelRegister(x, 0, 0), Y, y) = PanelRegister(x, y % Bytes, 0)
    BY <1>1, PanelPuts
  <2> QED BY <1>2, <2>1
<1>5. Put(PanelRegister(x, y, 0), Rot, rot) = PanelRegister(x, y, rot % Rotations)
  BY <1>1, PanelPuts
<1> QED BY <1>2, <1>3, <1>4, <1>5 DEF PanelBits

(* What is set is there afterwards, but for the rotation, of which the     *)
(* lower bits are.                                                         *)
SetTo(x, y, rot) == [x |-> x, y |-> y, rot |-> rot % Rotations]

LEMMA PanelBitsWritten ==
  ASSUME NEW words, RegistersOK(words), NEW place \in Panels,
         NEW x \in 0..(Bytes - 1), NEW y \in 0..(Bytes - 1), NEW rot \in Nat
  PROVE  /\ RegistersOK(Written(words, PlaceOf(place), PanelBits(x, y, rot)))
         /\ Written(words, PlaceOf(place), PanelBits(x, y, rot))[CtrlWord] = words[CtrlWord]
         /\ PanelAt(Written(words, PlaceOf(place), PanelBits(x, y, rot)), place) = SetTo(x, y, rot)
         /\ \A p \in Panels : p # place =>
              PanelAt(Written(words, PlaceOf(place), PanelBits(x, y, rot)), p) = PanelAt(words, p)
<1> DEFINE r == rot % Rotations
           written == Written(words, PlaceOf(place), PanelRegister(x, y, r))
<1>1. PanelBits(x, y, rot) = PanelRegister(x, y, r) /\ r \in 0..(Rotations - 1)
  BY PanelBitsAre
<1>2. SetTo(x, y, rot) = [x |-> x, y |-> y, rot |-> r]
  BY DEF SetTo
<1> HIDE DEF r
<1>3. RegistersOK(written) /\ written[CtrlWord] = words[CtrlWord]
  BY <1>1, PanelWritten
<1>4. PanelAt(written, place) = [x |-> x, y |-> y, rot |-> r]
  BY <1>1, PanelWritten
<1>5. ASSUME NEW p \in Panels, p # place PROVE PanelAt(written, p) = PanelAt(words, p)
  BY <1>1, <1>5, PanelWritten
<1> QED BY <1>1, <1>2, <1>3, <1>4, <1>5

Place(output, chain_num) == <<output, chain_num>>

(* Hub75::set_panel_param sets the panel at that place, if there is one.   *)
LEMMA SetPanelShows ==
  ASSUME NEW words, RegistersOK(words), NEW output \in Nat, NEW chain_num \in Nat,
         NEW x \in 0..(Bytes - 1), NEW y \in 0..(Bytes - 1), NEW rot \in Nat, NEW p \in Panels
  PROVE  /\ RegistersOK(SetPanel(words, output, chain_num, x, y, rot))
         /\ SetPanel(words, output, chain_num, x, y, rot)[CtrlWord] = words[CtrlWord]
         /\ p = Place(output, chain_num) =>
              PanelAt(SetPanel(words, output, chain_num, x, y, rot), p) = SetTo(x, y, rot)
         /\ p # Place(output, chain_num) =>
              PanelAt(SetPanel(words, output, chain_num, x, y, rot), p) = PanelAt(words, p)
<1> DEFINE place == Place(output, chain_num)
           new == SetPanel(words, output, chain_num, x, y, rot)
           written == Written(words, PlaceOf(place), PanelBits(x, y, rot))
<1>1. CASE output >= OUTPUTS \/ chain_num >= CHAIN_LENGTH
  <2>1. new = words
    BY <1>1 DEF SetPanel
  <2>2. place \notin Panels
    BY <1>1, DisplaySizes DEF Panels, Place
  <2> HIDE DEF place, new
  <2>3. p # place /\ PanelAt(new, p) = PanelAt(words, p)
    BY <2>1, <2>2, Zenon
  <2>4. RegistersOK(new) /\ new[CtrlWord] = words[CtrlWord]
    BY <2>1, Zenon
  <2> QED BY <2>3, <2>4 DEF place, new
<1>2. CASE ~(output >= OUTPUTS \/ chain_num >= CHAIN_LENGTH)
  <2>1. place \in Panels
    BY <1>2, DisplaySizes DEF Panels, Place
  <2>2. new = [words EXCEPT ![PanelWord(PanelOffset(output, chain_num))] = PanelBits(x, y, rot)]
    BY <1>2 DEF SetPanel
  <2>3. PlaceOf(place) = PanelWord(PanelOffset(output, chain_num))
    BY DEF PlaceOf, Place
  <2> HIDE DEF place, new
  <2>4. new = written
    BY <2>2, <2>3, Zenon DEF Written
  <2>5. RegistersOK(written) /\ written[CtrlWord] = words[CtrlWord]
    BY <2>1, PanelBitsWritten
  <2>6. PanelAt(written, place) = SetTo(x, y, rot)
    BY <2>1, PanelBitsWritten
  <2>7. ASSUME p # place PROVE PanelAt(written, p) = PanelAt(words, p)
    BY <2>1, <2>7, PanelBitsWritten
  <2> HIDE DEF written
  <2>8. RegistersOK(new) /\ new[CtrlWord] = words[CtrlWord]
    BY <2>4, <2>5, Zenon
  <2>9. /\ p = place => PanelAt(new, p) = SetTo(x, y, rot)
        /\ p # place => PanelAt(new, p) = PanelAt(words, p)
    BY <2>4, <2>6, <2>7, Zenon
  <2> QED BY <2>8, <2>9 DEF place, new
<1> QED BY <1>1, <1>2

LEMMA DefaultPanelsSet ==
  ASSUME NEW words, RegistersOK(words),
         NEW new, new = SetPanel(SetPanel(SetPanel(SetPanel(words,
                          0, 0, 0, 0, 0), 0, 1, 0, 1, 0), 0, 2, 2, 0, 0), 0, 3, 2, 1, 0)
  PROVE  /\ RegistersOK(new) /\ new[CtrlWord] = words[CtrlWord]
         /\ \A p \in Panels : PanelAt(new, p) = IF p[1] = 0 /\ p[2] < 4
                                                THEN [x |-> 2 * (p[2] \div 2), y |-> p[2] % 2, rot |-> 0]
                                                ELSE PanelAt(words, p)
<1> DEFINE a == SetPanel(words, 0, 0, 0, 0, 0)
           b == SetPanel(a, 0, 1, 0, 1, 0)
           c == SetPanel(b, 0, 2, 2, 0, 0)
           At(x, y) == SetTo(x, y, 0)
           Sets(old, k, x, y) ==
             LET set == SetPanel(old, 0, k, x, y, 0)
             IN  /\ RegistersOK(set) /\ set[CtrlWord] = old[CtrlWord]
                 /\ \A p \in Panels : /\ p = Place(0, k) => PanelAt(set, p) = At(x, y)
                                      /\ p # Place(0, k) => PanelAt(set, p) = PanelAt(old, p)
<1>1. ASSUME NEW old, RegistersOK(old), NEW k \in Nat, NEW x \in 0..2, NEW y \in 0..2
      PROVE  Sets(old, k, x, y)
  <2>1. x \in 0..(Bytes - 1) /\ y \in 0..(Bytes - 1) /\ 0 \in Nat
    BY DisplaySizes
  <2> DEFINE o == 0
             set == SetPanel(old, o, k, x, y, o)
  <2>2. o \in Nat
    OBVIOUS
  <2> HIDE DEF o
  <2>3. PICK q : q \in Panels
    <3>1. Place(0, 0) \in Panels
      BY DisplaySizes DEF Panels, Place
    <3> QED BY <3>1
  <2>4. RegistersOK(set)
    BY <1>1, <2>1, <2>2, <2>3, SetPanelShows
  <2>7. set[CtrlWord] = old[CtrlWord]
    BY <1>1, <2>1, <2>2, <2>3, SetPanelShows
  <2>5. ASSUME NEW p \in Panels, p = Place(o, k) PROVE PanelAt(set, p) = SetTo(x, y, o)
    BY <1>1, <2>1, <2>2, <2>5, SetPanelShows
  <2>6. ASSUME NEW p \in Panels, p # Place(o, k) PROVE PanelAt(set, p) = PanelAt(old, p)
    BY <1>1, <2>1, <2>2, <2>6, SetPanelShows
  <2> QED BY <2>4, <2>5, <2>6, <2>7 DEF o
<1>2. 0 \in Nat /\ 1 \in Nat /\ 2 \in Nat /\ 3 \in Nat /\ 0 \in 0..2 /\ 1 \in 0..2 /\ 2 \in 0..2
  OBVIOUS
<1>3. new = SetPanel(c, 0, 3, 2, 1, 0)
  OBVIOUS
<1> HIDE DEF Sets
<1>4. Sets(words, 0, 0, 0) /\ RegistersOK(a)
  <2>1. Sets(words, 0, 0, 0)
    BY <1>1, <1>2, Zenon
  <2> QED BY <2>1, Zenon DEF Sets
<1>5. Sets(a, 1, 0, 1) /\ RegistersOK(b)
  <2>1. Sets(a, 1, 0, 1)
    BY <1>1, <1>2, <1>4, Zenon
  <2> QED BY <2>1, Zenon DEF Sets
<1>6. Sets(b, 2, 2, 0) /\ RegistersOK(c)
  <2>1. Sets(b, 2, 2, 0)
    BY <1>1, <1>2, <1>5, Zenon
  <2> QED BY <2>1, Zenon DEF Sets
<1>7. Sets(c, 3, 2, 1) /\ RegistersOK(new)
  <2>1. Sets(c, 3, 2, 1)
    BY <1>1, <1>2, <1>6, Zenon
  <2> QED BY <1>3, <2>1, Zenon DEF Sets
<1>9. /\ a[CtrlWord] = words[CtrlWord] /\ b[CtrlWord] = a[CtrlWord]
      /\ c[CtrlWord] = b[CtrlWord] /\ new[CtrlWord] = c[CtrlWord]
  BY <1>3, <1>4, <1>5, <1>6, <1>7, Zenon DEF Sets
<1>10. ASSUME NEW p \in Panels
       PROVE  /\ p = Place(0, 0) => PanelAt(a, p) = At(0, 0)
              /\ p # Place(0, 0) => PanelAt(a, p) = PanelAt(words, p)
              /\ p = Place(0, 1) => PanelAt(b, p) = At(0, 1)
              /\ p # Place(0, 1) => PanelAt(b, p) = PanelAt(a, p)
              /\ p = Place(0, 2) => PanelAt(c, p) = At(2, 0)
              /\ p # Place(0, 2) => PanelAt(c, p) = PanelAt(b, p)
              /\ p = Place(0, 3) => PanelAt(new, p) = At(2, 1)
              /\ p # Place(0, 3) => PanelAt(new, p) = PanelAt(c, p)
  BY <1>3, <1>4, <1>5, <1>6, <1>7, <1>10, Zenon DEF Sets
<1> HIDE DEF a, b, c
<1>8. ASSUME NEW p \in Panels
      PROVE  PanelAt(new, p) = IF p[1] = 0 /\ p[2] < 4
                               THEN [x |-> 2 * (p[2] \div 2), y |-> p[2] % 2, rot |-> 0]
                               ELSE PanelAt(words, p)
  <2>1. p[1] \in Nat /\ p[2] \in Nat
    BY Offsets
  <2>2. ASSUME NEW n PROVE p = Place(0, n) <=> p[1] = 0 /\ p[2] = n
    BY DEF Panels, Place
  <2>3. \A x, y : At(x, y) = [x |-> x, y |-> y, rot |-> 0]
    <3>1. 0 % Rotations = 0
      BY DisplaySizes, Remainder
    <3> QED BY <3>1 DEF SetTo
  <2> HIDE DEF At
  <2>4. CASE p[1] = 0 /\ p[2] = 0
    <3>1. PanelAt(new, p) = At(0, 0)
      BY <1>10, <2>2, <2>4
    <3> QED BY <2>3, <2>4, <3>1
  <2>5. CASE p[1] = 0 /\ p[2] = 1
    <3>1. PanelAt(new, p) = At(0, 1)
      BY <1>10, <2>2, <2>5
    <3> QED BY <2>3, <2>5, <3>1
  <2>6. CASE p[1] = 0 /\ p[2] = 2
    <3>1. PanelAt(new, p) = At(2, 0)
      BY <1>10, <2>2, <2>6
    <3> QED BY <2>3, <2>6, <3>1
  <2>7. CASE p[1] = 0 /\ p[2] = 3
    <3>1. PanelAt(new, p) = At(2, 1)
      BY <1>10, <2>2, <2>7
    <3> QED BY <2>3, <2>7, <3>1
  <2>8. CASE ~(p[1] = 0 /\ p[2] < 4)
    <3>1. p # Place(0, 0) /\ p # Place(0, 1) /\ p # Place(0, 2) /\ p # Place(0, 3)
      BY <2>2, <2>8
    <3>2. PanelAt(new, p) = PanelAt(words, p)
      BY <1>10, <3>1
    <3> QED BY <2>8, <3>2
  <2> QED BY <2>1, <2>4, <2>5, <2>6, <2>7, <2>8
<1> QED BY <1>7, <1>8, <1>9

(* Hub75::set_panel_params of as many words as there are panels, or more.  *)
LEMMA PanelsLoaded ==
  ASSUME RegistersOK(regs), NEW params, Len(params) \in Nat, Len(params) >= OUTPUTS * CHAIN_LENGTH,
         \A i \in 1..(OUTPUTS * CHAIN_LENGTH) : params[i] \in Bits(i)
  PROVE  /\ RegistersOK(PanelParams(params)) /\ PanelParams(params)[CtrlWord] = regs[CtrlWord]
         /\ \A p \in Panels : PanelAt(PanelParams(params), p) = PanelParam(params[PlaceOf(p)])
<1> DEFINE new == PanelParams(params)
           n == OUTPUTS * CHAIN_LENGTH
<1>1. n \in Nat /\ RegisterWords - 1 = n
  BY DisplaySizes DEF RegisterWords
<1>2. regs \in [0..n -> Nat] /\ \A word \in 0..n : regs[word] \in Bits(word)
  BY <1>1 DEF RegistersOK
<1>3. Len(params) \in Nat /\ Len(params) >= n /\ \A i \in 1..n : params[i] \in Bits(i)
  OBVIOUS
<1>4. new = [word \in 0..n |-> IF word \in 1..Len(params) THEN Kept(word, params[word]) ELSE regs[word]]
  BY <1>2 DEF PanelParams
<1> HIDE DEF n, new
<1>5. ASSUME NEW word \in 1..n PROVE new[word] = params[word] /\ new[word] \in Bits(word) /\ new[word] \in Nat
  <2>1. word \in Nat /\ word \in 0..n /\ word \in 1..Len(params) /\ params[word] \in Bits(word)
    BY <1>1, <1>3, <1>5
  <2>2. new[word] = Kept(word, params[word])
    BY <1>4, <2>1
  <2> QED BY <2>1, <2>2, BitsKept
<1>6. new[CtrlWord] = regs[CtrlWord] /\ CtrlWord \in 0..n
  BY <1>1, <1>3, <1>4 DEF CtrlWord
<1>7. ASSUME NEW word \in 0..n PROVE new[word] \in Bits(word) /\ new[word] \in Nat
  <2>1. CASE word = CtrlWord
    BY <1>2, <1>6, <2>1
  <2>2. CASE word # CtrlWord
    <3>1. word \in 1..n
      BY <1>1, <2>2 DEF CtrlWord
    <3> QED BY <1>5, <3>1
  <2> QED BY <2>1, <2>2
<1>8. RegistersOK(new)
  <2>1. new \in [0..n -> Nat]
    BY <1>4, <1>7
  <2> QED BY <1>1, <1>7, <2>1 DEF RegistersOK
<1>9. ASSUME NEW p \in Panels PROVE PanelAt(new, p) = PanelParam(params[PlaceOf(p)])
  <2>1. PlaceOf(p) \in 1..n
    BY <1>1, Offsets DEF PlaceOf
  <2>2. PanelAt(new, p) = PanelParam(new[PlaceOf(p)])
    BY DEF PanelAt, PlaceOf
  <2> QED BY <1>5, <2>1, <2>2
<1> QED BY <1>6, <1>8, <1>9 DEF new

LEMMA RegistersReset ==
  ASSUME NEW new, new = [word \in 0..(RegisterWords - 1) |-> ResetValue]
  PROVE  /\ RegistersOK(new) /\ new[CtrlWord] = Control(0, 0, 0)
         /\ \A p \in Panels : PanelAt(new, p) = Settings!Unset
<1>1. 0 \in 0..1 /\ 0 \in 0..(Shorts - 1) /\ 0 \in 0..(Bytes - 1) /\ 0 \in 0..(Rotations - 1)
  BY DisplaySizes
<1>2. CtrlWord \in 0..(RegisterWords - 1) /\ RegisterWords \in Nat
  BY DisplaySizes, Within DEF CtrlWord, RegisterWords
<1>3. new[CtrlWord] = Control(0, 0, 0)
  BY <1>2, ResetRegisters
<1>4. new \in [0..(RegisterWords - 1) -> Nat]
  BY DEF ResetValue
<1>5. RegistersOK(new)
  BY <1>2, <1>4, ResetRegisters DEF RegistersOK
<1>6. ASSUME NEW p \in Panels PROVE PanelAt(new, p) = Settings!Unset
  <2>1. PanelWord(PanelOffset(p[1], p[2])) \in 0..(RegisterWords - 1)
    BY Offsets
  <2>2. PanelAt(new, p) = PanelParam(ResetValue)
    BY <2>1 DEF PanelAt
  <2>3. 1 \in Nat /\ 1 # CtrlWord
    BY DEF CtrlWord
  <2>4. PanelParam(PanelRegister(0, 0, 0)) = [x |-> 0, y |-> 0, rot |-> 0]
    BY <1>1, <2>3, PanelFields
  <2> QED BY <2>2, <2>4, ResetRegisters DEF Settings!Unset
<1> QED BY <1>3, <1>5, <1>6

(***************************************************************************)
(* What a step shows.                                                      *)
(***************************************************************************)

LEMMA ControlShown ==
  ASSUME NEW i \in 0..1, NEW e \in 0..1, NEW w \in 0..(Shorts - 1), regs[CtrlWord] = Control(i, e, w)
  PROVE  IndexedShown = (i = 1) /\ OnShown = (e = 1) /\ WidthShown = w
BY ControlFields DEF IndexedShown, OnShown, WidthShown

LEMMA ControlShownNext ==
  ASSUME NEW i \in 0..1, NEW e \in 0..1, NEW w \in 0..(Shorts - 1), regs'[CtrlWord] = Control(i, e, w)
  PROVE  IndexedShown' = (i = 1) /\ OnShown' = (e = 1) /\ WidthShown' = w
BY ControlFields DEF IndexedShown, OnShown, WidthShown

(* A command that writes ctrl changes no panel, *)
LEMMA ControlStep ==
  ASSUME RegistersOK(regs), NEW i \in 0..1, NEW e \in 0..1, NEW w \in 0..(Shorts - 1),
         regs' = [regs EXCEPT ![CtrlWord] = Control(i, e, w)]
  PROVE  /\ RegistersOK(regs)'
         /\ IndexedShown' = (i = 1) /\ OnShown' = (e = 1) /\ WidthShown' = w
         /\ PanelsShown' = PanelsShown
<1>1. regs' = Written(regs, CtrlWord, Control(i, e, w))
  BY DEF Written
<1>2. RegistersOK(regs') /\ regs'[CtrlWord] = Control(i, e, w) /\ PanelsOf(regs') = PanelsOf(regs)
  <2> DEFINE new == Written(regs, CtrlWord, Control(i, e, w))
  <2>1. RegistersOK(new)
    BY ControlWritten
  <2>2. new[CtrlWord] = Control(i, e, w)
    BY ControlWritten
  <2>3. PanelsOf(new) = PanelsOf(regs)
    BY ControlWritten
  <2> QED BY <1>1, <2>1, <2>2, <2>3
<1>3. IndexedShown' = (i = 1) /\ OnShown' = (e = 1) /\ WidthShown' = w
  BY <1>2, ControlShownNext
<1> QED BY <1>2, <1>3 DEF PanelsShown

(* and one that writes panels none of the rest. *)
LEMMA PanelsStep ==
  ASSUME regs'[CtrlWord] = regs[CtrlWord]
  PROVE  /\ IndexedShown' = IndexedShown /\ OnShown' = OnShown /\ WidthShown' = WidthShown
         /\ PanelsShown' = [p \in Panels |-> PanelAt(regs', p)]
BY DEF IndexedShown, OnShown, WidthShown, PanelsShown, PanelsOf

LEMMA RegistersStay ==
  ASSUME UNCHANGED regs
  PROVE  /\ UNCHANGED <<IndexedShown, OnShown, WidthShown, PanelsShown>>
         /\ RegistersOK(regs) => RegistersOK(regs)'
BY DEF IndexedShown, OnShown, WidthShown, PanelsShown

LEMMA FileStays ==
  ASSUME UNCHANGED flash
  PROVE  SavedShown' = SavedShown /\ (FileOK => FileOK')
BY DEF SavedShown, FileOK

LEMMA DataDrawn ==
  ASSUME memory \in [0..(MemoryWords - 1) -> Colours], NEW data, Len(data) \in Nat,
         \A i \in 1..Len(data) : data[i] \in Colours, NEW size \in Nat
  PROVE  /\ ImgData(data, size) \in [0..(MemoryWords - 1) -> Colours]
         /\ ImgData(data, size) = Settings!Drawn(FromZero(data), size)
<1>1. MemoryWords \in Nat
  BY DisplaySizes
<1>2. ASSUME NEW i \in 0..(MemoryWords - 1)
      PROVE  (IF i < Len(data) /\ i < size THEN data[i + 1] ELSE memory[i]) \in Colours
  BY <1>1
<1>3. ASSUME NEW i \in 0..(MemoryWords - 1)
      PROVE  /\ i \in DOMAIN FromZero(data) <=> i < Len(data)
             /\ i < Len(data) => FromZero(data)[i] = data[i + 1]
  BY <1>1 DEF FromZero
<1>4. ImgData(data, size) \in [0..(MemoryWords - 1) -> Colours]
  BY <1>2 DEF ImgData
<1>5. ImgData(data, size) = Settings!Drawn(FromZero(data), size)
  BY <1>3 DEF ImgData, Settings!Drawn
<1> QED BY <1>4, <1>5

LEMMA PaletteSet ==
  ASSUME palette \in [0..(PaletteSize - 1) -> Colours], NEW data, Len(data) \in Nat,
         \A i \in 1..Len(data) : data[i] \in Colours, NEW offset \in Nat
  PROVE  /\ Palette(offset, data) \in [0..(PaletteSize - 1) -> Colours]
         /\ Palette(0, data) = [i \in DOMAIN palette |-> IF i \in DOMAIN FromZero(data)
                                                         THEN FromZero(data)[i] ELSE palette[i]]
<1>1. PaletteSize \in Nat
  BY DisplaySizes
<1>2. ASSUME NEW i \in 0..(PaletteSize - 1)
      PROVE  (IF i >= offset /\ i - offset < Len(data) THEN data[i - offset + 1] ELSE palette[i]) \in Colours
  BY <1>1
<1>3. ASSUME NEW i \in 0..(PaletteSize - 1)
      PROVE  /\ i \in DOMAIN FromZero(data) <=> i >= 0 /\ i - 0 < Len(data)
             /\ i - 0 < Len(data) => FromZero(data)[i] = data[i - 0 + 1]
  BY <1>1 DEF FromZero
<1>4. Palette(offset, data) \in [0..(PaletteSize - 1) -> Colours]
  BY <1>2 DEF Palette
<1>5. Palette(0, data) = [i \in DOMAIN palette |-> IF i \in DOMAIN FromZero(data)
                                                   THEN FromZero(data)[i] ELSE palette[i]]
  BY <1>3 DEF Palette
<1> QED BY <1>4, <1>5

(***************************************************************************)
(* The commands.                                                           *)
(***************************************************************************)

LEMMA InvParts ==
  ASSUME DisplayInv
  PROVE  /\ RegistersOK(regs) /\ memory \in [0..(MemoryWords - 1) -> Colours]
         /\ palette \in [0..(PaletteSize - 1) -> Colours]
         /\ length \in Nat /\ up \in BOOLEAN /\ FileOK
         /\ \E i \in 0..1, e \in 0..1, w \in 0..(Shorts - 1) :
              /\ regs[CtrlWord] = Control(i, e, w)
              /\ IndexedShown = (i = 1) /\ OnShown = (e = 1) /\ WidthShown = w
<1>1. RegistersOK(regs)
  BY DEF DisplayInv
<1>2. PICK i \in 0..1, e \in 0..1, w \in 0..(Shorts - 1) : regs[CtrlWord] = Control(i, e, w)
  BY <1>1, RegistersShow
<1>3. IndexedShown = (i = 1) /\ OnShown = (e = 1) /\ WidthShown = w
  BY <1>2, ControlShown
<1> QED BY <1>2, <1>3 DEF DisplayInv

LEMMA SwitchDone ==
  ASSUME DisplayInv, NEW v \in 0..1, Registers(NoAnswer), Write(CtrlWord, Ctrl(Enabled, v)), UNCHANGED length
  PROVE  DisplayInv' /\ Settings!Switch(v = 1)
<1>1. PICK i \in 0..1, e \in 0..1, w \in 0..(Shorts - 1) :
        /\ regs[CtrlWord] = Control(i, e, w)
        /\ IndexedShown = (i = 1) /\ OnShown = (e = 1) /\ WidthShown = w
  BY InvParts
<1>2. Ctrl(Enabled, v) = Control(i, v, w)
  <2>1. v \in Nat /\ v % 2 = v
    OBVIOUS
  <2>2. Put(Control(i, e, w), Enabled, v) = Control(i, v % 2, w)
    BY <1>1, <2>1, ControlPuts
  <2> QED BY <1>1, <2>1, <2>2 DEF Ctrl
<1>3. regs' = [regs EXCEPT ![CtrlWord] = Control(i, v, w)]
  <2>1. Kept(CtrlWord, Control(i, v, w)) = Control(i, v, w)
    BY <1>1, ControlFields
  <2> QED BY <1>2, <2>1 DEF Write
<1>4. /\ RegistersOK(regs)' /\ PanelsShown' = PanelsShown
      /\ IndexedShown' = (i = 1) /\ OnShown' = (v = 1) /\ WidthShown' = w
  BY <1>1, <1>3, InvParts, ControlStep
<1>5. UNCHANGED <<memory, palette, flash, up, length>> /\ up /\ answer' = NoAnswer
  BY DEF Registers, Command
<1>6. SavedShown' = SavedShown /\ FileOK'
  BY <1>5, FileStays, InvParts
<1>7. DisplayInv'
  BY <1>4, <1>5, <1>6, InvParts DEF DisplayInv
<1>8. Settings!Switch(v = 1)
  BY <1>1, <1>4, <1>5, <1>6 DEF Settings!Switch
<1> QED BY <1>7, <1>8

LEMMA OnDone ==
  ASSUME DisplayInv, on
  PROVE  DisplayInv' /\ Settings!Switch(TRUE)
<1>1. DisplayInv' /\ Settings!Switch(1 = 1)
  BY SwitchDone DEF on
<1> QED BY <1>1

LEMMA OffDone ==
  ASSUME DisplayInv, off
  PROVE  DisplayInv' /\ Settings!Switch(FALSE)
<1>1. DisplayInv' /\ Settings!Switch(0 = 1)
  BY SwitchDone DEF off
<1>2. (0 = 1) = FALSE
  OBVIOUS
<1> QED BY <1>1, <1>2, Zenon

(* What only says something. *)
LEMMA SaysDone ==
  ASSUME DisplayInv, NEW reply, Says(reply)
  PROVE  DisplayInv' /\ Settings!Ask(reply)
<1>1. UNCHANGED <<regs, memory, palette, flash, up, length>> /\ up /\ answer' = reply
  BY DEF Says, Registers, Command
<1>2. UNCHANGED <<IndexedShown, OnShown, WidthShown, PanelsShown>> /\ RegistersOK(regs)'
  BY <1>1, RegistersStay, InvParts
<1>3. SavedShown' = SavedShown /\ FileOK'
  BY <1>1, FileStays, InvParts
<1>4. DisplayInv'
  BY <1>1, <1>2, <1>3, InvParts DEF DisplayInv
<1>5. Settings!Ask(reply)
  BY <1>1, <1>2, <1>3 DEF Settings!Ask, Settings!shown
<1> QED BY <1>4, <1>5

LEMMA GetImageDone ==
  ASSUME DisplayInv, get_image_param
  PROVE  DisplayInv' /\ Settings!AskImage
<1>1. WidthShown = Get(regs[CtrlWord], Width)
  BY DEF WidthShown
<1>2. Says([width |-> WidthShown, length |-> length])
  BY <1>1 DEF get_image_param
<1> QED BY <1>2, SaysDone DEF Settings!AskImage

LEMMA SetImageDone ==
  ASSUME DisplayInv, NEW w \in Widths, NEW l \in Lengths, set_image_param(w, l)
  PROVE  DisplayInv' /\ Settings!SetImage(w, l)
<1>1. Invalid \notin {w, l} /\ w \in 0..(Shorts - 1) /\ w \in Nat /\ l \in Nat
  BY DisplayAssumption
<1>2. Registers(NoAnswer) /\ Write(CtrlWord, set_width(regs[CtrlWord], w)) /\ length' = l
  BY <1>1 DEF set_image_param
<1>3. PICK i \in 0..1, e \in 0..1, v \in 0..(Shorts - 1) :
        /\ regs[CtrlWord] = Control(i, e, v)
        /\ IndexedShown = (i = 1) /\ OnShown = (e = 1) /\ WidthShown = v
  BY InvParts
<1>4. regs' = [regs EXCEPT ![CtrlWord] = Control(i, e, w)]
  <2>1. Put(Control(i, e, v), Width, w) = Control(i, e, w % Shorts)
    BY <1>1, <1>3, ControlPuts
  <2>2. w % Shorts = w
    BY <1>1, DisplaySizes, Remainder
  <2>3. Kept(CtrlWord, Control(i, e, w)) = Control(i, e, w)
    BY <1>1, <1>3, ControlFields
  <2> QED BY <1>2, <1>3, <2>1, <2>2, <2>3 DEF Write, set_width
<1>5. /\ RegistersOK(regs)' /\ PanelsShown' = PanelsShown
      /\ IndexedShown' = (i = 1) /\ OnShown' = (e = 1) /\ WidthShown' = w
  BY <1>1, <1>3, <1>4, InvParts, ControlStep
<1>6. UNCHANGED <<memory, palette, flash, up>> /\ up /\ answer' = NoAnswer
  BY <1>2 DEF Registers, Command
<1>7. SavedShown' = SavedShown /\ FileOK'
  BY <1>6, FileStays, InvParts
<1>8. DisplayInv'
  BY <1>1, <1>2, <1>5, <1>6, <1>7, InvParts DEF DisplayInv
<1>9. Settings!SetImage(w, l)
  BY <1>2, <1>3, <1>5, <1>6, <1>7 DEF Settings!SetImage
<1> QED BY <1>8, <1>9

LEMMA SettingsSets == Settings!Panels = Panels /\ Settings!Byte = 0..(Bytes - 1)
BY DEF Settings!Panels, Panels, Settings!Byte

LEMMA GetPanelDone ==
  ASSUME DisplayInv, NEW p \in Panels, Invalid \notin {p[1], p[2]}, get_panel_param(p[1], p[2])
  PROVE  DisplayInv' /\ Settings!AskPanel(p)
<1>1. ~(p[1] >= OUTPUTS \/ p[2] >= CHAIN_LENGTH)
  BY Offsets, DisplaySizes
<1>2. Says(PanelAt(regs, p))
  BY <1>1 DEF get_panel_param, PanelAt
<1>3. PanelsShown[p] = PanelAt(regs, p)
  BY DEF PanelsShown, PanelsOf
<1> QED BY <1>2, <1>3, SaysDone DEF Settings!AskPanel

(* What sets panels and nothing else. *)
LEMMA PanelsSet ==
  ASSUME DisplayInv, Registers(NoAnswer), UNCHANGED length, RegistersOK(regs'),
         regs'[CtrlWord] = regs[CtrlWord]
  PROVE  /\ DisplayInv' /\ up /\ answer' = NoAnswer
         /\ PanelsShown' = [p \in Panels |-> PanelAt(regs', p)]
         /\ UNCHANGED <<up, IndexedShown, OnShown, WidthShown, length, memory, palette, SavedShown>>
<1>1. /\ IndexedShown' = IndexedShown /\ OnShown' = OnShown /\ WidthShown' = WidthShown
      /\ PanelsShown' = [p \in Panels |-> PanelAt(regs', p)]
  BY PanelsStep
<1>2. UNCHANGED <<memory, palette, flash, up>> /\ up /\ answer' = NoAnswer
  BY DEF Registers, Command
<1>3. SavedShown' = SavedShown /\ FileOK'
  BY <1>2, FileStays, InvParts
<1>4. RegistersOK(regs)'
  OBVIOUS
<1>5. DisplayInv'
  BY <1>2, <1>3, <1>4, InvParts DEF DisplayInv
<1> QED BY <1>1, <1>2, <1>3, <1>5

LEMMA SetPanelDone ==
  ASSUME DisplayInv, NEW p \in Panels, NEW x \in 0..(Bytes - 1), NEW y \in 0..(Bytes - 1), NEW rot \in Nat,
         Invalid \notin {p[1], p[2], x, y, rot}, set_panel_param(p[1], p[2], x, y, rot)
  PROVE  DisplayInv' /\ Settings!SetPanel(p) /\ PanelAt(regs, p)' = SetTo(x, y, rot)
<1> DEFINE o == p[1]
           c == p[2]
           new == SetPanel(regs, o, c, x, y, rot)
<1>1. Registers(NoAnswer) /\ regs' = new /\ UNCHANGED length
  BY DEF set_panel_param
<1>2. o \in Nat /\ c \in Nat /\ Place(o, c) = p
  BY Offsets DEF Place, Panels
<1>3. RegistersOK(regs)
  BY InvParts
<1> HIDE DEF o, c
<1>4. RegistersOK(new)
  BY <1>2, <1>3, SetPanelShows
<1>5. new[CtrlWord] = regs[CtrlWord]
  BY <1>2, <1>3, SetPanelShows
<1>6. PanelAt(new, p) = SetTo(x, y, rot)
  BY <1>2, <1>3, SetPanelShows
<1>7. ASSUME NEW q \in Panels, q # p PROVE PanelAt(new, q) = PanelAt(regs, q)
  BY <1>2, <1>3, <1>7, SetPanelShows
<1> HIDE DEF new
<1>8. /\ DisplayInv' /\ up /\ answer' = NoAnswer
      /\ PanelsShown' = [q \in Panels |-> PanelAt(regs', q)]
      /\ UNCHANGED <<up, IndexedShown, OnShown, WidthShown, length, memory, palette, SavedShown>>
  BY <1>1, <1>4, <1>5, PanelsSet
<1>9. PanelsShown'[p] = SetTo(x, y, rot) /\ PanelsShown' = [PanelsShown EXCEPT ![p] = SetTo(x, y, rot)]
  BY <1>1, <1>6, <1>7, <1>8 DEF PanelsShown, PanelsOf
<1>10. SetTo(x, y, rot) \in Settings!PanelParam
  BY PanelBitsAre, SettingsSets DEF SetTo, Settings!PanelParam
<1>11. Settings!SetPanel(p)
  BY <1>8, <1>9, <1>10 DEF Settings!SetPanel
<1>12. PanelAt(regs, p)' = SetTo(x, y, rot)
  BY <1>1, <1>6
<1> QED BY <1>8, <1>11, <1>12

LEMMA DefaultPanelsDone ==
  ASSUME DisplayInv, set_default_panel_params
  PROVE  DisplayInv' /\ Settings!DefaultPanels
<1> DEFINE new == SetPanel(SetPanel(SetPanel(SetPanel(regs,
                    0, 0, 0, 0, 0), 0, 1, 0, 1, 0), 0, 2, 2, 0, 0), 0, 3, 2, 1, 0)
<1>1. Registers(NoAnswer) /\ regs' = new /\ UNCHANGED length
  BY DEF set_default_panel_params
<1>2. RegistersOK(regs)
  BY InvParts
<1>3. /\ RegistersOK(new) /\ new[CtrlWord] = regs[CtrlWord]
      /\ \A p \in Panels : PanelAt(new, p) = IF p[1] = 0 /\ p[2] < 4
                                             THEN [x |-> 2 * (p[2] \div 2), y |-> p[2] % 2, rot |-> 0]
                                             ELSE PanelAt(regs, p)
  BY <1>2, DefaultPanelsSet
<1> HIDE DEF new
<1>4. /\ DisplayInv' /\ up /\ answer' = NoAnswer
      /\ PanelsShown' = [q \in Panels |-> PanelAt(regs', q)]
      /\ UNCHANGED <<up, IndexedShown, OnShown, WidthShown, length, memory, palette, SavedShown>>
  BY <1>1, <1>3, PanelsSet
<1>5. PanelsShown' = [p \in Panels |-> IF p[1] = 0 /\ p[2] < 4
                                       THEN [x |-> 2 * (p[2] \div 2), y |-> p[2] % 2, rot |-> 0]
                                       ELSE PanelsShown[p]]
  BY <1>1, <1>3, <1>4 DEF PanelsShown, PanelsOf
<1>6. Settings!DefaultPanels
  BY <1>4, <1>5, SettingsSets DEF Settings!DefaultPanels
<1> QED BY <1>4, <1>6

(* Whatever makes it restart. *)
LEMMA ResetDone ==
  ASSUME DisplayInv, NEW reason, up, Reset(reason), palette' \in [0..(PaletteSize - 1) -> Colours]
  PROVE  DisplayInv' /\ Settings!Restart(reason)
<1>1. /\ regs' = [word \in 0..(RegisterWords - 1) |-> ResetValue]
      /\ length' = 0 /\ up' = FALSE /\ answer' = reason /\ UNCHANGED <<memory, flash>>
  <2>1. DOMAIN regs = 0..(RegisterWords - 1)
    BY InvParts DEF RegistersOK
  <2> QED BY <2>1 DEF Reset
<1>2. /\ RegistersOK(regs') /\ regs'[CtrlWord] = Control(0, 0, 0)
      /\ \A p \in Panels : PanelAt(regs', p) = Settings!Unset
  BY <1>1, RegistersReset
<1>3. IndexedShown' = FALSE /\ OnShown' = FALSE /\ WidthShown' = 0
  <2>1. 0 \in 0..1 /\ 0 \in 0..(Shorts - 1)
    BY DisplaySizes
  <2>2. IndexedShown' = (0 = 1) /\ OnShown' = (0 = 1) /\ WidthShown' = 0
    BY <1>2, <2>1, ControlShownNext
  <2>3. (0 = 1) = FALSE
    OBVIOUS
  <2> QED BY <2>2, <2>3, Zenon
<1>4. PanelsShown' = [p \in Settings!Panels |-> Settings!Unset]
  BY <1>2, SettingsSets DEF PanelsShown, PanelsOf
<1>5. SavedShown' = SavedShown /\ FileOK'
  BY <1>1, FileStays, InvParts
<1>6. RegistersOK(regs)'
  BY <1>2
<1>7. DisplayInv'
  BY <1>1, <1>5, <1>6, InvParts DEF DisplayInv
<1>8. Settings!Restart(reason)
  BY <1>1, <1>3, <1>4, <1>5 DEF Settings!Restart
<1> QED BY <1>7, <1>8

(* Whatever is typed for a panel. *)
LEMMA GetPanelMaps ==
  ASSUME DisplayInv, NEW o \in Typed(Arguments), NEW c \in Typed(Arguments), get_panel_param(o, c)
  PROVE  DisplayInv' /\ Settings!Next
<1>1. CASE Invalid \in {o, c}
  <2>1. Says(Refusal)
    BY <1>1 DEF get_panel_param
  <2>2. DisplayInv' /\ Settings!Ask(Refusal)
    BY <2>1, SaysDone
  <2> QED BY <2>2 DEF Settings!Next
<1>2. CASE Invalid \notin {o, c} /\ <<o, c>> \in Panels
  <2> DEFINE p == <<o, c>>
  <2>1. p \in Panels /\ p[1] = o /\ p[2] = c
    BY <1>2
  <2> HIDE DEF p
  <2>2. DisplayInv' /\ Settings!AskPanel(p)
    BY <1>2, <2>1, GetPanelDone
  <2> QED BY <2>1, <2>2, SettingsSets DEF Settings!Next
<1>3. CASE Invalid \notin {o, c} /\ <<o, c>> \notin Panels
  <2>1. o \in Nat /\ c \in Nat
    BY <1>3, DisplayAssumption DEF Typed
  <2>2. o >= OUTPUTS \/ c >= CHAIN_LENGTH
    BY <1>3, <2>1, DisplaySizes DEF Panels
  <2>3. Says(NoPanel)
    BY <1>3, <2>2 DEF get_panel_param
  <2>4. DisplayInv' /\ Settings!Ask(NoPanel)
    BY <2>3, SaysDone
  <2>5. Settings!AskNoPanel
    BY <2>4 DEF Settings!AskNoPanel, NoPanel
  <2> QED BY <2>4, <2>5 DEF Settings!Next
<1> QED BY <1>1, <1>2, <1>3

LEMMA SetPanelMaps ==
  ASSUME DisplayInv, NEW o \in Typed(Arguments), NEW c \in Typed(Arguments),
         NEW x \in Typed(Arguments), NEW y \in Typed(Arguments), NEW rot \in Typed(Turns),
         set_panel_param(o, c, x, y, rot)
  PROVE  DisplayInv' /\ Settings!Next
<1>1. CASE Invalid \in {o, c, x, y}
  <2>1. Says(Refusal)
    BY <1>1 DEF set_panel_param
  <2>2. DisplayInv' /\ Settings!Ask(Refusal)
    BY <2>1, SaysDone
  <2> QED BY <2>2 DEF Settings!Next
<1>2. CASE Invalid \notin {o, c, x, y} /\ rot = Invalid
  <2>1. Command /\ Reset(NoRotation) /\ UNCHANGED palette
    BY <1>2 DEF set_panel_param
  <2>2. DisplayInv' /\ Settings!Restart(NoRotation)
    BY <2>1, InvParts, ResetDone DEF Command
  <2>3. Settings!Panic
    BY <2>1, <2>2 DEF Settings!Panic
  <2> QED BY <2>2, <2>3 DEF Settings!Next
<1>3. CASE Invalid \notin {o, c, x, y, rot}
  <2>1. /\ o \in Nat /\ c \in Nat /\ x \in 0..(Bytes - 1) /\ y \in 0..(Bytes - 1)
        /\ rot \in Nat
    BY <1>3, DisplayAssumption DEF Typed
  <2>2. CASE <<o, c>> \in Panels
    <3> DEFINE p == <<o, c>>
    <3>1. p \in Panels /\ p[1] = o /\ p[2] = c
      BY <2>2
    <3> HIDE DEF p
    <3>2. DisplayInv' /\ Settings!SetPanel(p)
      BY <1>3, <2>1, <3>1, SetPanelDone
    <3> QED BY <3>1, <3>2, SettingsSets DEF Settings!Next
  <2>3. CASE <<o, c>> \notin Panels
    <3>1. o >= OUTPUTS \/ c >= CHAIN_LENGTH
      BY <2>1, <2>3, DisplaySizes DEF Panels
    <3>2. Says(NoAnswer)
      BY <1>3, <3>1 DEF set_panel_param, Says, SetPanel
    <3>3. DisplayInv' /\ Settings!Ask(NoAnswer)
      BY <3>2, SaysDone
    <3> QED BY <3>3 DEF Settings!Next
  <2> QED BY <2>2, <2>3
<1> QED BY <1>1, <1>2, <1>3

LEMMA SetImageMaps ==
  ASSUME DisplayInv, NEW w \in Typed(Widths), NEW l \in Typed(Lengths), set_image_param(w, l)
  PROVE  DisplayInv' /\ Settings!Next
<1>1. CASE Invalid \in {w, l}
  <2>1. Says(Refusal)
    BY <1>1 DEF set_image_param
  <2>2. DisplayInv' /\ Settings!Ask(Refusal)
    BY <2>1, SaysDone
  <2> QED BY <2>2 DEF Settings!Next
<1>2. CASE Invalid \notin {w, l}
  <2>1. w \in Widths /\ l \in Lengths
    BY <1>2 DEF Typed
  <2>2. DisplayInv' /\ Settings!SetImage(w, l)
    BY <2>1, SetImageDone
  <2> QED BY <2>1, <2>2 DEF Settings!Next
<1> QED BY <1>1, <1>2

(***************************************************************************)
(* Images.                                                                 *)
(***************************************************************************)

LEMMA ShowFileDone ==
  ASSUME DisplayInv, NEW file, NEW mode \in 0..1, file \in {IMG_FILE, IMG_FILE_INDEXED}, ShowFile(file, mode),
         palette' \in [0..(PaletteSize - 1) -> Colours]
  PROVE  /\ DisplayInv' /\ up /\ answer' = NoAnswer /\ OnShown' = TRUE
         /\ IndexedShown' = (mode = 1) /\ WidthShown' = file.width
         /\ length' = Len(file.pixels)
         /\ memory' = Settings!Drawn(FromZero(file.pixels), Len(file.pixels))
         /\ UNCHANGED <<up, PanelsShown, SavedShown>>
<1>1. PICK i \in 0..1, e \in 0..1, w \in 0..(Shorts - 1) : regs[CtrlWord] = Control(i, e, w)
  BY InvParts
<1>2. file.width \in 0..(Shorts - 1) /\ file.pixels \in Seq(Colours)
  BY ImagesAssumption
<1>3. /\ up /\ answer' = NoAnswer /\ UNCHANGED <<flash, up>>
      /\ length' = Len(file.pixels) /\ memory' = ImgData(file.pixels, Len(file.pixels))
      /\ regs' = [regs EXCEPT ![CtrlWord] =
                    Put(set_mode(set_width(regs[CtrlWord], file.width), mode), Enabled, 1)]
  BY DEF ShowFile, Command
<1>4. Put(set_mode(set_width(regs[CtrlWord], file.width), mode), Enabled, 1) = Control(mode, 1, file.width)
  <2> DEFINE v == file.width
  <2>1. v \in Nat /\ v \in 0..(Shorts - 1) /\ v % Shorts = v /\ mode \in Nat /\ mode % 2 = mode /\ 1 \in Nat /\ 1 % 2 = 1
    BY <1>2, DisplaySizes, Remainder
  <2> HIDE DEF v
  <2>2. Put(Control(i, e, w), Width, v) = Control(i, e, v)
    BY <1>1, <2>1, ControlPuts
  <2>3. Put(Control(i, e, v), Indexed, mode) = Control(mode, e, v)
    BY <1>1, <2>1, ControlPuts
  <2>4. Put(Control(mode, e, v), Enabled, 1) = Control(mode, 1, v)
    <3>1. Put(Control(mode, e, v), Enabled, 1) = Control(mode, 1 % 2, v)
      BY <1>1, <2>1, ControlPuts
    <3> QED BY <2>1, <3>1
  <2> QED BY <1>1, <2>2, <2>3, <2>4 DEF set_mode, set_width, v
<1>5. /\ RegistersOK(regs)' /\ PanelsShown' = PanelsShown
      /\ IndexedShown' = (mode = 1) /\ OnShown' = (1 = 1) /\ WidthShown' = file.width
  <2> DEFINE v == file.width
  <2>1. v \in 0..(Shorts - 1) /\ 1 \in 0..1
    BY <1>2
  <2>2. regs' = [regs EXCEPT ![CtrlWord] = Control(mode, 1, v)]
    BY <1>3, <1>4, Zenon
  <2> HIDE DEF v
  <2>3. /\ RegistersOK(regs)' /\ PanelsShown' = PanelsShown
        /\ IndexedShown' = (mode = 1) /\ OnShown' = (1 = 1) /\ WidthShown' = v
    BY <2>1, <2>2, InvParts, ControlStep
  <2> QED BY <2>3 DEF v
<1>6. /\ memory' \in [0..(MemoryWords - 1) -> Colours]
      /\ memory' = Settings!Drawn(FromZero(file.pixels), Len(file.pixels))
      /\ length' \in Nat
  <2> DEFINE data == file.pixels
  <2>1. Len(data) \in Nat /\ \A k \in 1..Len(data) : data[k] \in Colours
    BY <1>2
  <2>2. memory' = ImgData(data, Len(data)) /\ length' = Len(data)
    BY <1>3
  <2> HIDE DEF data
  <2>3. /\ ImgData(data, Len(data)) \in [0..(MemoryWords - 1) -> Colours]
        /\ ImgData(data, Len(data)) = Settings!Drawn(FromZero(data), Len(data))
    BY <2>1, InvParts, DataDrawn
  <2> QED BY <2>1, <2>2, <2>3 DEF data
<1>7. SavedShown' = SavedShown /\ FileOK'
  BY <1>3, FileStays, InvParts
<1>8. DisplayInv'
  BY <1>3, <1>5, <1>6, <1>7, InvParts DEF DisplayInv
<1>9. OnShown' = TRUE
  BY <1>5
<1> QED BY <1>3, <1>5, <1>6, <1>7, <1>8, <1>9

LEMMA DefaultImageDone ==
  ASSUME DisplayInv, default_image
  PROVE  DisplayInv' /\ Settings!DefaultFull
<1>1. ShowFile(IMG_FILE, 0) /\ palette' = palette
  BY DEF default_image, OutputMode
<1>2. /\ DisplayInv' /\ up /\ answer' = NoAnswer /\ OnShown' = TRUE
      /\ IndexedShown' = (0 = 1) /\ WidthShown' = IMG_FILE.width
      /\ length' = Len(IMG_FILE.pixels)
      /\ memory' = Settings!Drawn(FromZero(IMG_FILE.pixels), Len(IMG_FILE.pixels))
      /\ UNCHANGED <<up, PanelsShown, SavedShown>>
  <2> DEFINE file == IMG_FILE
             mode == 0
  <2>1. file \in {IMG_FILE, IMG_FILE_INDEXED} /\ mode \in 0..1
    OBVIOUS
  <2>2. ShowFile(file, mode) /\ palette' \in [0..(PaletteSize - 1) -> Colours]
    BY <1>1, InvParts
  <2> HIDE DEF file, mode
  <2>3. /\ DisplayInv' /\ up /\ answer' = NoAnswer /\ OnShown' = TRUE
        /\ IndexedShown' = (mode = 1) /\ WidthShown' = file.width
        /\ length' = Len(file.pixels)
        /\ memory' = Settings!Drawn(FromZero(file.pixels), Len(file.pixels))
        /\ UNCHANGED <<up, PanelsShown, SavedShown>>
    BY <2>1, <2>2, ShowFileDone
  <2> QED BY <2>3 DEF file, mode
<1>3. (0 = 1) = FALSE
  OBVIOUS
<1>4. Settings!DefaultFull
  BY <1>1, <1>2, <1>3 DEF Settings!DefaultFull, Settings!Default
<1> QED BY <1>2, <1>4

LEMMA DefaultIndexedDone ==
  ASSUME DisplayInv, default_indexed_image
  PROVE  DisplayInv' /\ Settings!DefaultColours
<1> DEFINE data == IMG_FILE_INDEXED.palette
<1>1. ShowFile(IMG_FILE_INDEXED, 1) /\ palette' = Palette(0, data)
  BY DEF default_indexed_image, OutputMode
<1>2. Len(data) \in Nat /\ \A k \in 1..Len(data) : data[k] \in Colours
  BY ImagesAssumption
<1>3. /\ Palette(0, data) \in [0..(PaletteSize - 1) -> Colours]
      /\ Palette(0, data) = [i \in DOMAIN palette |-> IF i \in DOMAIN FromZero(data)
                                                      THEN FromZero(data)[i] ELSE palette[i]]
  <2> HIDE DEF data
  <2> QED BY <1>2, InvParts, PaletteSet
<1>4. /\ DisplayInv' /\ up /\ answer' = NoAnswer /\ OnShown' = TRUE
      /\ IndexedShown' = (1 = 1) /\ WidthShown' = IMG_FILE_INDEXED.width
      /\ length' = Len(IMG_FILE_INDEXED.pixels)
      /\ memory' = Settings!Drawn(FromZero(IMG_FILE_INDEXED.pixels), Len(IMG_FILE_INDEXED.pixels))
      /\ UNCHANGED <<up, PanelsShown, SavedShown>>
  <2> DEFINE file == IMG_FILE_INDEXED
             mode == 1
  <2>1. file \in {IMG_FILE, IMG_FILE_INDEXED} /\ mode \in 0..1
    OBVIOUS
  <2>2. ShowFile(file, mode) /\ palette' \in [0..(PaletteSize - 1) -> Colours]
    BY <1>1, <1>3
  <2> HIDE DEF file, mode
  <2>3. /\ DisplayInv' /\ up /\ answer' = NoAnswer /\ OnShown' = TRUE
        /\ IndexedShown' = (mode = 1) /\ WidthShown' = file.width
        /\ length' = Len(file.pixels)
        /\ memory' = Settings!Drawn(FromZero(file.pixels), Len(file.pixels))
        /\ UNCHANGED <<up, PanelsShown, SavedShown>>
    BY <2>1, <2>2, ShowFileDone
  <2> QED BY <2>3 DEF file, mode
<1>5. (1 = 1) = TRUE
  OBVIOUS
<1>6. Settings!DefaultColours
  BY <1>1, <1>3, <1>4, <1>5 DEF Settings!DefaultColours, Settings!Default
<1> QED BY <1>4, <1>6

(***************************************************************************)
(* The image file.                                                         *)
(***************************************************************************)

Word32 == Int \cup Colours

LEMMA FileParts ==
  ASSUME FileOK, flash # <<BlankWord>>
  PROVE  /\ flash \in Seq(Word32) /\ flash[1] \in 0..(Shorts - 1) /\ flash[2] \in 0..MemoryWords
         /\ Len(flash) = HeaderWords + flash[2]
         /\ \A i \in 1..(OUTPUTS * CHAIN_LENGTH) : flash[4 + i] \in Bits(i)
         /\ \A i \in 1..flash[2] : flash[HeaderWords + i] \in Colours
         /\ ImageValid
<1>1. flash[1] \in 0..(Shorts - 1)
  BY DEF FileOK
<1>2. ImageValid
  BY <1>1 DEF ImageValid
<1> QED BY <1>2, Zenon DEF FileOK, Word32

LEMMA BlankInvalid ==
  ASSUME flash = <<BlankWord>>
  PROVE  ~ImageValid /\ SavedShown = {}
BY DEF ImageValid, BlankWord, SavedShown

LEMMA HeaderSizes ==
  /\ OUTPUTS * CHAIN_LENGTH \in Nat /\ HeaderWords \in Nat
  /\ HeaderWords >= 4 + OUTPUTS * CHAIN_LENGTH
<1>1. OUTPUTS * CHAIN_LENGTH \in Nat
  BY DisplaySizes
<1> QED BY <1>1, DisplayAssumption

(* main and load_spi_image with an image in the flash.                     *)
LEMMA ShowFlashDone ==
  ASSUME DisplayInv, flash # <<BlankWord>>, ShowFlash
  PROVE  /\ RegistersOK(regs)' /\ memory' \in [0..(MemoryWords - 1) -> Colours] /\ length' \in Nat
         /\ IndexedShown' = IndexedShown /\ OnShown' = TRUE
         /\ WidthShown' = SavedImage(flash).width /\ length' = SavedImage(flash).length
         /\ PanelsShown' = SavedImage(flash).panels
         /\ memory' = Settings!Drawn(SavedImage(flash).pixels, SavedImage(flash).length)
<1> DEFINE n == OUTPUTS * CHAIN_LENGTH
           params == ImageParams
           words == PanelParams(params)
           v == flash[1]
           size == flash[2]
<1>1. /\ v \in 0..(Shorts - 1) /\ size \in 0..MemoryWords
      /\ flash \in Seq(Word32) /\ Len(flash) = HeaderWords + size
      /\ \A i \in 1..n : flash[4 + i] \in Bits(i)
      /\ \A i \in 1..size : flash[HeaderWords + i] \in Colours
  BY FileParts, InvParts
<1>2. n \in Nat /\ HeaderWords \in Nat /\ HeaderWords >= 4 + n /\ MemoryWords \in Nat
  BY HeaderSizes, DisplaySizes
<1>3. /\ regs' = [words EXCEPT ![CtrlWord] = Put(set_width(regs[CtrlWord], v % Shorts), Enabled, 1)]
      /\ length' = size /\ memory' = ImgData(ImageData, size)
  BY DEF ShowFlash
<1>4. SavedImage(flash) = [width |-> v, length |-> size,
                           panels |-> [p \in Panels |-> PanelParam(flash[5 + PanelOffset(p[1], p[2])])],
                           pixels |-> [i \in 0..(size - 1) |-> flash[HeaderWords + 1 + i]]]
  BY DEF SavedImage
<1>5. params = SubSeq(flash, 5, HeaderWords)
  BY DEF ImageParams
<1> HIDE DEF n, v, size, params
<1>6. Len(params) \in Nat /\ Len(params) >= n /\ \A i \in 1..n : params[i] = flash[4 + i]
  <2>1. \A i \in 5..HeaderWords : flash[i] \in Word32
    BY <1>1, <1>2
  <2>2. Len(params) = IF 5 <= HeaderWords THEN HeaderWords - 5 + 1 ELSE 0
    BY <1>2, <1>5, <2>1, SubSeqProperties
  <2>3. \A i \in 1..(HeaderWords - 5 + 1) : params[i] = flash[5 + i - 1]
    BY <1>2, <1>5, <2>1, SubSeqProperties
  <2> QED BY <1>2, <2>2, <2>3
<1>7. \A i \in 1..n : params[i] \in Bits(i)
  BY <1>1, <1>6
<1>8. /\ RegistersOK(words) /\ words[CtrlWord] = regs[CtrlWord]
      /\ \A p \in Panels : PanelAt(words, p) = PanelParam(params[PlaceOf(p)])
  <2>1. Len(params) >= OUTPUTS * CHAIN_LENGTH /\ \A i \in 1..(OUTPUTS * CHAIN_LENGTH) : params[i] \in Bits(i)
    BY <1>6, <1>7 DEF n
  <2>2. RegistersOK(regs)
    BY InvParts
  <2> QED BY <1>6, <2>1, <2>2, PanelsLoaded
<1>9. PICK i \in 0..1, e \in 0..1, w \in 0..(Shorts - 1) :
        regs[CtrlWord] = Control(i, e, w) /\ IndexedShown = (i = 1)
  BY InvParts
<1>10. Put(set_width(regs[CtrlWord], v % Shorts), Enabled, 1) = Control(i, 1, v)
  <2>1. v \in Nat /\ v % Shorts = v /\ 1 \in Nat /\ 1 % 2 = 1
    BY <1>1, DisplaySizes, Remainder
  <2>2. Put(Control(i, e, w), Width, v) = Control(i, e, v)
    BY <1>9, <2>1, ControlPuts
  <2>3. Put(Control(i, e, v), Enabled, 1) = Control(i, 1, v)
    <3>1. Put(Control(i, e, v), Enabled, 1) = Control(i, 1 % 2, v)
      BY <1>1, <1>9, <2>1, ControlPuts
    <3> QED BY <2>1, <3>1
  <2> QED BY <1>9, <2>1, <2>2, <2>3 DEF set_width
<1> HIDE DEF words
<1>11. RegistersOK(regs') /\ regs'[CtrlWord] = Control(i, 1, v) /\ PanelsOf(regs') = PanelsOf(words)
  <2> DEFINE new == Written(words, CtrlWord, Control(i, 1, v))
  <2>0. 1 \in 0..1
    OBVIOUS
  <2>1. regs' = new
    BY <1>3, <1>10, Zenon DEF Written
  <2> HIDE DEF new
  <2>2. RegistersOK(new)
    BY <1>1, <1>8, <1>9, <2>0, ControlWritten DEF new
  <2>3. new[CtrlWord] = Control(i, 1, v)
    BY <1>1, <1>8, <1>9, <2>0, ControlWritten DEF new
  <2>4. PanelsOf(new) = PanelsOf(words)
    BY <1>1, <1>8, <1>9, <2>0, ControlWritten DEF new
  <2> QED BY <2>1, <2>2, <2>3, <2>4
<1>12. IndexedShown' = IndexedShown /\ OnShown' = TRUE /\ WidthShown' = v
  <2>1. 1 \in 0..1
    OBVIOUS
  <2>2. IndexedShown' = (i = 1) /\ OnShown' = (1 = 1) /\ WidthShown' = v
    BY <1>1, <1>9, <1>11, <2>1, ControlShownNext
  <2> QED BY <1>9, <2>2
<1>13. PanelsShown' = [p \in Panels |-> PanelParam(flash[5 + PanelOffset(p[1], p[2])])]
  <2>1. ASSUME NEW p \in Panels PROVE PanelAt(words, p) = PanelParam(flash[5 + PanelOffset(p[1], p[2])])
    <3>1. PanelOffset(p[1], p[2]) \in 0..(n - 1)
      BY Offsets DEF n
    <3>2. PlaceOf(p) = 1 + PanelOffset(p[1], p[2])
      BY DEF PlaceOf, PanelWord
    <3> DEFINE o == PanelOffset(p[1], p[2])
    <3> HIDE DEF o
    <3>3. params[1 + o] = flash[5 + o]
      <4>1. 1 + o \in 1..n /\ 4 + (1 + o) = 5 + o
        BY <1>2, <3>1 DEF o
      <4> QED BY <1>6, <4>1
    <3> QED BY <1>8, <3>2, <3>3 DEF o
  <2>2. PanelsOf(words) = [p \in Panels |-> PanelParam(flash[5 + PanelOffset(p[1], p[2])])]
    BY <2>1 DEF PanelsOf
  <2> QED BY <1>11, <2>2 DEF PanelsShown
<1>14. /\ memory' \in [0..(MemoryWords - 1) -> Colours]
       /\ memory' = Settings!Drawn([k \in 0..(size - 1) |-> flash[HeaderWords + 1 + k]], size)
  <2> DEFINE data == ImageData
  <2>1. data = SubSeq(flash, HeaderWords + 1, HeaderWords + size)
    BY DEF ImageData, size
  <2> HIDE DEF data
  <2>2. size \in Nat /\ HeaderWords + 1 \in Int /\ HeaderWords + size \in Int
    BY <1>1, <1>2
  <2>3. \A k \in (HeaderWords + 1)..(HeaderWords + size) : flash[k] \in Colours
    <3> SUFFICES ASSUME NEW k \in (HeaderWords + 1)..(HeaderWords + size) PROVE flash[k] \in Colours
      OBVIOUS
    <3>1. k - HeaderWords \in 1..size /\ HeaderWords + (k - HeaderWords) = k
      BY <1>2, <2>2
    <3> QED BY <1>1, <3>1
  <2>4. /\ data \in Seq(Colours)
        /\ Len(data) = IF HeaderWords + 1 <= HeaderWords + size THEN (HeaderWords + size) - (HeaderWords + 1) + 1 ELSE 0
        /\ \A k \in 1..((HeaderWords + size) - (HeaderWords + 1) + 1) : data[k] = flash[(HeaderWords + 1) + k - 1]
    BY <2>1, <2>2, <2>3, SubSeqProperties
  <2>5. Len(data) = size /\ Len(data) \in Nat
    BY <1>2, <2>2, <2>4
  <2>6. \A k \in 1..Len(data) : data[k] \in Colours
    BY <2>4
  <2>7. FromZero(data) = [k \in 0..(size - 1) |-> flash[HeaderWords + 1 + k]]
    <3>1. ASSUME NEW k \in 0..(size - 1) PROVE data[k + 1] = flash[HeaderWords + 1 + k]
      <4>1. k + 1 \in 1..((HeaderWords + size) - (HeaderWords + 1) + 1)
            /\ (HeaderWords + 1) + (k + 1) - 1 = HeaderWords + 1 + k
        BY <1>2, <2>2
      <4> QED BY <2>4, <4>1
    <3> QED BY <2>5, <3>1 DEF FromZero
  <2>8. /\ ImgData(data, size) \in [0..(MemoryWords - 1) -> Colours]
        /\ ImgData(data, size) = Settings!Drawn(FromZero(data), size)
    BY <2>2, <2>5, <2>6, InvParts, DataDrawn
  <2>9. memory' = ImgData(data, size)
    BY <1>3 DEF data
  <2> QED BY <2>7, <2>8, <2>9
<1>15. RegistersOK(regs)' /\ length' \in Nat
  BY <1>1, <1>3, <1>11
<1> QED BY <1>3, <1>4, <1>12, <1>13, <1>14, <1>15

LEMMA BootMaps ==
  ASSUME DisplayInv, Boot
  PROVE  DisplayInv' /\ Settings!Next
<1>1. ~up /\ up' = TRUE /\ UNCHANGED <<palette, flash, answer>>
  BY DEF Boot
<1>2. SavedShown' = SavedShown /\ FileOK'
  BY <1>1, FileStays, InvParts
<1>3. CASE flash = <<BlankWord>>
  <2>1. SavedShown = {} /\ UNCHANGED <<regs, length, memory>>
    BY <1>3, BlankInvalid DEF Boot
  <2>2. UNCHANGED <<IndexedShown, OnShown, WidthShown, PanelsShown>> /\ RegistersOK(regs)'
    BY <2>1, RegistersStay, InvParts
  <2>3. DisplayInv'
    BY <1>1, <1>2, <2>1, <2>2, InvParts DEF DisplayInv
  <2>4. Settings!Boot
    BY <1>1, <1>2, <2>1, <2>2 DEF Settings!Boot
  <2> QED BY <2>3, <2>4 DEF Settings!Next
<1>4. CASE flash # <<BlankWord>>
  <2>1. ShowFlash /\ SavedShown = {SavedImage(flash)}
    BY <1>4, FileParts, InvParts DEF Boot, SavedShown
  <2>2. /\ RegistersOK(regs)' /\ memory' \in [0..(MemoryWords - 1) -> Colours] /\ length' \in Nat
        /\ IndexedShown' = IndexedShown /\ OnShown' = TRUE
        /\ WidthShown' = SavedImage(flash).width /\ length' = SavedImage(flash).length
        /\ PanelsShown' = SavedImage(flash).panels
        /\ memory' = Settings!Drawn(SavedImage(flash).pixels, SavedImage(flash).length)
    BY <1>4, <2>1, ShowFlashDone
  <2>3. DisplayInv'
    BY <1>1, <1>2, <2>2, InvParts DEF DisplayInv
  <2>4. Settings!Show(SavedImage(flash))
    BY <2>2 DEF Settings!Show
  <2>5. Settings!Boot
    BY <1>1, <1>2, <2>1, <2>2, <2>4 DEF Settings!Boot
  <2> QED BY <2>3, <2>5 DEF Settings!Next
<1> QED BY <1>3, <1>4

LEMMA LoadDone ==
  ASSUME DisplayInv, load_spi_image, flash # <<BlankWord>>
  PROVE  DisplayInv' /\ Settings!Load
<1>1. ImageValid
  BY FileParts, InvParts
<1>2. up /\ ShowFlash /\ answer' = NoAnswer /\ UNCHANGED <<flash, up, palette>>
  BY <1>1 DEF load_spi_image, Command
<1>3. SavedShown' = SavedShown /\ FileOK'
  BY <1>2, FileStays, InvParts
<1>4. SavedShown = {SavedImage(flash)}
  BY DEF SavedShown
<1>5. /\ RegistersOK(regs)' /\ memory' \in [0..(MemoryWords - 1) -> Colours] /\ length' \in Nat
      /\ IndexedShown' = IndexedShown /\ OnShown' = TRUE
      /\ WidthShown' = SavedImage(flash).width /\ length' = SavedImage(flash).length
      /\ PanelsShown' = SavedImage(flash).panels
      /\ memory' = Settings!Drawn(SavedImage(flash).pixels, SavedImage(flash).length)
  BY <1>2, ShowFlashDone
<1>6. DisplayInv'
  BY <1>2, <1>3, <1>5, InvParts DEF DisplayInv
<1>7. Settings!Show(SavedImage(flash))
  BY <1>5 DEF Settings!Show
<1>8. Settings!Load
  BY <1>2, <1>3, <1>4, <1>5, <1>7 DEF Settings!Load
<1> QED BY <1>6, <1>8

LEMMA LoadMaps ==
  ASSUME DisplayInv, load_spi_image
  PROVE  DisplayInv' /\ Settings!Next
<1>1. CASE flash # <<BlankWord>>
  <2>1. DisplayInv' /\ Settings!Load
    BY <1>1, LoadDone
  <2> QED BY <2>1 DEF Settings!Next
<1>2. CASE flash = <<BlankWord>>
  <2>1. ~ImageValid /\ SavedShown = {}
    BY <1>2, BlankInvalid
  <2>2. up /\ Reset(NoImage) /\ palette' = palette
    BY <2>1 DEF load_spi_image, Command
  <2>3. DisplayInv' /\ Settings!Restart(NoImage)
    BY <2>2, InvParts, ResetDone
  <2>4. Settings!Panic
    BY <2>1, <2>2, <2>3 DEF Settings!Panic
  <2> QED BY <2>3, <2>4 DEF Settings!Next
<1> QED BY <1>1, <1>2

(* What is saved has the words that a load looks at. *)
LEMMA FileWritten ==
  ASSUME DisplayInv, length <= MemoryWords
  PROVE  /\ ImageFile \in Seq(Word32) /\ Len(ImageFile) = HeaderWords + length
         /\ ImageFile[1] = WidthShown /\ ImageFile[2] = length
         /\ \A i \in 1..(OUTPUTS * CHAIN_LENGTH) : ImageFile[4 + i] = regs[i] /\ regs[i] \in Bits(i)
         /\ \A i \in 1..length : ImageFile[HeaderWords + i] = memory[i - 1] /\ memory[i - 1] \in Colours
<1> DEFINE n == OUTPUTS * CHAIN_LENGTH
           first == <<WidthShown, length>>
           second == first \o Magic
           params == get_panel_params
           header == second \o params
           zeros == [i \in 1..(HeaderWords - Len(header)) |-> 0]
           front == header \o zeros
           data == read_img_data
           file == front \o data
<1>1. n \in Nat /\ HeaderWords \in Nat /\ HeaderWords >= 4 + n /\ MemoryWords \in Nat
  BY HeaderSizes, DisplaySizes
<1>2. length \in Nat /\ WidthShown \in Int /\ memory \in [0..(MemoryWords - 1) -> Colours]
  BY InvParts
<1>3. ImageFile = file
  BY DEF ImageFile, WidthShown
<1>4. first \in Seq(Word32) /\ Len(first) = 2 /\ first[1] = WidthShown /\ first[2] = length
  BY <1>2 DEF Word32
<1>5. Magic \in Seq(Word32) /\ Len(Magic) = 2
  BY DEF Magic, Word32
<1> HIDE DEF first
<1>6. /\ second \in Seq(Word32) /\ Len(second) = 4
      /\ second[1] = WidthShown /\ second[2] = length
  <2>1. /\ second \in Seq(Word32) /\ Len(second) = Len(first) + Len(Magic)
        /\ \A i \in 1..(Len(first) + Len(Magic)) :
             second[i] = IF i <= Len(first) THEN first[i] ELSE Magic[i - Len(first)]
    BY <1>4, <1>5, ConcatProperties
  <2> HIDE DEF second
  <2> QED BY <1>4, <1>5, <2>1
<1> HIDE DEF second
<1>7. /\ params \in Seq(Word32) /\ Len(params) = n
      /\ \A i \in 1..n : params[i] = regs[i] /\ regs[i] \in Bits(i)
  <2>1. \A i \in 1..n : i \in 0..(RegisterWords - 1) /\ PanelWord(i - 1) = i
    BY <1>1 DEF RegisterWords, PanelWord
  <2>2. \A i \in 1..n : regs[i] \in Nat /\ regs[i] \in Bits(i)
    BY <2>1, InvParts DEF RegistersOK
  <2>3. params = [i \in 1..n |-> regs[PanelWord(i - 1)]]
    BY DEF get_panel_params
  <2> HIDE DEF n, params
  <2>4. params = [i \in 1..n |-> regs[i]]
    BY <2>1, <2>3
  <2> QED BY <1>1, <2>2, <2>4 DEF Word32
<1> HIDE DEF params, n
<1>8. /\ header \in Seq(Word32) /\ Len(header) = 4 + n
      /\ header[1] = WidthShown /\ header[2] = length
      /\ \A i \in 1..n : header[4 + i] = regs[i]
  <2>1. /\ header \in Seq(Word32) /\ Len(header) = Len(second) + Len(params)
        /\ \A i \in 1..(Len(second) + Len(params)) :
             header[i] = IF i <= Len(second) THEN second[i] ELSE params[i - Len(second)]
    BY <1>6, <1>7, ConcatProperties
  <2> HIDE DEF header
  <2>2. \A i \in 1..n : header[4 + i] = params[i]
    BY <1>1, <1>6, <1>7, <2>1
  <2> QED BY <1>1, <1>6, <1>7, <2>1, <2>2
<1>9. zeros \in Seq(Word32) /\ Len(zeros) = HeaderWords - (4 + n)
  <2> HIDE DEF header
  <2> QED BY <1>1, <1>8 DEF Word32
<1> HIDE DEF header, zeros
<1>10. /\ front \in Seq(Word32) /\ Len(front) = HeaderWords
       /\ front[1] = WidthShown /\ front[2] = length
       /\ \A i \in 1..n : front[4 + i] = regs[i]
  <2>1. /\ front \in Seq(Word32) /\ Len(front) = Len(header) + Len(zeros)
        /\ \A i \in 1..(Len(header) + Len(zeros)) :
             front[i] = IF i <= Len(header) THEN header[i] ELSE zeros[i - Len(header)]
    BY <1>8, <1>9, ConcatProperties
  <2> HIDE DEF front
  <2>2. \A i \in 1..(4 + n) : front[i] = header[i]
    BY <1>1, <1>8, <1>9, <2>1
  <2> QED BY <1>1, <1>8, <1>9, <2>1, <2>2
<1> HIDE DEF front
<1>11. /\ data \in Seq(Word32) /\ Len(data) = length
       /\ \A i \in 1..length : data[i] = memory[i - 1] /\ memory[i - 1] \in Colours
  <2>1. \A i \in 1..length : i - 1 \in 0..(MemoryWords - 1)
    BY <1>1, <1>2
  <2>2. \A i \in 1..length : memory[i - 1] \in Colours
    BY <1>2, <2>1
  <2>3. data = [i \in 1..length |-> memory[i - 1]]
    BY DEF read_img_data
  <2> QED BY <1>2, <2>2, <2>3 DEF Word32
<1> HIDE DEF data
<1>12. /\ file \in Seq(Word32) /\ Len(file) = HeaderWords + length
       /\ file[1] = WidthShown /\ file[2] = length
       /\ \A i \in 1..n : file[4 + i] = regs[i]
       /\ \A i \in 1..length : file[HeaderWords + i] = memory[i - 1]
  <2>1. /\ file \in Seq(Word32) /\ Len(file) = Len(front) + Len(data)
        /\ \A i \in 1..(Len(front) + Len(data)) :
             file[i] = IF i <= Len(front) THEN front[i] ELSE data[i - Len(front)]
    BY <1>10, <1>11, ConcatProperties
  <2> HIDE DEF file
  <2>2. \A i \in 1..HeaderWords : file[i] = front[i]
    BY <1>1, <1>2, <1>10, <1>11, <2>1
  <2>3. \A i \in 1..length : file[HeaderWords + i] = data[i]
    BY <1>1, <1>2, <1>10, <1>11, <2>1
  <2> QED BY <1>1, <1>2, <1>10, <1>11, <2>1, <2>2, <2>3
<1> HIDE DEF file
<1> QED BY <1>3, <1>7, <1>11, <1>12 DEF n

LEMMA SaveDone ==
  ASSUME DisplayInv, save_spi_image, length <= MemoryWords
  PROVE  DisplayInv' /\ Settings!Save
<1> DEFINE n == OUTPUTS * CHAIN_LENGTH
           file == ImageFile
           image == [width |-> WidthShown, length |-> length, panels |-> PanelsShown,
                     pixels |-> [i \in 0..(length - 1) |-> memory[i]]]
<1>1. /\ flash' = file /\ answer' = NoAnswer
      /\ UNCHANGED <<regs, memory, length, up, palette>> /\ up
  BY DEF save_spi_image, Command
<1>2. /\ file \in Seq(Word32) /\ Len(file) = HeaderWords + length
      /\ file[1] = WidthShown /\ file[2] = length
      /\ \A i \in 1..n : file[4 + i] = regs[i] /\ regs[i] \in Bits(i)
      /\ \A i \in 1..length : file[HeaderWords + i] = memory[i - 1] /\ memory[i - 1] \in Colours
  BY FileWritten
<1>3. length \in 0..MemoryWords /\ WidthShown \in 0..(Shorts - 1) /\ HeaderWords \in Nat
  BY InvParts, DisplaySizes
<1>4. n \in Nat
  BY HeaderSizes
<1> HIDE DEF file, n
<1>5. file # <<BlankWord>>
  <2>1. <<BlankWord>>[1] = -1
    BY DEF BlankWord
  <2>2. file[1] >= 0
    BY <1>2, <1>3
  <2> QED BY <2>1, <2>2
<1>6. FileOK'
  <2>1. /\ flash' \in Seq(Word32)
        /\ flash'[1] \in 0..(Shorts - 1) /\ flash'[2] \in 0..MemoryWords
        /\ Len(flash') = HeaderWords + flash'[2]
    BY <1>1, <1>2, <1>3
  <2>2. \A i \in 1..n : flash'[4 + i] \in Bits(i)
    BY <1>1, <1>2
  <2>3. \A i \in 1..flash'[2] : flash'[HeaderWords + i] \in Colours
    BY <1>1, <1>2
  <2> QED BY <2>1, <2>2, <2>3, Zenon DEF FileOK, Word32, n
<1>7. UNCHANGED <<IndexedShown, OnShown, WidthShown, PanelsShown>> /\ RegistersOK(regs)'
  BY <1>1, RegistersStay, InvParts
<1>8. SavedImage(file) = image
  <2>1. ASSUME NEW p \in Panels PROVE PanelParam(file[5 + PanelOffset(p[1], p[2])]) = PanelsShown[p]
    <3> DEFINE o == PanelOffset(p[1], p[2])
    <3>1. o \in 0..(n - 1) /\ PanelsShown[p] = PanelParam(regs[1 + o])
      BY Offsets DEF n, PanelsShown, PanelsOf, PanelAt, PanelWord
    <3> HIDE DEF o
    <3>2. 1 + o \in 1..n /\ 4 + (1 + o) = 5 + o
      BY <1>4, <3>1
    <3>3. file[5 + o] = regs[1 + o]
      BY <1>2, <3>2
    <3> QED BY <3>1, <3>3 DEF o
  <2>2. [p \in Panels |-> PanelParam(file[5 + PanelOffset(p[1], p[2])])] = PanelsShown
    BY <2>1 DEF PanelsShown, PanelsOf
  <2>3. ASSUME NEW i \in 0..(length - 1) PROVE file[HeaderWords + 1 + i] = memory[i]
    <3>1. i + 1 \in 1..length /\ HeaderWords + (i + 1) = HeaderWords + 1 + i /\ (i + 1) - 1 = i
      BY <1>3
    <3> QED BY <1>2, <3>1
  <2>4. [i \in 0..(length - 1) |-> file[HeaderWords + 1 + i]] = [i \in 0..(length - 1) |-> memory[i]]
    BY <2>3
  <2>5. SavedImage(file) = [width |-> file[1], length |-> file[2],
                            panels |-> [p \in Panels |-> PanelParam(file[5 + PanelOffset(p[1], p[2])])],
                            pixels |-> [i \in 0..(file[2] - 1) |-> file[HeaderWords + 1 + i]]]
    BY DEF SavedImage
  <2> QED BY <1>2, <2>2, <2>4, <2>5
<1>9. SavedShown' = {image}
  <2>1. SavedShown' = {SavedImage(file)}
    BY <1>1, <1>5 DEF SavedShown
  <2> QED BY <1>8, <2>1
<1>10. DisplayInv'
  BY <1>1, <1>6, <1>7, InvParts DEF DisplayInv
<1>11. Settings!Save
  BY <1>1, <1>3, <1>7, <1>9 DEF Settings!Save, Settings!shown
<1> QED BY <1>10, <1>11

LEMMA SaveMaps ==
  ASSUME DisplayInv, save_spi_image
  PROVE  DisplayInv' /\ Settings!Next
<1>1. CASE length <= MemoryWords
  <2>1. DisplayInv' /\ Settings!Save
    BY <1>1, SaveDone
  <2> QED BY <2>1 DEF Settings!Next
<1>2. CASE ~(length <= MemoryWords)
  <2>1. up /\ Reset(ImageTooLong) /\ palette' = palette
    BY <1>2 DEF save_spi_image, Command
  <2>2. DisplayInv' /\ Settings!Restart(ImageTooLong)
    BY <2>1, InvParts, ResetDone
  <2>3. length > MemoryWords
    BY <1>2, InvParts, DisplaySizes
  <2>4. Settings!Panic
    BY <2>1, <2>2, <2>3 DEF Settings!Panic
  <2> QED BY <2>2, <2>4 DEF Settings!Next
<1> QED BY <1>1, <1>2

(***************************************************************************)
(* The palette, and what comes by itself.                                  *)
(***************************************************************************)

LEMMA ArtnetMaps ==
  ASSUME DisplayInv, NEW universe \in {0, 1}, NEW bytes \in Payloads, NEW colour \in Colours,
         ArtnetPalette(universe, bytes, colour)
  PROVE  /\ DisplayInv' /\ Settings!Next
         /\ WholeColours(universe, bytes) =>
              Settings!SetPalette(universe, colour, bytes \div PixelBytes)
<1> DEFINE offset == universe * UniversePixels
           whole == bytes \div PixelBytes
           chunks == (bytes + PixelBytes - 1) \div PixelBytes
           taken == Taken(offset, chunks)
           set == IF taken < whole THEN taken ELSE whole
           data == [i \in 1..set |-> colour]
<1>1. /\ up /\ palette' = Palette(offset, data)
      /\ IF taken > whole THEN Reset(PartOfColour)
         ELSE UNCHANGED <<regs, memory, flash, length, up, answer>>
  BY DEF ArtnetPalette, Command
<1>2. offset \in Nat /\ PaletteSize \in Nat /\ PaletteSize - offset \in Nat
  <2>1. UniversePixels < PaletteSize /\ UniversePixels \in Nat /\ PaletteSize \in Nat
    BY DisplayAssumption, DisplaySizes
  <2>2. offset = 0 \/ offset = UniversePixels
    BY <2>1
  <2> HIDE DEF offset
  <2> QED BY <2>1, <2>2
<1>3. /\ whole \in Nat /\ chunks \in Nat /\ chunks >= whole
      /\ bytes % PixelBytes = 0 => chunks = whole
  <2>1. bytes \in Nat /\ PixelBytes \in Nat /\ PixelBytes > 0
    BY DisplayAssumption, DisplaySizes
  <2>2. bytes + PixelBytes - 1 \in Nat
    BY <2>1
  <2>3. whole \in Nat /\ chunks \in Nat
    BY <2>1, <2>2, Quotient
  <2> DEFINE rest == bytes % PixelBytes
             product == whole * PixelBytes
             left == (bytes + PixelBytes - 1) % PixelBytes
  <2>4. bytes = product + rest /\ rest \in 0..(PixelBytes - 1)
    BY <2>1, Quotient
  <2>5. bytes + PixelBytes - 1 = chunks * PixelBytes + left /\ left \in 0..(PixelBytes - 1)
    BY <2>1, <2>2, Quotient
  <2>6. product \in Nat
    BY <2>1, <2>3
  <2>7. ASSUME rest = 0 PROVE chunks = whole
    <3>1. (product + (PixelBytes - 1)) \div PixelBytes = whole
      <4> HIDE DEF whole
      <4> QED BY <2>1, <2>3, Divides
    <3>2. bytes + PixelBytes - 1 = product + (PixelBytes - 1)
      <4> HIDE DEF product, rest
      <4> QED BY <2>1, <2>4, <2>6, <2>7
    <3> HIDE DEF product, rest
    <3> QED BY <3>1, <3>2
  <2>8. chunks >= whole
    <3>1. SUFFICES ASSUME chunks < whole PROVE FALSE
      BY <2>3
    <3> HIDE DEF whole, chunks, rest, left
    <3>2. PICK d \in Nat : whole = chunks + 1 + d
      <4>1. whole - chunks - 1 \in Nat /\ whole = chunks + 1 + (whole - chunks - 1)
        BY <2>3, <3>1
      <4> QED BY <4>1
    <3>3. product = chunks * PixelBytes + PixelBytes + d * PixelBytes
      BY <2>1, <2>3, <3>2
    <3>4. d * PixelBytes \in Nat /\ chunks * PixelBytes \in Nat
      BY <2>1, <2>3, <3>2
    <3> QED BY <2>1, <2>4, <2>5, <2>6, <3>3, <3>4
  <2> HIDE DEF whole, chunks
  <2> QED BY <2>3, <2>7, <2>8
<1>11. WholeColours(universe, bytes) <=> bytes % PixelBytes = 0 \/ offset + whole >= PaletteSize
  BY DEF WholeColours
<1> HIDE DEF offset, whole, chunks
<1>4. taken \in Nat /\ taken <= PaletteSize
  BY <1>2, <1>3 DEF Taken
<1>12. taken = (IF chunks > PaletteSize - offset THEN PaletteSize - offset ELSE chunks)
  BY DEF Taken
<1>13. WholeColours(universe, bytes) => taken <= whole
  BY <1>2, <1>3, <1>11, <1>12
<1> HIDE DEF taken
<1>14. taken <= whole => set = taken
  BY <1>3, <1>4
<1>5. set \in 0..PaletteSize
  BY <1>2, <1>3, <1>4
<1> HIDE DEF set
<1>6. Len(data) = set /\ Len(data) \in Nat /\ \A i \in 1..Len(data) : data[i] = colour
  <2>1. data \in Seq(Colours) /\ Len(data) = set
    BY <1>5
  <2> QED BY <1>5, <2>1
<1> HIDE DEF data
<1>7. palette' \in [0..(PaletteSize - 1) -> Colours]
  <2>1. Palette(offset, data) \in [0..(PaletteSize - 1) -> Colours]
    BY <1>2, <1>6, InvParts, PaletteSet
  <2> QED BY <1>1, <2>1
<1>8. palette' = Settings!Recolour(universe, colour, set)
  <2>1. palette \in [0..(PaletteSize - 1) -> Colours]
    BY InvParts
  <2>2. ASSUME NEW i \in 0..(PaletteSize - 1)
        PROVE  (IF i >= offset /\ i - offset < Len(data) THEN data[i - offset + 1] ELSE palette[i])
                 = IF i - offset \in 0..(set - 1) THEN colour ELSE palette[i]
    <3>1. i - offset \in Int /\ (i >= offset /\ i - offset < Len(data) <=> i - offset \in 0..(set - 1))
      BY <1>2, <1>5, <1>6
    <3>2. i - offset \in 0..(set - 1) => data[i - offset + 1] = colour
      BY <1>5, <1>6, <3>1
    <3> QED BY <3>1, <3>2
  <2>3. Palette(offset, data) = [i \in DOMAIN palette |-> IF i - offset \in 0..(set - 1)
                                                          THEN colour ELSE palette[i]]
    BY <2>1, <2>2 DEF Palette
  <2>4. Settings!Recolour(universe, colour, set)
          = [i \in DOMAIN palette |-> IF i - offset \in 0..(set - 1) THEN colour ELSE palette[i]]
    BY DEF Settings!Recolour, offset
  <2> QED BY <1>1, <2>3, <2>4
<1>15. WholeColours(universe, bytes) =>
         Settings!Recolour(universe, colour, whole) = Settings!Recolour(universe, colour, set)
  <2> SUFFICES ASSUME WholeColours(universe, bytes), NEW i \in DOMAIN palette
               PROVE  i - offset \in 0..(whole - 1) <=> i - offset \in 0..(set - 1)
    BY DEF Settings!Recolour, offset
  <2>1. i \in 0..(PaletteSize - 1)
    BY InvParts
  <2>2. set = taken /\ set <= whole
    BY <1>3, <1>4, <1>13, <1>14
  <2>3. set = whole \/ set >= PaletteSize - offset
    BY <1>2, <1>3, <1>11, <1>12, <2>2
  <2> QED BY <1>2, <1>3, <1>5, <2>1, <2>2, <2>3
<1>9. CASE taken > whole
  <2>1. Reset(PartOfColour)
    BY <1>1, <1>9
  <2>2. DisplayInv' /\ Settings!Restart(PartOfColour)
    BY <1>1, <1>7, <2>1, ResetDone
  <2>3. ~WholeColours(universe, bytes)
    BY <1>3, <1>4, <1>9, <1>13
  <2> QED BY <1>5, <1>8, <2>2, <2>3 DEF Settings!Next
<1>10. CASE ~(taken > whole)
  <2>1. UNCHANGED <<regs, memory, flash, length, up, answer>>
    BY <1>1, <1>10
  <2>2. UNCHANGED <<IndexedShown, OnShown, WidthShown, PanelsShown>> /\ RegistersOK(regs)'
    BY <2>1, RegistersStay, InvParts
  <2>3. SavedShown' = SavedShown /\ FileOK'
    BY <2>1, FileStays, InvParts
  <2>4. DisplayInv'
    BY <1>7, <2>1, <2>2, <2>3, InvParts DEF DisplayInv
  <2>5. Settings!SetPalette(universe, colour, set)
    BY <1>1, <1>8, <2>1, <2>2, <2>3 DEF Settings!SetPalette, Settings!shown
  <2>6. WholeColours(universe, bytes) => Settings!SetPalette(universe, colour, whole)
    BY <1>15, <2>5 DEF Settings!SetPalette
  <2>7. WholeColours(universe, bytes) =>
          Settings!SetPalette(universe, colour, bytes \div PixelBytes)
    BY <2>6 DEF whole
  <2> QED BY <1>5, <2>4, <2>5, <2>7 DEF Settings!Next
<1> QED BY <1>9, <1>10

(* What leaves the settings alone. *)
LEMMA NothingSet ==
  ASSUME DisplayInv, UNCHANGED <<regs, memory, palette, flash, length, up, answer>>
  PROVE  DisplayInv' /\ UNCHANGED Settings!settings_vars
<1>1. UNCHANGED <<IndexedShown, OnShown, WidthShown, PanelsShown>> /\ RegistersOK(regs)'
  BY RegistersStay, InvParts
<1>2. SavedShown' = SavedShown /\ FileOK'
  BY FileStays, InvParts
<1>3. DisplayInv'
  BY <1>1, <1>2, InvParts DEF DisplayInv
<1> QED BY <1>1, <1>2, <1>3 DEF Settings!settings_vars, Settings!shown

LEMMA DrawMaps ==
  ASSUME DisplayInv, Draw
  PROVE  DisplayInv' /\ Settings!Next
<1>1. PICK i \in DOMAIN memory, c \in Colours : memory' = [memory EXCEPT ![i] = c]
  BY DEF Draw
<1>2. UNCHANGED <<regs, palette, flash, length, up, answer>>
  BY DEF Draw
<1>3. memory' \in [0..(MemoryWords - 1) -> Colours]
  BY <1>1, InvParts
<1>4. UNCHANGED <<IndexedShown, OnShown, WidthShown, PanelsShown>> /\ RegistersOK(regs)'
  BY <1>2, RegistersStay, InvParts
<1>5. SavedShown' = SavedShown /\ FileOK'
  BY <1>2, FileStays, InvParts
<1>6. DisplayInv'
  BY <1>2, <1>3, <1>4, <1>5, InvParts DEF DisplayInv
<1>7. Settings!Draw
  BY <1>1, <1>2, <1>4, <1>5 DEF Settings!Draw, Settings!shown
<1> QED BY <1>6, <1>7 DEF Settings!Next

LEMMA RebootMaps ==
  ASSUME DisplayInv, Reboot
  PROVE  DisplayInv' /\ Settings!Next
<1>1. up /\ Reset(NoAnswer) /\ palette' = palette
  BY DEF Reboot, Command
<1>2. DisplayInv' /\ Settings!Restart(NoAnswer)
  BY <1>1, InvParts, ResetDone
<1> QED BY <1>1, <1>2 DEF Settings!Next

LEMMA DisplayStarts ==
  ASSUME DisplayInit
  PROVE  DisplayInv /\ Settings!Init
<1>1. /\ regs = [word \in 0..(RegisterWords - 1) |-> ResetValue]
      /\ memory \in [0..(MemoryWords - 1) -> Colours] /\ palette \in [0..(PaletteSize - 1) -> Colours]
      /\ flash = <<BlankWord>> /\ length = 0 /\ up = FALSE /\ answer = NoAnswer
  BY DEF DisplayInit
<1>2. /\ RegistersOK(regs) /\ regs[CtrlWord] = Control(0, 0, 0)
      /\ \A p \in Panels : PanelAt(regs, p) = Settings!Unset
  BY <1>1, RegistersReset
<1>3. IndexedShown = FALSE /\ OnShown = FALSE /\ WidthShown = 0
  <2>1. 0 \in 0..1 /\ 0 \in 0..(Shorts - 1)
    BY DisplaySizes
  <2>2. IndexedShown = (0 = 1) /\ OnShown = (0 = 1) /\ WidthShown = 0
    BY <1>2, <2>1, ControlShown
  <2>3. (0 = 1) = FALSE
    OBVIOUS
  <2> QED BY <2>2, <2>3, Zenon
<1>4. PanelsShown = [p \in Settings!Panels |-> Settings!Unset]
  BY <1>2, SettingsSets DEF PanelsShown, PanelsOf
<1>5. SavedShown = {} /\ FileOK
  BY <1>1, BlankInvalid DEF FileOK
<1>6. DisplayInv
  BY <1>1, <1>2, <1>5 DEF DisplayInv
<1>7. Settings!Init
  BY <1>1, <1>3, <1>4, <1>5 DEF Settings!Init
<1> QED BY <1>6, <1>7

(***************************************************************************)
(* Theorems.                                                               *)
(***************************************************************************)

(* Every step of the firmware is one of the settings, or changes none. *)
LEMMA StepMaps ==
  ASSUME DisplayInv, DisplayNext
  PROVE  DisplayInv' /\ [Settings!Next]_(Settings!settings_vars)
<1>1. CASE Boot
  BY <1>1, BootMaps
<1>2. CASE Draw
  BY <1>2, DrawMaps
<1>3. CASE Reboot
  BY <1>3, RebootMaps
<1>4. CASE default_image
  BY <1>4, DefaultImageDone DEF Settings!Next
<1>5. CASE default_indexed_image
  BY <1>5, DefaultIndexedDone DEF Settings!Next
<1>6. CASE load_spi_image
  BY <1>6, LoadMaps
<1>7. CASE save_spi_image
  BY <1>7, SaveMaps
<1>8. CASE on
  <2>1. DisplayInv' /\ Settings!Switch(TRUE)
    BY <1>8, OnDone
  <2> QED BY <2>1 DEF Settings!Next
<1>9. CASE off
  <2>1. DisplayInv' /\ Settings!Switch(FALSE)
    BY <1>9, OffDone
  <2> QED BY <2>1 DEF Settings!Next
<1>10. CASE get_image_param
  BY <1>10, GetImageDone DEF Settings!Next
<1>11. ASSUME NEW w \in Typed(Widths), NEW l \in Typed(Lengths), set_image_param(w, l)
       PROVE  DisplayInv' /\ Settings!Next
  BY <1>11, SetImageMaps
<1>12. ASSUME NEW o \in Typed(Arguments), NEW c \in Typed(Arguments), get_panel_param(o, c)
       PROVE  DisplayInv' /\ Settings!Next
  BY <1>12, GetPanelMaps
<1>13. ASSUME NEW o \in Typed(Arguments), NEW c \in Typed(Arguments),
              NEW x \in Typed(Arguments), NEW y \in Typed(Arguments), NEW rot \in Typed(Turns),
              set_panel_param(o, c, x, y, rot)
       PROVE  DisplayInv' /\ Settings!Next
  BY <1>13, SetPanelMaps
<1>14. CASE set_default_panel_params
  BY <1>14, DefaultPanelsDone DEF Settings!Next
<1>15. ASSUME NEW universe \in {0, 1}, NEW bytes \in Payloads, NEW colour \in Colours,
              ArtnetPalette(universe, bytes, colour)
       PROVE  DisplayInv' /\ Settings!Next
  BY <1>15, ArtnetMaps
<1>16. CASE ArtnetIgnored
  BY <1>16, NothingSet DEF ArtnetIgnored
<1> QED
  BY <1>1, <1>2, <1>3, <1>4, <1>5, <1>6, <1>7, <1>8, <1>9, <1>10, <1>11, <1>12, <1>13, <1>14, <1>15, <1>16
     DEF DisplayNext

LEMMA DisplayInductive ==
  ASSUME DisplayInv, [DisplayNext]_display_vars
  PROVE  DisplayInv'
<1>1. CASE DisplayNext
  BY <1>1, StepMaps
<1>2. CASE UNCHANGED display_vars
  BY <1>2, NothingSet DEF display_vars
<1> QED BY <1>1, <1>2

(* Every register, and every word of the image file, has the bits its      *)
(* fields have, whatever commands and packets come.                        *)
THEOREM DisplayInvariant == DisplaySpec => []DisplayInv
<1>1. DisplayInit => DisplayInv
  BY DisplayStarts
<1>2. DisplayInv /\ [DisplayNext]_display_vars => DisplayInv'
  BY DisplayInductive
<1> QED BY <1>1, <1>2, PTL DEF DisplaySpec

(* What menu.rs, hub75.rs, img.rs and the register crate do to bits and    *)
(* words is what the settings promise to who types commands: no command    *)
(* disturbs what another set, saving and loading bring everything back,    *)
(* and a panic restarts into the saved image.                              *)
THEOREM SettingsAreImplemented == DisplaySpec => ImplementsSettings
<1>1. DisplayInit => Settings!Init
  BY DisplayStarts
<1>2. DisplayInv /\ [DisplayNext]_display_vars => [Settings!Next]_(Settings!settings_vars)
  <2>1. CASE DisplayNext
    BY <2>1, StepMaps
  <2>2. CASE UNCHANGED display_vars
    BY <2>2, NothingSet DEF display_vars
  <2> QED BY <2>1, <2>2
<1> QED BY <1>1, <1>2, DisplayInvariant, PTL DEF DisplaySpec, ImplementsSettings, Settings!Spec

(* Each command does what its name says, whatever it is typed after.       *)
LEMMA EachDone ==
  ASSUME DisplayInv
  PROVE  CommandDone
<1>1. on => Settings!Switch(TRUE)
  BY OnDone
<1>2. off => Settings!Switch(FALSE)
  BY OffDone
<1>3. default_image => Settings!DefaultFull
  BY DefaultImageDone
<1>4. default_indexed_image => Settings!DefaultColours
  BY DefaultIndexedDone
<1>5. load_spi_image /\ flash # <<BlankWord>> => Settings!Load
  BY LoadDone
<1>6. save_spi_image /\ length <= MemoryWords => Settings!Save
  BY SaveDone
<1>7. get_image_param => Settings!AskImage
  BY GetImageDone
<1>8. \A w \in Widths, l \in Lengths : set_image_param(w, l) => Settings!SetImage(w, l)
  BY SetImageDone
<1>9. set_default_panel_params => Settings!DefaultPanels
  BY DefaultPanelsDone
<1>10. ASSUME NEW p \in Panels \cap (Arguments \X Arguments)
       PROVE  get_panel_param(p[1], p[2]) => Settings!AskPanel(p)
  <2>1. p \in Panels /\ Invalid \notin {p[1], p[2]}
    BY DisplayAssumption
  <2> QED BY <2>1, GetPanelDone
<1>11. ASSUME NEW p \in Panels \cap (Arguments \X Arguments),
              NEW x \in Arguments, NEW y \in Arguments, NEW rot \in Turns,
              set_panel_param(p[1], p[2], x, y, rot)
       PROVE  Settings!SetPanel(p) /\ PanelAt(regs, p)' = [x |-> x, y |-> y, rot |-> rot % Rotations]
  <2>1. p \in Panels /\ Invalid \notin {p[1], p[2], x, y, rot}
    BY DisplayAssumption
  <2>2. x \in 0..(Bytes - 1) /\ y \in 0..(Bytes - 1) /\ rot \in Nat
    BY DisplayAssumption
  <2>3. Settings!SetPanel(p) /\ PanelAt(regs, p)' = SetTo(x, y, rot)
    BY <1>11, <2>1, <2>2, SetPanelDone
  <2> QED BY <2>3 DEF SetTo
<1>12. ASSUME NEW universe \in {0, 1}, NEW bytes \in Payloads, NEW colour \in Colours,
              WholeColours(universe, bytes), ArtnetPalette(universe, bytes, colour)
       PROVE  Settings!SetPalette(universe, colour, bytes \div PixelBytes)
  BY <1>12, ArtnetMaps
<1> QED
  BY <1>1, <1>2, <1>3, <1>4, <1>5, <1>6, <1>7, <1>8, <1>9, <1>10, <1>11, <1>12 DEF CommandDone

(* A command that is typed does what its name says, and a panel that is    *)
(* set has what was typed, but for the bits of the rotation it has not.    *)
THEOREM CommandsAreDone == DisplaySpec => CommandsDone
<1>1. DisplayInv /\ [DisplayNext]_display_vars => [CommandDone]_display_vars
  BY EachDone
<1> QED BY <1>1, DisplayInvariant, PTL DEF DisplaySpec, CommandsDone
==================================================================================
